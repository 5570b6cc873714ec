# A verification of HoldemTools

HoldemTools lets people record poker hands and build game trees in the browser, has machines
solve the trees, and shows the strategies that come out.  Two things are hard about it.  Behind
the API, a database without row versions, a blob store, a storage queue and solver machines that
crash, lose requests and are stopped in the middle have to agree on who is solving what and on
what was solved.  In the browser, pages full of awaits, effects, workers, timers and refs that
outlive what they were set for have to show, and save, what belongs together, and a betting
engine has to account for every chip of a hand that is edited, undone and replayed.  These modules
model both, and the thread pool the engine solves on, in TLA+; TLC checks them on small instances,
and TLAPS proves the main results for every value of the constants.

Source paths below are relative to `src/`.  "W:138" is line 138 of the file that `W` stands for:

| | file |
|---|---|
| W  | `backend/Controllers/SolveJobsWatcherController.cs` |
| G  | `backend/Controllers/GameTreesController.cs` |
| CW | `backend/Controllers/EngineCompareWatcherController.cs` |
| CC | `backend/Controllers/EngineCompareController.cs` |
| SG | `backend/Controllers/SolveGroupsController.cs` |
| NR | `backend/Controllers/NodeRequestsController.cs` |
| P  | `watcher/watch_adls_and_run_pio_headless.py` |
| CP | `watcher/engine_compare_watcher.py` |
| TP | `engine/src/util/parallel.cpp` (and `.hpp`) |
| EN, RP, WI | `engine.ts`, `replay.ts`, `winnings.ts` in `frontend/src/pages/handhistory/create/` |
| CH | `frontend/src/pages/handhistory/create/CreateHandHistory.tsx` |
| HL | `frontend/src/pages/handhistory/HandHistoryTool.tsx` |
| RE | `frontend/src/pages/handhistory/HandReplay.tsx` |
| ST | `frontend/src/hooks/useSavedTrees.ts` |
| PS | `frontend/src/hooks/usePostflopSession.ts` |
| SIM | `frontend/src/hooks/useEquitySimulation.ts` |
| EC | `frontend/src/pages/equity/EquityCalc.tsx` |
| SC | `frontend/src/pages/compare/SolverCompare.tsx` |
| SO | `frontend/src/pages/solver/Solver.tsx` |
| HC | `frontend/src/lib/solver/handleActionClick.ts` |
| MC | `engine/src/main.cpp` |
| CK | `engine/src/io/checkpoint.cpp` |
| AS, CR, RX | `adls_store.py`, `cfr_registry.py`, `reextract.py` in `watcher/` |

## 1. The system

### Components, state, operations

**SolveJobs queue** (W, G, `backend/Models/SolveJob.cs`, `watcher/api_client.py`, P).  A table of
jobs `Queued -> Claimed -> Solving -> Extracting -> Uploading -> Done`, or `Failed`.  An upload
inserts a job, or joins an open one of the same identity; a watcher's claim first sweeps the
claims that have fallen silent (back to `Queued`, or `Failed` when the attempts are spent), then
pops the oldest queued row; reports advance the stage or keep the claim alive.  The watcher
works on one job at a time in one thread, and a second thread sends heartbeats.
*Correct when* a claim has one holder, an owner within its timeout is never robbed, the number of
attempts is bounded, and every job ends.

**Engine-compare queue and watcher** (CW, CC, `backend/Models/EngineCompareJob.cs`, CP).  The same
shape for the in-house engine, with an owner who can stop a job (which must keep what is solved)
and delete it with its blobs.  A job runs one to four child processes according to its mode.  A stop
reaches the watcher on the answer to one of its heartbeats, the engine by a stop file.
*Correct when* a stopped job is not run again, a stop ends the job, is not a failure and keeps the
result, `Done` means there is a result, and a deleted job leaves no blob.

**Solve lineages and groups** (CW:160-235, SG, CC).  Results of one solve id form a lineage: a
report removes the less converged results before it, after moving every group that holds one to
the new one; the database cascades a deleted job to its group slots.
*Correct when* the best result of a lineage survives, nothing a group holds is deleted, and no
blob is leaked, wherever the API dies.

**Node requests and street publishing** (NR, P, `watcher/adls_store.py`, `watcher/extraction.py`).
The page asks for a street; the API writes a request blob and pushes a message.  The watcher
drains the queue, and lists the blobs now and then as a safety net, extracts the street
from the board's local save (solving again if it was evicted), publishes bundle and manifest,
archives the blob, deletes the message.
*Correct when* the manifest never names what is not there, streets are never dropped, a request is
archived only when served, and every request is served.

**Engine thread pool and the forks of the traversals** (TP, `engine/src/solver/cfr.cpp`).
`parallel_for` over a shared list of batches; threads that wait help with whatever is pending, and
bodies fork again, to a depth and within a split budget.
*Correct when* every call is made once and has ended when `parallel_for` returns, nobody touches a
batch after its frame is gone, exceptions reach the owner, nothing deadlocks, and the
number of scratch arenas in use stays within the memory estimate.

**Engine solve run, checkpoints and stop file** (MC, CK, `stop_signal.hpp`).  A team's solve has two
phases: the spot's baseline, whose checkpoint all solves of the spot share and extend, and the team's
answer to it.  A run continues what it finds, or refuses to, trains slice by slice under a time
budget and a stop file, and writes each phase's checkpoint to a temporary file first.
*Correct when* a team's regrets answer one baseline, the one that is recorded, a run that is refused
has changed nothing, and nothing that was saved is shortened or overwritten unasked.

**Postflop library, local save retention** (AS, CR, RX, P).  The manifest of each solved board
and one index of all, read, changed and written back on the promise of a single writer, by the watcher and by
a script; and the saves on the disk, evicted oldest first to stay within a byte budget.
*Correct when* the manifests, the index and the disk tell the same of every board, and the disk stays within
its budget.

**Hand recorder** (EN, RP, WI, CH).  A table is set up, a hand is played action by action on an
engine that is a value (each operation clones), and it is saved as its setup and its line of actions.
Undo and redo keep whole engines; a seat edited in mid-hand rebuilds them from the line; a saved hand
is opened again one step before its end.  When the hand is over it is saved by itself, after the
showdown's equities, while the page may offer to solve the spot.
*Correct when* chips are conserved, a betting round ends when it must, the layers of the pot are the
pot and go to players who could have matched them, every frame on a stack follows from the table as
it now is, and a hand is stored once and the page left only then.

**List, replay and saved trees** (HL, RE, ST, `handTextCache.ts`, `TreeLibrary.tsx`).  Pages over
a cache, a fetch and single-row requests; the list also takes over to the account the hands a device
recorded while nobody was signed in.
*Correct when* no hand is lost or taken over twice, a replay never points past its frames, and a cache
is what the server would answer, the signed-in user's own.

**Solved boards and compared solves** (PS, SC).  A line through the streets of a solved board, whose
next street may have to be asked for and polled; and a page that queues a job, polls it, can
stop it, and lays the payloads of a result side by side as they arrive.
*Correct when* the line is a path of the board that is open, payloads side by side are of one spot and
of the job opened last, and a wait ends.

**Preflop tree of the solver page** (SO, HC, `usePreflopLineNodes.ts`, `seatNavigation.ts`).  A sim is a
folder of files, one per node; a click on an action walks to the next node, a click on a seat back to
its decision or ahead to it, one action per render, while plates are fetched in batches and another sim
may be picked.  Who is alive, who acts, the bets, the pot and the last raiser are kept click by click.
*Correct when* they are those of the line, the seat to act shows the line's node and nothing of another
sim, a flop is offered with the range of the line's last raise, and a walk ends.

**Equities** (SIM, `useShowdownEquity.ts`, EC).  A pool of workers that sample until the estimate is
precise, or one worker that enumerates; the equity page runs two for two boards and shows both, the recorder's
showdown runs two and looks at the first (section 6).
*Correct when* figures that are shown or saved are those of the cards they stand beside.

**Everything else**: pure functions (game trees, suit isomorphism, evaluators, artifact format,
configuration), floating-point iteration, single-row CRUD, rendering.  `PROJECT.json` lists each part
with the reason it is left out.

### How they interact

```
 browser --upload--> GameTrees --insert--> SolveJobs table <--claim/report-- Pio watcher ---+
    |                                                                                       | local saves
    +--ask street--> NodeRequests --blob, message--> storage, queue <--drain, list----------+
    |                                                     ^--- bundles, manifests ----------+
    +--solve/stop/delete--> EngineCompare --row--> jobs table <--claim/report/beat-- compare watcher
    |                           |                     |                                     |
    +--groups--> SolveGroups ---+--- lineages --------+                                  htsolver
                                                                                       (ThreadPool)
```

The API serves requests concurrently.  A handler reads rows, decides and saves, with no row
version and no transaction around the three: only the pop (W:163, CW:373) is one SQL statement.
A page of the browser runs one callback at a time, but between an `await` and what follows it
anything may happen: a click, another answer, an effect, a sign-out, the page being left.
Watchers talk to the API over HTTP, where a request can be lost before or after it took effect, or
time out while it is still being served.  Everything survives a crash of a watcher except its
memory; nobody tells the API about the crash.

### What is hard to test

`PROJECT.json` lists the hazards one by one, at their lines, with the properties that
cover each or the reason none does.  They are of these kinds: two handlers between their reads and
their saves; reports that are lost, late or out of order; a crash or death of the API between two
writes of one operation; two deliveries of one request (message and listing); a stop
that races a child's end; state cached in a process and stale by the time it is used; waits on a
shared pool that could be waits on each other; counters at their limit; in the browser, an answer or
a worker's report that comes after the user has gone on, a ref or a cache that outlives what it was
filled for, and the cents of a pot.

## 2. The modules

| module | models | composed with |
|---|---|---|
| `JobLifecycle` | what the SolveJobs queue promises: an atomic queue of jobs, no requests | abstract; `SolveQueue` implements it |
| `SolveQueue` | SolveJobs table, its handlers, the Pio watcher's main loop and heartbeat, uploads | `INSTANCE JobLifecycle` |
| `CompareQueue` | EngineCompareJobs table and handlers, the compare watcher and its children, the owner's stop and delete | what a finished result replaces is `SolveLineage` |
| `SolveLineage` | the terminal report's supersede, group editing, deletion | takes over at `CompareQueue`'s last report |
| `NodeRequests` | one board: post, queue, drain, listing, group, publish, archive, delete | in `StoredFiles` |
| `SolveRun` | a solve and its spot's baseline: resume, interlock, phases, checkpoints | in `StoredFiles` |
| `BoardLibrary` | manifests, index, the saves on the disk and their registry; the watcher and `reextract.py` | in `StoredFiles` |
| `StoredFiles` | the three: one of them moves | composes the three |
| `ThreadPool` | constructor, destructor, workers, `parallel_for`, waits, errors, and when a traversal forks | |
| `HandEngine` | the betting engine, its pots, the award, and the table of the next hand | |
| `HandEditor` | the recorder around it: line, undo, redo, seat edits, edit mode, replay frames | extends `HandEngine`; in `HandPages` |
| `HandSave` | the auto-save of a finished hand, the offer to solve it, the page change | in `HandPages` |
| `HandList` | the list of hands: fetch, migration from the device, deletion and roll-back | in `HandPages` |
| `HandReplay` | the replay page, its cursor and playback, the text cache | in `HandPages` |
| `SavedLibrary` | saved trees and folders: cache, fetch, panel, and the rows behind the API | in `ClientPages` |
| `PreflopWalk` | the preflop tree of a sim: clicks, walks back and ahead, plates, picks of a sim, the flop that is offered | in `ClientPages` |
| `PostflopSession` | a solved board: line, street bundles, card picker, polling | in `ClientPages` |
| `EquitySim` | one simulation: what it was asked, holds and will still say | operators; instantiated by the next two |
| `ShowdownEquity` | the showdown's equities of the recorder, and the auto-save that waits for them | in `HandPages` |
| `EquityCalculator` | the equity page: cards, runs, figures | in `ClientPages` |
| `CompareBench` | the compare page: job, poll, stop, results and their parts | in `ClientPages` |
| `HandPages` | the recorder, a hand's save and showdown, the list, the replay: one route at a time, the fairness of a page, the properties of all | composes the five |
| `ClientPages` | the same of the preflop tree, the solved boards, the compare page, the saved trees and the equity page | composes the five |
| `SolveQueueProofs`, `CompareQueueProofs`, `SolveLineageProofs`, `StoredFilesProofs`, `ThreadPoolProofs`, `HandPagesProofs`, `HandEngineProofs` | theorems about the module of their name and its parts (section 5) | extend it |
| `FiniteInduction` | induction over numbers and finite sets, and sums: lemmas about no module of the system | extended by `StoredFilesProofs`, `HandEngineProofs`, `HandPagesProofs` |
| `MC*` | symmetry sets, tables, trees and cards for TLC | extend the module of their name |

### How state and actions correspond to the code

*SolveQueue.* `job[j]` is a row; `fresh` is "the last heartbeat is within the claim timeout", the
only thing the code asks of its clock.  `call[s]` is a request on the wire or in service, in a slot
of its client: a watcher has one for its main loop, one for its heartbeat thread and one for a
request it has given up on that is still being served.  `watcher[w]` is the process.  A
handler is two actions, read (`SweepRead`, `ReportRead`, `SubmitRead`) and save (`SweepSave`,
`ReportSave`, `SubmitSave`), where the code reads, decides and calls `SaveChangesAsync`; the save
writes the columns the code sets and no others, which is what Entity Framework sends.  `ClaimNext` is
one action: one UPDATE.  `Overlap` says whether two handlers may be between read and save at the
same time; it is a constant because some promises hold only if they do not (section 6).
`Lose`, `GiveUp`, `Crash`, `PioFailsToStart`, `AgeOut` are what goes wrong.

*CompareQueue.* The same, with `stop` and `result` columns and `blob`, the results in storage.
`Children` lists each mode's child processes.  Between them the watcher looks at its cancellation
the way each mode's handler does (`Advanced`, `Missing`, `TerminalStatus`); `ApplyStop` is the
stop file written or the child killed, `EngineStops` an engine that wrote its artifact because of it.

*SolveLineage.* `call[r]` is a handler, one action per database or storage call: `Report` (save),
`SupersedeRead`, `SlotsRead`, `Repoint`, `DropBlobs`, `Remove`.  `Abort` is the API dying between two
of them.  `order` is when a row was reported, `told` that its identity came with it, `asked` the
jobs whose owner asked for their deletion; the last three exist to state properties.

*NodeRequests.* `request[i]` is a blob (watched, archived or, when a move stopped half-way, both),
`message[i]` its message with its dequeue count, `manifest` and `bundle` what is published, `cfr`
whether the board's save is on disk, `watcher` the one thread of the program: a step is what it does
between two calls to storage.  `seen` is `seen_reqs`, which is lost in a crash.

*SolveRun.* `file`, `tmp` and `artifact` are what is on disk of each solve: a checkpoint is its
iterations and the baseline it records, plus, as history, the baselines its regrets were trained against
(`trained`).  `run` is the process, `pc` where in `run_sampled_solve` it is; a slice is an action, and so is each step of
`write_checkpoint`: open, write, remove, rename.  A configuration (`Configs`) is any that `config.cpp`
lets through.  `moved` is history: the teams of which a run, rightly let past the interlock, then ended phase 1 short of
its target (section 6).  `due` and `torn` are history too: how many iterations a solve was last saved with, and the solves
whose checkpoint was removed by a run that ended before it renamed the new one.

*BoardLibrary.* `shelf` has the manifests, `index` the index, `disk` the boards whose `.cfr` is there,
`registry` the file and `writer[p].known` a process' copy of it; `writer` is the watcher and the script, each
between two calls of storage or of the disk.  `doubt` and `lost` are history: the boards of which a
fault has left the documents apart, or whose save it has kept from the housekeeping.

*StoredFiles.* The watcher is one thread, and the engine has a directory of its own, so that the three share no
variable: `part` says which of them moves.

*ThreadPool.* `batch[b]` is a `Batch` and the `parallel_for` that owns it, `task[b][i]` the call
`fn(i)`, `batches` the shared list, `worker[w]` a worker thread.  There is no stack: below a batch is
the body that forked it, below a task the wait or the worker that runs it, and only what has
nothing on top of it can move.  An action is what happens under the mutex or between two atomic
operations; `Notify` is apart from the push because the code notifies after it unlocks.  Of the
traversal only the decision to fork is there (`Forks`, `ChildSplit`): its depth, its split budget and
how the budget is divided among the children.

*HandEngine.* `engine` is the record EN calls `Engine`, with sets for its arrays of flags; `setup` the
table it was built from.  `ApplyAction` is `applyAction`, made of `SettleAction`, `ReturnUncalled` and
`AdvanceStreet` as there; the actions are the buttons `legalActions` enables, with every size between
the least raise and the stack.  A chip is a cent, so that the roundings of WI are divisions of integers.
`cards` is how the hands rank on each board, if they are all known: the evaluator is external to the model, who is
best of those who can claim a layer is not.

*HandEditor.* `line` is `streetActions` flattened; a `Frame` is an engine with its line.  `RebuildFrames`
and `ReconstructFrames` are the two replays of a line, the recorder's and the replayer's, `Replaced` what
a seat edit does with the first, `OpenAt` how the edit mode opens a saved hand.

*HandSave.* `hand` is the hand on the table, `refs` the refs of the page, which outlive it, `post` the
save in flight, `modal` the prompt or the tree-building panel, `timers` the pending
`finishSolveFlow` calls, `stored` how often the server has stored each hand.  The auto-save and offer
effects run with the step that changes what they depend on (`Effects`).

*HandList.* `device` and the account's rows are where hands are; `Mount` is the effects of a visit;
`MigratePost` one round of the migration's loop.  *HandReplay.* `load`, `cursor` and `playing` are the
page's; the reset effect and the playback interval are actions, because a commit renders before
they run.  `Rendered` is that render: without a frame at the cursor it throws, and the page is gone ("broken").  *SavedLibrary.* `hook` is the module-level state of ST, `library` its cache, `panel` and `change`
the panel and its one request; `Reach` is the server's walk of a subtree, `Doomed` the client's.

*PreflopWalk.* `plates`, `data`, `mapping`, `replay`, `skip`, `clicked` are the page's `loadedPlates`,
`plateData` (here: the sim each came from), `plateMapping`, `preflopReplay`, `skipTarget`, `lastClickRef`;
`table` is the line, the seats and the money; `requests` what has been asked.  A plate is the sequence of
action numbers in its file name.  `HandleClick` is `handleActionClickImpl`, with the effects that a change
of the plates sets off (`Refetch`): the batch under way is cut off, what had arrived of it is kept, and
what is missing is asked for.  `Up` and `Paid` are the seats and chips as HC counts them, `UpAfter` and
`Replayed` as `seatNavigation.ts` and `usePreflopLineNodes.ts` read them off the line: the properties
compare the two.  `astray` is history: what the code cannot be held to any more, once a click was not at
the line's own node, metadata came for another sim, or plates were lost (section 6).
*PostflopSession.* `core` is the state a render sees and the refs behind it, a `Task` a call of `open` or
`pickCard` between two of its awaits.  *CompareBench.* `loads` are the calls of `loadJobResult` in
flight, `solve` the one `submitJob`; the job itself is a status on the server.  *EquitySim.* a question is
a number; a simulation remembers whose result it holds.  `ShowdownEquity` and `EquityCalculator` have one
for each board.

*HandPages, ClientPages.* One route is open and the other pages stand still; a page's own module is all
that can happen on it.

## 3. What the runs check

Every run finishes; deadlock is checked in all but `lineage`, `stored_files`, `shared_baseline`,
`hand_recorder` and `client_pages`, where the system does stop once every job is deleted, or the runs are used
up, or the user has done all that the bounds allow.  "Fault" means one event of those that the module
charges to `MaxFaults`.

| run | what it shows | bounds |
|---|---|---|
| `solvequeue_serial` | With handlers that do not overlap, the table implements the atomic queue (`ImplementsLifecycle`), a claim has one holder (`ClaimsDistinct`), the owner column is right and a job is handed out at most `MaxAttempts` times (`ClaimsAccounted`). | 2 watchers, 1 user, 1 job, 2 attempts, 2 faults |
| `solvequeue_live` | With overlapping handlers: a job may be handed out more than `MaxAttempts` times, when a sweep saves what it read too early, but the excess is bounded (`HandOutsBounded`), and every queued job ends (`EveryJobEnds`). | 1 watcher, 2 jobs, 2 attempts, 2 faults; every upload is of another sim, so that none is taken for a duplicate |
| `compare_serial` | `Done` has its result and deleted jobs leave no blob (`ResultsAccounted`), nothing fails unless something failed (`FailsOnlyByFault`). | all 5 modes, 1 watcher, 1 user, 1 job, 2 faults |
| `compare_live` | With overlapping handlers: a stop ends the job (`StopEnds`) although each solve might run for ever; a sweep that read the job before the stop may queue it once more, and once none is under way the job is never queued again (`StoppedForGood`). | two-core mode, overlapping handlers, 1 fault |
| `compare_stop_lost` | Violates `StoppedSolveKept`: a compare job stopped during its solve loses the solve. | compare mode, no fault |
| `lineage` | The lineage keeps its best result (`LineageKept`) and leaves nothing behind (`NothingBehind`): it only moves forward, and no blob stays without its row; no group loses its member (`GroupsFollow`). | 2 jobs of 1 solve id, with and without either of 2 keys, 1 group, 2 edits, 1 death of the API, one request at a time |
| `stored_files` | Requests: the manifest is truthful (`ManifestTruthful`), archived means served (`ArchivedWasServed`), streets stay (`StreetsKept`), every accepted request is served (`EveryRequestServed`).  Solves: one baseline for a team (`TrainedAgainstOne`), a refused run changes nothing (`RefusedUntouched`), what is saved stays, but for a run that ends between the removal and the renaming of a checkpoint (`SavedKept`).  Library: documents and disk agree, within the budget (`LibrarySound`). | 2 requests, 2 streets, 2 faults of any kind, 1 eviction, dequeue limit 2; 1 team and the baseline, 2 iterations (batches), 3 runs, 1 crash or failed write; 3 boards on a disk for 2, 4 solves, requests or scripts, 1 fault |
| `shared_baseline` | Violates `FrozenAsTrained`: a team goes on against another baseline than its own. | 1 team, 3 iterations, 3 runs, no fault |
| `pool` | No dangling batch (`OutlivesItsTasks`), each call once (`RunsOnce`), errors reach the owner (`ErrorReachesCaller`), every call and the destructor return (`WaitsEnd`). | pools of 1 to 3 threads, forks 2 levels deep, 3 batches of up to 2 calls, 2 calls of the owner, 1 exception |
| `pool_arenas` | The memory estimate's count of arenas holds (`ArenasBounded`). | 2 threads, nodes of 3 or 5 children, 6 batches |
| `hand_recorder` | Chips are conserved, the layers are the pot, the award hands it out to those who could match it and the summary names what was contested (`ChipsAccounted`), rounds close when they must and hands go on (`BettingSound`), the undo and redo frames follow from the table and saved hands come back as they were (`FramesFaithful`); hands are stored once and never lost (`HandsKept`), a replay has the frame it shows and a first showdown its own converged equities, of the first board (`HandViewsAreOwn`), whatever is waited for comes or fails (`HandPagesSettle`). | 3 chairs, 2 or 3 players, stacks of 1 to 4 chips, antes, straddles, two boards; 2 hands in a row, the second at most two actions into it in the editor (`SecondHandShort`); 1 edit, 1 frame undone; the other pages, `HandPages.cfg`: 2 or 3 hands, 1 or 2 failures, sign-ins and repetitions |
| `client_pages` | What stands together on the screen belongs together: a line, its table and its plates, a board and its streets, payloads of one spot (`SolverViewsAgree`), the user's own library and the figures of the cards (`ToolsShowOwn`), the two being `ViewsAgree`; whatever a page waits for comes or fails (`PagesSettle`). | per page, `ClientPages.cfg`: 2 sims, of 3 and of 2 players, with 2 clicks and 3 events (clicks, picks, failures; walks take as many actions as they need); 2 or 3 trees, folders, boards, spots, jobs or card sets, 1 or 2 failures, sign-ins and repetitions |

`MCHandPages` lets a table be played either with all its sizes and two hands in a row (`EngineTables`,
the route "engine"), or with the editor around it (`EditorTables`): the two questions multiply badly and do not meet.
The properties of the pages are conjunctions, one conjunct or more per page, stated at the end of
the page's own module.

### Why these bounds

Rows of the two queues do not refer to one another: they interact only through "oldest first",
"an open duplicate" and "sweeps happen inside claims".  So safety is examined with one job, two
claimants and two faults (a claim lost, swept, claimed by the other, lost again: the number of
attempts reaches its limit), and liveness with two jobs, where a silent job has to wait for a watcher
that has another one to solve.  There one watcher has two claims in service, the one it waits for and the one it
gave up, which is all it takes for two sweeps to overlap: the third hand-out of a job with two attempts is reached.  A lineage needs two rows to have an older and a newer result; the
second key makes matching by id and by key different.  Two requests of one street and of two streets are the two
ways a group forms.  Two iterations are a baseline at its target and one short of it, three runs one
that trains, one of somebody else that moves the baseline, and one that comes back; three boards, of which one is
smaller, fill the disk, are evicted alone and in pairs, and are solved again.  Three batches are an owner's call and two forks, on two levels or
from two bodies; three threads are enough for one to wait, one to help and one to run.  `pool_arenas`
trades threads for width, because the bound could only fail where a division of the split budget
rounds (4 x 2 = 8 over 3 or 5 children) and a helper forks again on top of an older batch.

A pot needs three players to have a side pot and a player who can be passed over; seven chips
let a raise be short and a split be odd.  One edit with one undone frame puts an old frame on each stack.
Two clicks reach a call that ends the preflop, and leave one walk that goes back or ahead; the third event
is what comes between: another sim, or a request that fails.  On a page, two of a thing (two hands, two boards, two jobs) are one that is waited for and one the user
has gone on to; a third is there where a stale answer could meet a third state (folders of folders).

The engine's own constants are larger (`kMaxSplitLevels` is 4, a pool has as many threads as the
machine): what does not depend on their values is proved (section 5), the arena bound and liveness
are model-checked.

### Mutants

For every property of a passing run, `PROJECT.json` names a change to one definition that a plausible
bug would make, e.g. a sweep that keeps the old owner (`SweptOwned`), a wait that returns when all
calls are claimed (`DrainedClaimed`), `notify_one` for `notify_all` (`NotifiedOne`), a listing that
remembers what it saw before the restart (`StartedSeeded`), an auto-save that forgets that it is
done (`AutoSaveDueAlways`), a card that keeps the first plate it shows (`ShowingFirst`), one pass over the folders where it takes several (`DoomedOnce`).  TLC finds the property violated
under the run's own configuration.

## 4. Fairness

* **SolveQueue**: the API serves each request that reaches it (`WF Serve(s)`); a watcher goes on
  and is started again when it goes down (`WF Work(w)`: its main loop has no exit, P:1507-1556, and
  jobs are kept in the table so that they "survive watcher restarts", `watcher/README.md:22`, which
  takes somebody who restarts it); a claim nobody works on ages (time passes).  Nothing is assumed of heartbeats,
  of losses or of users.
* **CompareQueue**: the same, and the heartbeat thread beats and hears its answers.  The two engine
  solves get no fairness of their own, a solve may go on for ever; the other children end.
* **NodeRequests, StoredFiles** (nobody has to start a solve or a script): the one thread goes on (`WF Work`); `SF Reconcile`, because the listing is due by
  a timer that has run out by the time the loop comes round to it, however often the loop was busy
  before (P:1519); a message whose visibility timeout is over reappears.
* **ThreadPool**: each thread that can move does (`WF` of a wait's steps, of a body's end, of a
  worker's steps, of the destructor's).  Forks and throws are the program's choice and get none.
* **HandPages, ClientPages**: while a page is open the browser and the network go on by themselves: a request is
  served and is answered or fails (`Served`, `Answered`), workers end, because samples are capped
  (SIM:246) and an enumeration is finite, intervals tick and effects run (`RunsOn`).  `SF` of the replay's
  text: it is answered between commits, and its turn comes again after each.  No click is owed, nor the
  listing of a sim's files, nor its metadata.
* **HandEditor** has none: a recorder waits for its user.

## 5. What is proved

Eight modules hold theorems, checked by TLAPS down to the last leaf, for every value of the
constants their modules assume something about (numbers are naturals, names are distinct, jobs or
workers finitely many where they are counted, a stack the seat editor enters is not zero).  Each result that a run checks too is marked with that
property; `PROJECT.json` lists all of them.

Three kinds of hypothesis occur.  *None*: the theorem is about `Spec`, with overlapping handlers, faults and
restarts.  *One handler at a time* (`~Overlap`; `OneAtATime` for lineages): the code has no
transaction around a handler's read and its save, and where two overlap the property is false
(section 6 says how); the theorem says that this is the only way it can fail.  The runs
`solvequeue_serial`, `compare_serial` and `lineage` make the same assumption.  What is left of the queues' promises
when handlers do overlap is stated, and proved, without it (`HandOutsAreBounded`, `StopIsForGood`).  *The small blind is not
above the big one* (`SmallBlind <= BigBlind`): for `ChipsAreAccounted` alone, and needed there
(section 6).

**SolveQueue** (`SolveQueueProofs`).  Without hypothesis: `TypeCorrect` (`TypeOK`),
`ClaimsExclusive` (`ClaimsDistinct`: no claim has two holders) and `HandOutsAreBounded` (`HandOutsBounded`: how often
sweeps that overlap can hand a job out).  One handler at a time: `ClaimsAreAccounted` (`ClaimsAccounted`) and
`QueueImplementsLifecycle` (`ImplementsLifecycle`: the refinement of `JobLifecycle`).

The inductive invariant of the first two is `TypeOK /\ WellFormed /\ ClaimsDistinct`.  `ClaimsDistinct`
is stated of what a watcher holds *or is about to be told it holds* (`Held` looks at the answer on the
wire), and numbers a claim by the attempt it is: a pop makes attempt `n + 1` of a row whose counted
attempts were `n`, so nobody holds it yet, and no other action makes a holder.  `WellFormed` ties each
slot to what its client is doing, without which an answer could reach a watcher that never asked.
`ServeClaims` and `ClientClaims` are the server's and the clients' steps; `ClaimsShrink` and
`ClaimsGrow` carry the two cases of the argument.

`HandOutsAreBounded` counts.  A job whose attempts are spent gets another one only if it is queued again, and a sweep that
reads it as spent does not do that: only one that had read it before can.  `Pending(j)` are the claim requests that
still hold such a reading, and `Waits(j)` says that one of them has put the row back already; the attempts, `Waits`
and the number of `Pending` together do not grow once the attempts are spent (`Bounded`), because a save takes its request out of
`Pending`, a pop turns `Waits` into an attempt, and a new reading is not `Pending`.  `Placed` (a heartbeat's slot has no claim) bounds
the requests there can be when the last attempt is handed out.

The last two rest on `SerialInv`: at most one
request is between read and save (`Alone`), what it has read it would read again (`Current`), and only
rows with attempts left are queued (`Accounted`).  With `Current` a save does what the handler decided
on, so each save is one step of the atomic queue, each read a stutter, and the refinement goes
action by action.

**CompareQueue** (`CompareQueueProofs`).  Without hypothesis: `CompareTypeCorrect`
(`TypeOK`) and `StopIsForGood` (`StoppedForGood`).  One handler at a time: `ResultsTrue`
(`ResultsAccounted`) and `FailsByFault` (`FailsOnlyByFault`).

* `TypeInv` adds to the types what a request is in each slot (`CallFormed`) and what a process at each
  step carries (`WatcherFormed`): the children left to run are a suffix of its mode's, a request out is the
  one the step waits for.
* `SerialInv` has `Alone` and `Current` again.  A Cancel that has read "queued", or a sweep that has read "no stop",
  still sees that when it saves: without it a stopped job goes back to the queue.
* `StopIsForGood` follows every handler that may overlap.  A save writes a status that was decided before it, so the
  case that matters is a decision from before the stop: a sweep's is what `StopSettled` asks about, a report never
  decides for the queue, and a Cancel that read "queued" writes "cancelled", whatever the row is by then.
* `Told` needs neither hypothesis: who says that there is a result, a row, a report on the wire or a
  handler about to report, says it when the row has its paths, or brings them.
* `Fine` holds until something fails, and is what makes the other two inductive: what a
  watcher is at determines what its row says and whether the result is in storage (`Fits`); an active
  row has its watcher at work, heard of within the timeout (`Owned`), so no sweep touches it; a result in
  storage is on its way to the row or named by it (`Kept`).  The invariant is `faults = 0 => Fine`.
  `FineAgeOut` is the step that ties the two: without a fault a claim ages only when nobody
  works on it, and `Owned` says there is somebody.

**SolveLineage** (`SolveLineageProofs`).  Without hypothesis: `LineageTypeCorrect` (`TypeOK`) and
`NothingStored` (no row leaves its result behind, wherever the API dies).  Requests
served one at a time: `LineageIsKept` (`LineageKept`), `NothingLeftBehind` (`NothingBehind`),
`GroupsAreMoved` (`GroupsFollow`).  The invariant follows a report through its steps: the result that
replaces others stays what it was reported as (`NewStays`), what it found to replace is what it must (`OldStay`),
and the groups that hold these are known, then moved (`GroupsMove`).  `LineageKept` is by itself not
inductive, since successors are replaced in turn: the new successor is at least as far as the one it replaces, which is
what `OldStay` carries from the query to the deletion.

**NodeRequests** (`StoredFilesProofs`, no hypothesis).  `NodeTypeCorrect`, `ManifestIsTruthful`
(`ManifestTruthful`), `ArchivedOnlyWhenServed` (`ArchivedWasServed`), `StreetsAreKept` (`StreetsKept`).
What is true of the manifest has to be true of the copy the watcher carries from the download through the
extraction to the upload (`ReadTruthful`, `ReadKeeps`), and on its way to the archive a group's street is
pending or published (`GroupServed`).

**SolveRun** (`StoredFilesProofs`, no hypothesis).  `SolveTypeCorrect`, `RefusedIsUntouched`
(`RefusedUntouched`), `TrainedAgainstOneBaseline` (`TrainedAgainstOne`), `SavedIsKept` (`SavedKept`).
The interlock compares numbers; that a solver then holds regrets against one baseline only is a
statement about every file it may come from, the temporary one included (`FilesAgainstOne`), and about the process at
each phase (`SolverAgainstOne`).  `SavedKept` says of every solve that was saved (`due`) that its checkpoint is under its name with as
many iterations, or removed by a run that has the whole of a longer one ready and is about to rename it: a `.tmp`
that its run has left counts for nothing.  Without `torn` it is false: TLC stops at a run that saves, followed by one that
removes the checkpoint and is killed (section 6).  `torn` is that one step and no other, so that the theorem says of all
others that they are safe to be left at; `WholeFiles` and `Continues` are why.

**BoardLibrary** (`StoredFilesProofs`, no hypothesis).  `LibraryTypeCorrect`, and `LibraryIsSound`
(`LibrarySound`: between two jobs the index, the manifests and the disk agree on every board no fault has touched, and
the saves are within their budget), for any boards, sizes and budget and any number of solves, scripts and faults.
`LibrarySound` speaks of rest only, so `LibraryInv` has to say it of every moment between two writes.

* `InFlux` names the boards a process has in its hands: the one it publishes, or all it has evicted and not yet marked.
  Every other board agrees (`OthersAgree`).  Of the one in its hands `DocumentFits` says how far it is:
  what was read of the manifest is still the manifest, because there is one process at a time (`OneUp`); once the manifest is written the index has to follow.
  `MarksFit` keeps the evicted boards that wait for their turn alike in both documents, so that marking one
  after the other ends with all of them agreed.  `ScriptFits` says that
  a board the script takes up agreed before, and that it leaves out of the documents nothing that was there.
* What a registry lists, in memory or in the file, has been published (`ListedFull`): an eviction therefore never
  has to mark a board the library has no entry of.  And every save on the disk is listed, but those in `lost` (`KnownFits`, `RegistryFits`).
* The budget is an invariant of a sum over what is listed (`WithinBudget`).  The recursive function `Evictions` removes
  from the front until the rest fits; that it does, and that a sum over a smaller set is smaller, is by the
  induction of `FiniteInduction` (`LeftIsWithin`, `LessIsWithin`, `SumSplit`).

An earlier `lost` was found wrong by this proof: after an eviction it kept only the file that was held open, and so called listed
what the `registry.json` of a failed save did not list.  With three faults that is wrong: `_save` swallows its error (CR:103), memory is gone with
the process, and the file that was never rewritten is loaded.  `lost` is a history variable; `Enforce` now takes out of it
what both the file and the memory list.

**StoredFiles** (`StoredFilesProofs`).  `StoredImplementsParts`: a behaviour of the composition is one of
each part; so `StoredStreets`, `StoredSolves` and `StoredLibrary` carry the theorems over, and `StoredTyped`
(`StoredTypeOK`) puts the types of the parts together.

**ThreadPool** (`ThreadPoolProofs`, no hypothesis).  `PoolTypeCorrect` (`TypeOK`; that `remaining` never
passes below zero is part of it), `BatchOutlives` (`OutlivesItsTasks`: no thread reaches a batch whose
frame is gone), `EachCallOnce` (`RunsOnce`), `ErrorsReachCaller` (`ErrorReachesCaller`),
`ArenasAreBounded` (`ArenasBounded`).

The inductive invariant has ten parts: the types; batches are numbered in the order they are made
(`Made`); calls below `next` have been made once and the others are free (`Claimed`); what is
listed is in a wait (`Listed`); whoever runs a task is busy with it and with no other (`RunBy`,
`RunByOne`); what forked an open batch waits for it alone, and is older (`ForkedFrom`, `ForkedOne`);
`remaining` is the number of calls that have not ended (`Counted`); and a wait ends with none left
(`Ended`).  `Counted` is the heart: the wait looks at `remaining` only, so that a batch may end is a
statement about a cardinality, and every step has to be shown to change the set and the
number together.  `RunByOne` and `ForkedOne` keep a return from waking two bodies.  The proof
goes by kind of step: a batch moves without touching its tasks (`MovedInv`), a call begins
(`BeginInv`), a body goes on or ends (`BodyGoesOn`, `BodyOver`), a batch is opened
(`ParallelForInv`), a `parallel_for` returns (`ReturnInv`); every action is one of these.
For the exceptions `Thrown` says that what was thrown is in an open batch until the owner has
it.  That the owner's batch is that one when it returns needs the order of the forest: every open batch hangs
below an older open one, so when the owner's returns, with all its calls ended, no other is open.

The arenas are two counts.  Bodies that do not wait: each body in work is run by a busy worker or by an open
batch, and by one that runs no other (`InWorkBound`); each open batch but the owner's was forked by a body that
waits for it alone (`OpenBound`); so there are no more of them than threads (`TopsBound`).  Bodies that wait:
`Worth(j, s)` is what a body may add to them with j levels left and a share s of the split budget, and
`WorthForked` is the arithmetic that its own wait and those of its children fit in it, because the budget
is divided among them.  `Credits` lays all that is still to come out as a set, so that one step compares
two sets: a fork maps what it adds into its body's credits one-to-one (`WaitsFork`), every
other step but the owner's call takes credits away (`WaitsShrink`), and the call finds none and hands out at most
`MaxSplitLevels * Threads` (`WaitsCall`).  No induction over the forest is needed.

**HandPages** (`HandPagesProofs`, no hypothesis).  `HandPagesImplementPages`: a behaviour of the pages is
one of each page.  So what is proved of a page holds of all together: `HandsAreKept` (`HandsKept`),
`HandViewsAreTheirOwn` (`HandViewsAreOwn`), `RecorderIsFaithful` (`FramesFaithful`) and `HandPagesTyped`
(`HandPagesTypeOK`), for any number of hands, visits, sign-outs, texts, cards, edits and faults.

* The recorder with its editor (`EditorInv`; `EditorTyped` and `FramesAreFaithful` are about `EditorSpec` by itself).
  What is shown, what was undone before it and what can be redone after it are one story (`InStory`): each frame is, but for
  the winners, what the table *as it is now* makes of the frame's own line (`Follower`), and each line
  begins the next.  Deciding a hand changes winners alone, an action drops the redo stack, and a seat edit
  makes the whole story again (`StoryRebuilt`), which is why `history` has to be replaced with the frame.  While the
  table is set up the stacks may hold frames of another table; `Start` and `EditSeat` drop them.
  Three facts carry this over lines of any length.  Any line at all leads to an engine that keeps its chips and waits
  for nobody who cannot act (`Whole`, `InPlay`), at any table, since a replayed line is not one the panel offered.  What
  `settleAction` records of an action plays as the action did, and is recorded the same again (`RecordedAgain`).  Engines
  that differ in their winners alone go on alike (`ApplyAlike`).  The frames of a line then exist and tell themselves
  (`RebuildIs`, `RebuildTold`: functions by recursion over the line, built with `StepsExist`).
  `ReplayFaithful` follows the replayer beside the engine (`Alongside`): where the engine deals the streets that are left in
  one action, the replayer's own loop shows them one by one and ends where the engine does (`ShowsEnds`), so it shows
  every frame of the recorder, and more (`ReplayShows`); put back, the winners make the last frame again (`WonBack`).

* The save (`SaveInv`).  `StoredOnce` gives a hand one copy, one more for each failed attempt and each time
  the table is set up again, and nothing in the code counts them: four refs and a modal keep the next save from
  starting.  So the invariant says of every moment of the flow how much room is left.  With none the hand is
  saved and its modal is open (`FullIsLeaving`), so that only the page change can follow; a deferred save
  whose page change will not follow leaves room for one more (`RoomToDefer`); before the
  auto-save only failed attempts can have stored the hand (`ByFaults`), and without a set-up not
  even these while the hand is open (`FirstTry`).  `NoFaultLeaves` and `OfferedLeaves` are the other
  promise: without a fault whoever saved a hand is on the way to the list.
* The list (`ListInv`).  `NoHandLost` needs that what a migration that may still empty the device has not taken is
  stored, deleted or failed (`Covered`).  Two arguments bound the copies of a hand (`ListTypeOK`,
  `MigratedOnce`): with faults, or a migration left half-way, a hand has at most as many copies as there were
  mounts and sign-outs (`CopiesCounted`, about the number of migrations that still have the hand to do); without
  them one migration is looked at at a time, and what it stored it does not take again (`OneMigration`,
  `StoredAndGone`).
* The replay (`ReplayInv`).  `FrameExists` is inductive beside the types: a text that is longer than where the cursor is
  has the frame until the effect resets the cursor, a shorter one ends the page, and the cursor moves only
  between commits.
* The equities (`EquityInv`).  What is shown is of the request that is current and of a first board's simulation that has ended
  (`PctIsOwn`), what is saved was shown (`SavedIsOwn`); both hold because the simulation of the first
  showdown never carries another's request, and is final once its pool has ended (`FinalAndOwn`).  Nothing is said of
  the second board's, at which the code does not look (section 6).

**HandEngine** (`HandEngineProofs`).  For any number of seats, blinds, stacks, antes, straddles and hands
in a row: `BettingIsSound` (`BettingSound`), `ChipsAreKept` (`ChipsKept`), `EngineTyped` (`TypeOK`) and
`PotIsAwarded` (`PotsAreThePot`, `AwardIsThePot`, `NobodyOverpaid`), with no hypothesis; `ChipsAreAccounted`
(`ChipsAccounted`) if the small blind is not above the big one, which is needed (section 6).  The theorems are about `Spec`, a
hand played with the panel's buttons and the hands dealt after it.  Of a line replayed over an edited table
(`HandEditor`'s `EditorSpec`), which may be no play the panel allows, `HandPagesProofs` proves that its chips are kept, and no
more than that is claimed of it.

* `RecorderInv` is that the table is one the form lets through and that the engine is one of it
  (`EngineInv`): its types, its chips (`Chips`), the round in work (`Round`) and whom it waits for (`Waits`).
* `BetsMatched` speaks of closed streets, so by itself it says nothing of the one in work.  `Round` adds that
  who has acted and can act has not less in front than the bet, and that at most one player has more
  (`OneOver`: a small blind above the big one).  So when `nextToAct` finds nobody, everyone who can act has
  put in as much as anyone (`Matched`), and the refund of what nobody called keeps that.
* A street that nobody can bet on is dealt with the next, and the next: `AdvanceStreet` calls itself.
  The proof follows it over the three streets that are left.
* `Chips` is an invariant of sums: a step changes the stake of one player, or moves stakes that the pot
  has counted already (`TotalChange`).
* What the blinds and straddles leave is an invariant of their list (`BuildFits`), carried along it by an
  induction that is itself proved, from the pigeonhole principle, since the library's cannot be used.
* The layers cut every stake in slices that add up to what the layers reach of it (`Telescope`), and a sum over
  layers and seats may be taken by either first (`TotalSwap`): so the layers hold every stake that somebody
  live reaches (`PotsHold`), which is all of them unless `Deserted`.  Who takes a layer has reached it, and its shares
  add up to it (`SplitSum`, `TakesFit`); so the award is the pot (`AwardFits`), and what one player wins is
  of layers up to his own stake (`NoneOverpaid`).  A hand that is over has a layer at all because the
  blinds leave a stake that no refund takes back (`Staked`, `StreetStaked`).
* The summary looks at the bets of the last street, `SummaryPotContested` at the stakes of the whole hand.  They
  agree because nobody who bets on a street has less behind than anyone who was dealt in, folded or not
  (`BehindAll`), and nobody live has more behind than everybody else (`Rivalled`).

### What stays with TLC

* Liveness (`EveryJobEnds`, `StopEnds`, `EveryRequestServed`, `WaitsEnd`, `HandPagesSettle`,
  `PagesSettle`): the prover has no rule for ENABLED, which fairness needs.
* `StoppedSolveKept` and `FrozenAsTrained` are false, which is what their runs are for.
* The pages of `ClientPages` (`PagesTypeOK`, `ViewsAgree`) are checked with small bounds.  That the chips kept click by click are
  those of the line (`TableIsTheLine`) depends on the sims' files: where one offered "Min" after a larger raise, the bet would
  fall, and `Most` with it, but not the `most` of a replay.  The code states nowhere what a file may offer, so a theorem would
  need an assumption of its own.

## 6. Where the code and its words differ

Two are runs:

1. **Stopping a compare job loses the solve** (`compare_stop_lost`).  `watcher/README.md:170` says
   stopping keeps the work.  The engine writes its artifact; the extraction that follows runs under
   the same cancellation (CP:677) and is killed at its first look, and the artifact goes with
   the temporary directory.
2. **A team goes on against another baseline than its own** (`shared_baseline`).  MC:390 says of the rows phase 2 was
   trained against and those of the live baseline that they "are equal by the check above", and MC:303 that a
   baseline never rewinds.  A no-team solve of the spot with `resume: "never"` starts the same file over;
   a team that resumes is checked against where phase 1 is *meant* to end, and when the stop file or
   the budget ends it before, phase 2 goes on, and is stamped, with the shorter one.

Others were met while modelling.  They are in the models where a module's bounds or constants let them
in, and keep some properties to the conditions stated beside them.  Behind the API:

* A blip kills a finished solve.  `watcher/api_client.py:12` says that an API blip must never kill a
  10-minute solve.  `report` swallows the error and the pipeline goes on, but the row is then a stage
  behind, and W:204 refuses every stage that does not follow: `Done` too.
* A failed group is not retried.  P:1289 says a later pass retries it.  `main` adds the listed paths to
  `seen_reqs` before it processes them (P:1524), the listing skips what it has seen, and the message is
  then dropped as "already handled this session" (P:1368).
* Two overlapping sweeps, or a sweep and a claim: the sweep's save takes a claim that was made after
  its read from a live watcher, or a finished job back to the queue (W:124-154; the comment calls a race of two sweeps
  benign).  A job can so be handed out more than `MaxAttempts` times.  This is why `ClaimsAccounted` and the
  refinement are stated with `Overlap = FALSE`; `HandOutsBounded` is what holds without.
* A sweep that read a row before its owner's Cancel was saved queues a stopped job again (CW:340-346), and a Cancel that read
  the row before the sweep saved it leaves it queued (CC:459): it is claimed, run and stopped once more.
  `StoppedForGood` is that there is no other way.
* Two overlapping reports of one lineage with equal iterations delete each other's result
  (CW:174-189): hence one request at a time in `lineage`.
* A stop ends a multiway job between its solves, and a two-core job in its re-extraction, as
  `Failed` (CP:894), where `EngineCompareJob.cs:164` says a stop is `Cancelled`: `FailsOnlyByFault` is
  stated of the modes that ask.
* A request posted before midnight and not served by the end of the grace after it is no longer
  listed (P:110, 200-218, `WATCH_TODAY_ONLY`);
  a move that failed is not tried again (P:752); a failed read of the manifest counts as
  no manifest (P:1120-1123); a group given up on (P:1258), or a request whose download failed for a
  moment (P:1288-1294), is archived as handled.  `stored_files` has all these faults; the properties
  they break are stated of behaviours without them (`Grave`, `Without`).
* A report that arrives late from a watcher that has since claimed again under the same host
  name passes the owner check (W:87-90).
* The look for an open duplicate and the insert are not one step (G:124-151).
* `checkpoint.hpp` promises that an interrupted write cannot destroy a good checkpoint; CK:139-140
  removes the old file before it renames the new one.  A run that ends there, killed or because the rename fails, leaves a
  `.tmp` nobody reads: the solve, or the baseline of every team of the spot, starts over.  `SavedKept` names
  the case (`torn`); without it TLC finds it broken in two runs.
* A team that has trained and whose phase 1 was then cut short is refused by the next run, until it is rebased:
  its checkpoint records a shorter baseline than the one the run would end with (MC:294-326).
* A failed read of the index is taken for an empty one, and the write that follows drops every other entry (AS:88);
  a failed read of a manifest by the script skips the board.
* RX counts as a board's turns what this run uploaded, where P:1129 counts those of the merged
  manifest; the model takes both processes to run with the same `PIO_TURN_PRECOMPUTE`.  AS counts on a single
  writer, and the two are one only as long as nobody runs the script beside the watcher.
* A solve or an extraction that fails before the registry is told leaves a `.cfr` that no budget counts (P:1154-1175).
* The loop of a `parallel_for` that runs alone stops at the first exception, where `parallel.hpp:41`
  has it rethrown after the batch drains; `RunsOnce` says so.  The comment at `cfr.cpp:200` counts one
  arena per thread and level; a thread that waits can go deeper, by helping an older batch, and it is
  the division of the split budget that keeps the sum within the bound.

In the browser:

* EN:541 says of the pot's layers that "the amounts sum exactly to displayedPot".  A player who has put
  in more than everyone still live, and folds, leaves chips above the highest live stake, which no layer
  holds (`Deserted`).  He may fold when he could have checked; or fold to a raise that is then returned down to
  the all-in of a third player, since the refund looks at who is live (EN:112-130).
* On two boards each half of an odd layer is rounded up (WI:14, 51): one cent is made per layer.
* The setup form lets a small blind be above the big one.  If that player folds before the flop, the final pot of
  a hand that is folded out later counts what he had put in beyond everybody else as the winner's to match:
  `ChipsAreAccounted` has the hypothesis that rules it out.
* Blinds that put everybody all-in leave a hand that waits for nobody and never ends (EN:262).
* CH:533 says of a seat edit that "any resolved winners are re-applied to the final frame": the replayed
  line may end before the hand does, or leave other players in it, and the winners stay.
* CH:1028 says "Once the hand is fully resolved (winners on every board) and any all-in equity has been
  computed, save it automatically".  The second hand of a visit is saved with whatever its showdown
  simulation still held from the first, and one that asks while the other computes is not
  saved at all (SIM:147); neither is one whose worker fails, nor one finished while the last save is in flight.
* A save that was stored but not answered is stored again by the button (`spent.faults` in `StoredOnce`).
* The timer of CH:1159 leaves the page 2.4 s after an upload even if the next hand is being recorded.
* `handTextCache.ts` forgets a deleted hand "so a stale replay link can't resurrect it": the roll-back of
  another deletion puts back rows from before it (HL:390).
* `useSavedTrees.ts` says "Signed out, the library is empty and nothing is fetched": a fetch in flight at the
  sign-out fills it again (ST:51-65).  A fetch that overlaps with a change of the panel loses the change.
* SC:552 says that "a slow Pio fetch from an abandoned job can never land on top of a newer selection":
  files dropped on the page are a newer selection that does not count (`loadedJobRef` is not reset).
* SIM:119 registers the enumeration "with the pool so cancelAll / unmount cleanup can reach it"; cards that
  change while it runs do not call `cancelAll`, since it does not count as computing, and a simulation before the flop replaces the
  pool (SIM:179) and empties it when it has converged (SIM:210), so that an enumeration still under way is
  reached by nothing (`Unpooled`).  Its progress is shown like a result (SIM:126-129).
* `useShowdownEquity.ts` says that "for a double board each player's equity is the average of their equity on the two
  half-pots" (3-5).  Both callers ask for two boards with an empty `board2` (CH:430, `useReplayEquities.ts:80`): line 53
  starts both simulations, since it is not null, and `double` (41) is false, since it is empty.  The first board
  alone is waited for, shown and saved (72-77), and the second simulation runs for nobody (`Combined`).
* RE:122 says that the fetch "swaps in newer text if the hand was edited elsewhere".  When the newer text is shorter and the
  cursor, moved through the cached one, is past its end, the render has no frame (RE:271) and throws (RE:307) before the
  effect that resets the cursor (RE:218) can run; there is no error boundary, so the tab stays blank until
  it is loaded again (`Rendered`).
* SO:974 says of a walk that "The line must hold exactly the actions replayed so far; anything else means a
  click landed mid-walk": only the lengths are compared, so a walk goes on over another line of the same length.
* `constants.ts` does not undo its own numbers: "Raise 100%" has one and no label for it, and "Raise 78%"
  comes back as "Raise 78", which has none.  A line rebuilt from file names (HC:153-157) then cannot
  be rewound: the first throws, the second lands on the root.  `Readable` keeps the properties to the others.
* Answers do not say whose they are: metadata of a sim that was left sets the bets and the ICM of the one that is open
  (SO:660), and a batch of plates that is cut off (SO:563-590) leaves what had come of it in the new sim.
* A plate that comes for a line that was left takes the card of its seat (SO:580).  A click on a card that is not of
  the line's node moves the line there and keeps the bets of the line it left (HC:197-223).
* `lastClickRef` is not reset by a pick of a sim: the same first click is ignored there (HC:144).  Clicks
  before the listing has come never get the plates behind them (HC:82-89), and the walk stops there.
* `lastRange` and `pendingFlopUpload` outlive rewinds and sims: the flop may be offered with the line, or the
  sim, that was left (SO:1241).  It is offered whenever a call is pending and two are left, also
  when a raise came between.
* A sim that is picked twice opens twice, the second time with the default plates of the sim it was picked from
  (SO:490), and without new metadata: the bets of the line that was left stay.

## 7. Limits and plan

Not modelled, although they keep state: the published engine index (serialised inside one process),
saved ranges and moves of folders (rows one user writes, one request each), caches of the API; in the
browser the recorder's setup form and its draft, the solver page's library lists, tiers and sign-in, the multiway, bankroll and players pages and the session simulator.
`PreflopWalk` has sims of two and three players (the code knows up to eight), a user who may open any of
them, plates in which every action has hands, and a board visited in one step, with no walk under way.
An enumeration whose worker fails is left out: it leaves the figures as they are (SIM:137).
Abstracted: time is "within the timeout or not"; the extraction walk is one step that
succeeds or fails per street; payloads are what the properties tell apart.  A mode's children are
sequences of named steps.  Storage calls are atomic and the blob store is consistent.

The order of the plan is the importance of what it models:

1. `SolveQueue` with its abstract specification, `CompareQueue`, `SolveLineage`: done.
2. `NodeRequests`, `ThreadPool`: done.
3. `SolveRun`, `BoardLibrary`, composed with `NodeRequests` in `StoredFiles`: done.
4. The recorder (`HandEngine`, `HandEditor`) and the pages (`HandPages`, `ClientPages` and what they compose): done.
   The betting rules of the solver's own trees (`betting_tree.cpp`), and the pages named above, are left.
   Suit isomorphism: a representative is in its orbit and the same for all of it.
5. Proofs of the queues, the lineages, the stored files, the pool, the recorder's engine and editor and the pages of the hands: done, but for what
   section 5 leaves with TLC.  The pages of `ClientPages` are left.

To run: `tlc -config SolveQueueSerial.cfg MCSolveQueue` (each configuration with the MC module of its
component) and `tlapm ThreadPoolProofs.tla`.
