------------------------------ MODULE ThreadPool ------------------------------
(* The engine's fork-join pool, and how the tree traversals fork onto it.      *)
(*                                                                             *)
(* A batch is one parallel_for; its tasks are the calls fn(0) .. fn(count-1).  *)
(* A thread's stack alternates the two: the body of a task forks a batch and   *)
(* waits for it, the wait runs a task of some batch on top of itself, and so   *)
(* on.  No stack is kept here: a body that waits is "forked" and a wait that   *)
(* runs a task is "busy"; below a batch is the body `nth` of the batch `from`   *)
(* that forked it, below a task the wait or the worker it is run `by`.  What   *)
(* can move is what has nothing on top of it: one thing on each thread.        *)
EXTENDS Integers, FiniteSets

CONSTANTS
  Workers,         \* the threads a pool may spawn
  Caller,          \* the thread that owns the pool
  None,            \* nobody
  Widths,          \* numbers of children of the nodes that fork
  Sizes,           \* numbers of calls: the children that are left to traverse
  MaxWidth,        \* the greatest of both
  MaxSplitLevels,  \* kMaxSplitLevels
  MaxBatches,      \* bound: batches
  MaxCalls,        \* bound: calls by the owner
  MaxThrows        \* bound: exceptions

Ids == 1..MaxBatches
Indices == 0..MaxWidth - 1
Bodies == Ids \X Indices

ASSUME BoundsAssumption == /\ MaxSplitLevels \in Nat /\ MaxBatches \in Nat /\ MaxWidth \in Nat
                           /\ MaxCalls \in Nat /\ MaxThrows \in Nat
ASSUME WidthsAssumption == Widths \subseteq 2..MaxWidth /\ Sizes \subseteq 1..MaxWidth
ASSUME ThreadsAssumption == /\ IsFiniteSet(Workers)
                            /\ Workers \cap Ids = {}
                            /\ None \notin Workers \cup Ids
                            /\ Caller \notin Ids

VARIABLES
  worker,    \* the spawned threads
  caller,    \* the owner
  stopping,  \* stopping_
  made,      \* batches so far: a younger one has a greater number
  batch,     \* each batch: its fields, and how far its parallel_for is
  batches,   \* batches_, the open ones
  task,      \* the calls of each batch
  calls,     \* calls by the owner
  throws,    \* exceptions so far
  raised     \* has a body thrown since the owner's call began?

vars == <<worker, caller, stopping, made, batch, batches, task, calls, throws, raised>>

\* level and split are those its tasks traverse with: child_fork_depth, child_split.
Batches == [at: {"none", "notify", "look", "help", "busy", "loop", "erase", "return", "over"},
            from: Ids \cup {Caller}, nth: Nat, looped: BOOLEAN, level: 0..MaxSplitLevels + 1, split: Nat,
            count: 0..MaxWidth, next: 0..MaxWidth, remaining: 0..MaxWidth, error: BOOLEAN]
\* hits counts the times the call was made.
Tasks == [at: {"free", "run", "forked", "joined", "threw", "count", "done"},
          by: Workers \cup Ids \cup {None}, hits: 0..2]

Unmade == [at |-> "none", from |-> Caller, nth |-> 0, looped |-> FALSE, level |-> 0, split |-> 0,
           count |-> 0, next |-> 0, remaining |-> 0, error |-> FALSE]
Free == [at |-> "free", by |-> None, hits |-> 0]

\* The constructor spawns any number of the workers.
Init == /\ worker \in [Workers -> {"none", "check"}]
        /\ caller = "idle"
        /\ stopping = FALSE
        /\ made = 0
        /\ batch = [b \in Ids |-> Unmade]
        /\ batches = {}
        /\ task = [b \in Ids |-> [i \in Indices |-> Free]]
        /\ calls = 0
        /\ throws = 0
        /\ raised = FALSE

Pool == {w \in Workers : worker[w] # "none"}
Threads == Cardinality(Pool) + 1

-----------------------------------------------------------------------------
(* Forking.                                                                    *)

SplitBudget == IF Pool = {} THEN 1 ELSE 4 * Threads
Forks(split, level, children) == split > 1 /\ level < MaxSplitLevels /\ children >= 2
\* Mutation: the budget is handed on whole.
ChildSplitWhole(split, children) == split
ChildSplit(split, children) == IF split \div children > 1 THEN split \div children ELSE 1

\* Mutation: the caller takes part, so one call fewer is waited for.
OpenedShort(from, nth, n, level, split, at) ==
  [at |-> at, from |-> from, nth |-> nth, looped |-> at = "loop", level |-> level,
   split |-> split, count |-> n, next |-> 0, remaining |-> n - 1, error |-> FALSE]
Opened(from, nth, n, level, split, at) ==
  [at |-> at, from |-> from, nth |-> nth, looped |-> at = "loop", level |-> level,
   split |-> split, count |-> n, next |-> 0, remaining |-> n, error |-> FALSE]

\* parallel_for up to its push: one call, or a pool of one thread, is a plain loop.
ParallelFor(from, nth, n, level, split) ==
  /\ made < MaxBatches
  /\ made' = made + 1
  /\ \/ /\ Pool = {} \/ n = 1
        /\ batch' = [batch EXCEPT ![made + 1] = Opened(from, nth, n, level, split, "loop")]
        /\ UNCHANGED batches
     \/ /\ Pool # {} /\ n # 1
        /\ batch' = [batch EXCEPT ![made + 1] = Opened(from, nth, n, level, split, "notify")]
        /\ batches' = batches \cup {made + 1}

\* The owner's calls: the root of a traversal, or a pass over an array in chunks.  Of
\* the children some may be left out: dropped, skipped or isomorphic to another.
Call == /\ caller = "idle" /\ calls < MaxCalls
        /\ \E children \in Widths, n \in Sizes :
             /\ n <= children
             /\ \/ /\ Forks(SplitBudget, 0, children)
                   /\ ParallelFor(Caller, 0, n, 1, ChildSplit(SplitBudget, children))
                \/ ParallelFor(Caller, 0, n, 1, 1)
        /\ caller' = "calling"
        /\ calls' = calls + 1
        /\ raised' = FALSE
        /\ UNCHANGED <<worker, stopping, task, throws>>

Fork(b, i) == /\ task[b][i].at = "run"
              /\ \E children \in Widths, n \in Sizes :
                   /\ n <= children
                   /\ Forks(batch[b].split, batch[b].level, children)
                   /\ ParallelFor(b, i, n, batch[b].level + 1, ChildSplit(batch[b].split, children))
              /\ task' = [task EXCEPT ![b][i].at = "forked"]
              /\ UNCHANGED <<worker, caller, stopping, calls, throws, raised>>

-----------------------------------------------------------------------------
(* parallel_for after its push, and the workers' loop.                         *)

Awake == [w \in Workers |-> IF worker[w] = "asleep" THEN "check" ELSE worker[w]]
\* Mutation: notify_one.
NotifiedOne == IF \E w \in Workers : worker[w] = "asleep"
               THEN {[worker EXCEPT ![w] = "check"] : w \in {v \in Workers : worker[v] = "asleep"}}
               ELSE {worker}
Notified == {Awake}

Notify(b) == /\ batch[b].at = "notify"
             /\ worker' \in Notified
             /\ batch' = [batch EXCEPT ![b].at = "look"]
             /\ UNCHANGED <<caller, stopping, made, batches, task, calls, throws, raised>>

\* Mutation: every call has been claimed.
DrainedClaimed(b) == batch[b].next = batch[b].count
Drained(b) == batch[b].remaining = 0

Look(b) == /\ batch[b].at = "look"
           /\ batch' = [batch EXCEPT ![b].at = IF Drained(b) THEN "erase" ELSE "help"]
           /\ UNCHANGED <<worker, caller, stopping, made, batches, task, calls, throws, raised>>

\* Mutation: one call too many is handed out.
PendingTooMany == {b \in batches : batch[b].next <= batch[b].count /\ batch[b].next < MaxWidth}
Pending == {b \in batches : batch[b].next < batch[b].count}
Newest(b) == b \in Pending /\ \A c \in Pending : c <= b

Begin(b, by) == task' = [task EXCEPT ![b][batch[b].next] =
                           [at |-> "run", by |-> by, hits |-> @.hits + 1]]
\* Mutation: a wait runs nothing.
MayHelpNever(b) == FALSE
MayHelp(b) == Pending # {}

\* run_one, or the yield when there is nothing to claim.
Help(b) == /\ batch[b].at = "help"
           /\ \/ /\ MayHelp(b)
                 /\ \E c \in Ids : /\ Newest(c)
                                   /\ Begin(c, b)
                                   /\ batch' = [batch EXCEPT ![c].next = @ + 1, ![b].at = "busy"]
              \/ /\ ~MayHelp(b)
                 /\ batch' = [batch EXCEPT ![b].at = "look"]
                 /\ UNCHANGED task
           /\ UNCHANGED <<worker, caller, stopping, made, batches, calls, throws, raised>>

\* A worker holds the mutex from its test to its claim, or to its sleep.
Exit(w) == /\ worker[w] = "check" /\ stopping
           /\ worker' = [worker EXCEPT ![w] = "exited"]
           /\ UNCHANGED <<caller, stopping, made, batch, batches, task, calls, throws, raised>>
Take(w) == /\ worker[w] = "check" /\ ~stopping
           /\ \E c \in Ids : /\ Newest(c)
                             /\ Begin(c, w)
                             /\ batch' = [batch EXCEPT ![c].next = @ + 1]
           /\ worker' = [worker EXCEPT ![w] = "busy"]
           /\ UNCHANGED <<caller, stopping, made, batches, calls, throws, raised>>
Sleep(w) == /\ worker[w] = "check" /\ ~stopping /\ Pending = {}
            /\ worker' = [worker EXCEPT ![w] = "asleep"]
            /\ UNCHANGED <<caller, stopping, made, batch, batches, task, calls, throws, raised>>
\* A condition variable may wake a thread unasked.
Wake(w) == /\ worker[w] = "asleep"
           /\ worker' = [worker EXCEPT ![w] = "check"]
           /\ UNCHANGED <<caller, stopping, made, batch, batches, task, calls, throws, raised>>

Erase(b) == /\ batch[b].at = "erase"
            /\ batches' = batches \ {b}
            /\ batch' = [batch EXCEPT ![b].at = "return"]
            /\ UNCHANGED <<worker, caller, stopping, made, task, calls, throws, raised>>

\* The plain loop makes its next call, or ends.
Iterate(b) == /\ batch[b].at = "loop"
              /\ \/ /\ batch[b].next < batch[b].count
                    /\ Begin(b, b)
                    /\ batch' = [batch EXCEPT ![b].next = @ + 1, ![b].at = "busy"]
                 \/ /\ batch[b].next = batch[b].count
                    /\ batch' = [batch EXCEPT ![b].at = "return"]
                    /\ UNCHANGED task
              /\ UNCHANGED <<worker, caller, stopping, made, batches, calls, throws, raised>>

\* Mutation: the error of a batch is not thrown again.
RethrowsNever(b) == FALSE
Rethrows(b) == batch[b].error

\* The end of parallel_for, by return or by exception.
Return(b) == /\ batch[b].at = "return"
             /\ batch' = [batch EXCEPT ![b].at = "over"]
             /\ \/ /\ batch[b].from = Caller
                   /\ caller' = "idle"
                   /\ UNCHANGED task
                \/ /\ batch[b].from # Caller
                   /\ task' = [task EXCEPT ![batch[b].from][batch[b].nth].at =
                                 IF Rethrows(b) THEN "threw" ELSE "joined"]
                   /\ UNCHANGED caller
             /\ UNCHANGED <<worker, stopping, made, batches, calls, throws, raised>>

-----------------------------------------------------------------------------
(* The body of a task, and run() around it.                                    *)

Closed(b, i) == [task EXCEPT ![b][i] = [@ EXCEPT !.at = "done", !.by = None]]

Finish(b, i) == /\ task[b][i].at \in {"run", "joined"}
                /\ \/ /\ ~batch[b].looped
                      /\ task' = [task EXCEPT ![b][i].at = "count"]
                      /\ UNCHANGED batch
                   \/ /\ batch[b].looped
                      /\ task' = Closed(b, i)
                      /\ batch' = [batch EXCEPT ![b].at = "loop"]
                /\ UNCHANGED <<worker, caller, stopping, made, batches, calls, throws, raised>>

Throw(b, i) == /\ task[b][i].at \in {"run", "joined"} /\ throws < MaxThrows
               /\ task' = [task EXCEPT ![b][i].at = "threw"]
               /\ throws' = throws + 1
               /\ raised' = TRUE
               /\ UNCHANGED <<worker, caller, stopping, made, batch, batches, calls>>

\* run() keeps the first error; out of the plain loop the exception just goes.
Catch(b, i) == /\ task[b][i].at = "threw"
               /\ \/ /\ ~batch[b].looped
                     /\ task' = [task EXCEPT ![b][i].at = "count"]
                     /\ batch' = [batch EXCEPT ![b].error = TRUE]
                  \/ /\ batch[b].looped
                     /\ task' = Closed(b, i)
                     /\ batch' = [batch EXCEPT ![b].error = TRUE, ![b].at = "return"]
               /\ UNCHANGED <<worker, caller, stopping, made, batches, calls, throws, raised>>

\* The last touch of the batch, and the way back to whoever ran the task.
Count(b, i) == /\ task[b][i].at = "count"
               /\ task' = Closed(b, i)
               /\ \/ /\ task[b][i].by \in Workers
                     /\ worker' = [worker EXCEPT ![task[b][i].by] = "check"]
                     /\ batch' = [batch EXCEPT ![b].remaining = @ - 1]
                  \/ /\ task[b][i].by \in Ids
                     /\ batch' = [batch EXCEPT ![b].remaining = @ - 1, ![task[b][i].by].at = "look"]
                     /\ UNCHANGED worker
               /\ UNCHANGED <<caller, stopping, made, batches, calls, throws, raised>>

-----------------------------------------------------------------------------
(* The destructor.                                                             *)

Stop == /\ caller = "idle"
        /\ stopping' = TRUE
        /\ caller' = "stopping"
        /\ UNCHANGED <<worker, made, batch, batches, task, calls, throws, raised>>
NotifyAll == /\ caller = "stopping"
             /\ worker' \in Notified
             /\ caller' = "joining"
             /\ UNCHANGED <<stopping, made, batch, batches, task, calls, throws, raised>>
Join == /\ caller = "joining" /\ \A w \in Pool : worker[w] = "exited"
        /\ caller' = "gone"
        /\ UNCHANGED <<worker, stopping, made, batch, batches, task, calls, throws, raised>>
Gone == caller = "gone" /\ UNCHANGED vars

-----------------------------------------------------------------------------
WaitStep(b) == Notify(b) \/ Look(b) \/ Help(b) \/ Erase(b) \/ Iterate(b) \/ Return(b)
BodyEnds(b, i) == Finish(b, i) \/ Catch(b, i) \/ Count(b, i)
WorkerStep(w) == Exit(w) \/ Take(w) \/ Sleep(w)

Next == \/ Call \/ Stop \/ NotifyAll \/ Join \/ Gone
        \/ \E b \in Ids : WaitStep(b)
        \/ \E b \in Ids, i \in Indices : Fork(b, i) \/ Throw(b, i) \/ BodyEnds(b, i)
        \/ \E w \in Workers : WorkerStep(w) \/ Wake(w)

Spec == Init /\ [][Next]_vars

\* Threads are scheduled, and a body ends: every thread whose top can move, moves.  The
\* owner need neither call nor stop.
FairSpec == /\ Spec
            /\ \A b \in Ids : WF_vars(WaitStep(b))
            /\ \A b \in Ids, i \in Indices : WF_vars(BodyEnds(b, i))
            /\ \A w \in Workers : WF_vars(WorkerStep(w))
            /\ WF_vars(NotifyAll \/ Join)

-----------------------------------------------------------------------------
TypeOK == /\ worker \in [Workers -> {"none", "check", "asleep", "busy", "exited"}]
          /\ caller \in {"idle", "calling", "stopping", "joining", "gone"}
          /\ stopping \in BOOLEAN
          /\ made \in 0..MaxBatches
          /\ batch \in [Ids -> Batches]
          /\ batches \subseteq Ids
          /\ task \in [Ids -> [Indices -> Tasks]]
          /\ calls \in 0..MaxCalls
          /\ throws \in 0..MaxThrows
          /\ raised \in BOOLEAN

Under(b, i) == task[b][i].at \in {"run", "forked", "joined", "threw", "count"}

\* A Batch lives on the stack of its parallel_for, and every thread that claimed a task
\* of it, or walks batches_, holds its address (parallel.cpp:61).  While any of them may
\* still read or write it, the parallel_for has not left its wait: it neither takes the
\* batch off batches_ with a task under way nor returns with the batch still there.
OutlivesItsTasks == /\ \A b \in Ids, i \in Indices :
                         Under(b, i) => batch[b].at \notin {"none", "erase", "return", "over"}
                    /\ \A b \in batches : batch[b].at \notin {"none", "return", "over"}

\* "Run fn(i) for i in [0, n), returning once every call has finished" (parallel.hpp:43):
\* when a batch is over each of its calls has been made and has ended, none was made
\* twice, whoever claimed it, and none beyond the last.  A plain loop that was left by an
\* exception has made the calls up to that one.
RunsOnce == \A b \in Ids, i \in Indices :
              batch[b].at \in {"erase", "return", "over"} =>
                LET last == IF batch[b].looped THEN batch[b].next ELSE batch[b].count
                IN  /\ task[b][i].hits = (IF i < last THEN 1 ELSE 0)
                    /\ i < last => task[b][i].at = "done"
                    /\ last = batch[b].count \/ batch[b].error

\* An exception in any body, however deep it was forked and whichever thread ran it, is
\* thrown again by the owner's call; a call with none throws nothing (parallel.hpp:45).
ErrorReachesCaller == \A b \in Ids : batch[b].from = Caller /\ batch[b].at = "return"
                                     => batch[b].error = raised

\* The scratch arenas checked out: the traversal's, and one per body in work.
LiveArenas == 1 + Cardinality({x \in Bodies : task[x[1]][x[2]].at \in {"run", "forked", "joined"}})

\* What the memory estimate budgets for (cfr.cpp:197).  A thread that waits may run a task
\* of an OLDER batch on top and fork again there, so a stack is not held to one body per
\* level; it is the division of split among the children that keeps the sum down.
ArenasBounded == Pool # {} => LiveArenas <= Threads * (MaxSplitLevels + 1) + 1

\* "nested splits further down the tree can never deadlock against a pool whose workers
\* are all busy inside outer tasks" (parallel.hpp:29): every call returns.
EveryCallReturns == caller = "calling" ~> caller = "idle"

\* The destructor's join ends: every worker hears of it, wherever it was.
PoolJoins == stopping ~> caller = "gone"

\* No wait is for ever: the calls' and the destructor's.
WaitsEnd == EveryCallReturns /\ PoolJoins
=============================================================================
