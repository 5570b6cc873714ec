------------------------------- MODULE SolveRun -------------------------------
(* `htsolver solve`, the sampled core with checkpoints: one process at a time  *)
(* on a directory of checkpoints.  A solve of a hand-sharing team whose        *)
(* opponents are unaware of it has two phases: the spot's no-team solve, the   *)
(* baseline, and the team's best response to it.  The baseline's checkpoint is *)
(* named by the spot, so every team of the spot shares it, and a no-team solve *)
(* of the spot continues the very same file.                                   *)
(*                                                                             *)
(* An iteration here is a batch.  Which baseline an amount of training was     *)
(* against is told by its iterations: a solve is the same however it was cut.  *)
EXTENDS Integers, FiniteSets, FiniteSetsExt

CONSTANTS
  Teams,       \* lineages: the solve.id of each team's solve
  Baseline,    \* the spot's own id: its no-team solve, and every team's phase 1
  MaxIters,    \* bound: budget.iterations
  MaxRuns,     \* bound: processes started
  SolveMaxFaults    \* bound: crashes and failed writes

ASSUME SolvesAssumption == Baseline \notin Teams
ASSUME ItersAssumption == MaxIters \in Nat \ {0} /\ MaxRuns \in Nat /\ SolveMaxFaults \in Nat

VARIABLES
  file,      \* each solve's checkpoint
  tmp,       \* the file it is written to first
  artifact,  \* the artifact of each solve's last run
  run,       \* the process
  moved,     \* history: teams a run of which ended phase 1 short of the baseline they answer
  due,       \* history: the iterations each solve has been saved with
  torn,      \* history: solves whose run ended with the checkpoint removed, its successor not yet renamed
  spent      \* processes and faults so far

history == <<moved, due, torn>>
solveVars == <<file, tmp, artifact, run, moved, due, torn, spent>>

Solves == Teams \cup {Baseline}
Iters == 0..MaxIters

\* What a file holds: nothing, part of a checkpoint, one of another spot, or
\* ours.  base is the baseline it records, trained (not in the file) those the
\* regrets were trained against.
Files == [is: {"none", "half", "foreign", "ours"}, iters: Iters, base: Iters, trained: SUBSET Iters]
FileOf(is) == [is |-> is, iters |-> 0, base |-> 0, trained |-> {}]
NoSolver == [iters |-> 0, trained |-> {}]

\* The configuration: budget.iterations, agents.baseline_iterations, which may
\* be left to the former, solve.resume, solve.rebase, and whether there is
\* anything to look at between two slices: budget.max_seconds, budget.stop_file.
\* What a run does not look at has one value.
Team(c) == c.solve # Baseline
Configs == {c \in [solve: Solves, iterations: 1..MaxIters, baseline: 1..MaxIters,
                   resume: {"auto", "never", "require"}, rebase: BOOLEAN, sliced: BOOLEAN] :
              /\ c.rebase => Team(c) /\ c.resume # "never"
              /\ ~Team(c) => c.baseline = c.iterations}

\* stop is the stop file, found the files as the run found them.
Runs == [pc: {"idle", "refused", "own", "base", "interlock", "phase1", "savebase", "phase2",
              "save", "open", "write", "remove", "rename", "export"},
         config: Configs, solver: [iters: Iters, trained: SUBSET Iters], extras: Iters,
         resumed: BOOLEAN, rebased: BOOLEAN, baseline: Iters, before: Iters, cancelled: BOOLEAN,
         stop: BOOLEAN, writes: Solves, found: [Solves -> Files]]

NewRun(c) == [pc |-> "own", config |-> c, solver |-> NoSolver, extras |-> 0, resumed |-> FALSE,
             rebased |-> FALSE, baseline |-> 0, before |-> 0, cancelled |-> FALSE, stop |-> FALSE,
             writes |-> c.solve, found |-> file]
NoRun == [NewRun(CHOOSE c \in Configs : ~Team(c)) EXCEPT !.pc = "idle",
            !.found = [s \in Solves |-> FileOf("none")]]

SolveInit ==
  /\ file \in [Solves -> {FileOf("none"), FileOf("foreign")}]
  /\ tmp = [s \in Solves |-> FileOf("none")]
  /\ artifact = [s \in Solves |-> FileOf("none")]
  /\ run = NoRun
  /\ moved = {} /\ torn = {} /\ due = [s \in Solves |-> 0]
  /\ spent = [runs |-> 0, faults |-> 0]

Goto(pc) == run' = [run EXCEPT !.pc = pc]
SolveFault == spent.faults < SolveMaxFaults /\ spent' = [spent EXCEPT !.faults = @ + 1]
FilesKept == UNCHANGED <<file, tmp, artifact, history>>

-----------------------------------------------------------------------------
(* The caller: a user at a command line or the compare watcher.                *)

SolveStart(c) ==
  /\ run.pc \in {"idle", "refused"} /\ spent.runs < MaxRuns
  /\ run' = NewRun(c)
  /\ spent' = [spent EXCEPT !.runs = @ + 1]
  /\ FilesKept

\* The stop file is created: a latch.
StopFile ==
  /\ run.pc \notin {"idle", "refused"} /\ run.config.sliced /\ ~run.stop
  /\ run' = [run EXCEPT !.stop = TRUE]
  /\ FilesKept /\ UNCHANGED spent

-----------------------------------------------------------------------------
(* What is there to continue.                                                  *)

Usable(f) == f.is = "ours"
\* Mutation: only a file that cannot be opened is a reason not to start afresh.
RefusesRequired(c, f) == c.resume = "require" /\ ~Usable(f)
\* Nothing to resume where the config requires it, or a file that is not ours
\* to continue, which a fresh start would overwrite.
Refuses(c, f) == /\ c.resume # "never" /\ ~Usable(f)
                 /\ c.resume = "require" \/ f.is # "none"

\* The solve's own checkpoint, before phase 1 does any work.
ReadOwn ==
  LET c == run.config  f == file[c.solve]
      next == IF Team(c) THEN "base" ELSE "phase2" IN
  /\ run.pc = "own"
  /\ \/ Refuses(c, f) /\ Goto("refused")
     \/ /\ ~Refuses(c, f)
        /\ run' = IF c.resume # "never" /\ Usable(f)
                  THEN [run EXCEPT !.pc = next, !.resumed = TRUE, !.extras = f.base,
                          !.solver = [iters |-> f.iters, trained |-> f.trained]]
                  ELSE [run EXCEPT !.pc = next]
  /\ FilesKept /\ UNCHANGED spent

\* The spot's baseline.
ReadBase ==
  LET c == run.config  f == file[Baseline] IN
  /\ run.pc = "base"
  /\ \/ Refuses(c, f) /\ Goto("refused")
     \/ /\ ~Refuses(c, f)
        /\ LET n == IF c.resume # "never" /\ Usable(f) THEN f.iters ELSE 0 IN
             run' = [run EXCEPT !.pc = "interlock", !.baseline = n, !.before = n]
  /\ FilesKept /\ UNCHANGED spent

BaseEnd(c, n) == Max({n, c.baseline})
\* Mutation: only a baseline that has moved already is a conflict.
ConflictsSoFar(r) == r.resumed /\ r.solver.iters > 0 /\ r.extras # r.baseline
\* Mutation: one that grows is not.
ConflictsBackwards(r) == r.resumed /\ r.solver.iters > 0 /\ r.extras > BaseEnd(r.config, r.baseline)
\* The team has trained, against another baseline than phase 1 will end with.
Conflicts(r) == r.resumed /\ r.solver.iters > 0 /\ r.extras # BaseEnd(r.config, r.baseline)

\* Mutation: looked for once phase 1 is over.
InterlockAfter ==
  /\ \/ run.pc = "interlock" /\ Goto("phase1")
     \/ run.pc = "phase2" /\ Conflicts(run) /\ Goto("refused")
  /\ FilesKept /\ UNCHANGED spent
Interlock ==
  /\ run.pc = "interlock"
  /\ \/ Conflicts(run) /\ ~run.config.rebase /\ Goto("refused")
     \/ /\ Conflicts(run) /\ run.config.rebase
        /\ run' = [run EXCEPT !.pc = "phase1", !.solver = NoSolver, !.resumed = FALSE, !.rebased = TRUE]
     \/ ~Conflicts(run) /\ Goto("phase1")
  /\ FilesKept /\ UNCHANGED spent

-----------------------------------------------------------------------------
(* The two phases.                                                             *)

\* A slice is paced by the measured rate; without a clock or a stop file there
\* is nothing to look at in between.
SliceSizes(c, left) == IF c.sliced THEN 1..left ELSE {left}

\* A slice of the baseline; then the stop file is looked at, then the clock,
\* against phase 1's half of the budget.
Phase1Slice ==
  /\ run.pc = "phase1" /\ run.baseline < run.config.baseline
  /\ \E n \in SliceSizes(run.config, run.config.baseline - run.baseline), late \in {run.config.sliced, FALSE} :
       run' = [run EXCEPT !.baseline = @ + n, !.cancelled = run.stop,
                 !.pc = IF run.stop \/ late THEN "savebase" ELSE "phase1"]
  /\ FilesKept /\ UNCHANGED spent

Phase1Done ==
  /\ run.pc = "phase1" /\ run.baseline >= run.config.baseline
  /\ Goto("savebase")
  /\ FilesKept /\ UNCHANGED spent

BaseMoved(r) == r.baseline # r.before

\* Only a baseline that moved is written; phase 2's opponents are frozen at it.
SaveBase ==
  /\ run.pc = "savebase"
  /\ run' = IF BaseMoved(run) THEN [run EXCEPT !.pc = "open", !.writes = Baseline]
            ELSE [run EXCEPT !.pc = "phase2"]
  /\ moved' = IF run.solver.iters > 0 /\ run.baseline # run.extras /\ run.extras = BaseEnd(run.config, run.before)
              THEN moved \cup {run.config.solve} ELSE moved
  /\ UNCHANGED <<file, tmp, artifact, due, torn, spent>>

Phase2Over(r) == r.cancelled \/ r.solver.iters >= r.config.iterations

Trained(solver, n, r) ==
  [iters |-> solver.iters + n, trained |-> solver.trained \cup (IF Team(r.config) THEN {r.baseline} ELSE {})]

\* A slice of the solve; then the stop file, the clock, and, where a best
\* response can be measured, the target.
Phase2Slice ==
  /\ run.pc = "phase2" /\ ~Phase2Over(run)
  /\ \E n \in SliceSizes(run.config, run.config.iterations - run.solver.iters),
        late \in {run.config.sliced, FALSE}, target \in {~Team(run.config), FALSE} :
       run' = [run EXCEPT !.solver = Trained(@, n, run), !.cancelled = run.stop,
                 !.pc = IF run.stop \/ late \/ target THEN "save" ELSE "phase2"]
  /\ FilesKept /\ UNCHANGED spent

Phase2Done ==
  /\ run.pc = "phase2" /\ Phase2Over(run)
  /\ Goto("save")
  /\ FilesKept /\ UNCHANGED spent

\* What is stamped: phase 1's end, or without one what the checkpoint said.
StampedBase(r) == IF Team(r.config) THEN r.baseline ELSE r.extras

\* A phase 2 that never ran has nothing to save.
Save ==
  /\ run.pc = "save"
  /\ run' = IF run.solver.iters = 0 THEN [run EXCEPT !.pc = "export"]
            ELSE [run EXCEPT !.pc = "open", !.writes = run.config.solve]
  /\ FilesKept /\ UNCHANGED spent

Export ==
  /\ run.pc = "export"
  /\ artifact' = [artifact EXCEPT ![run.config.solve] =
       [is |-> "ours", iters |-> run.solver.iters, base |-> StampedBase(run), trained |-> run.solver.trained]]
  /\ run' = NoRun
  /\ UNCHANGED <<file, tmp, history, spent>>

-----------------------------------------------------------------------------
(* write_checkpoint.                                                           *)

\* The checkpoint of the phase that has just ended.
ToWrite == IF run.writes = run.config.solve
           THEN [is |-> "ours", iters |-> run.solver.iters, base |-> StampedBase(run), trained |-> run.solver.trained]
           ELSE [is |-> "ours", iters |-> run.baseline, base |-> 0, trained |-> {}]

\* Mutation: it is written in place.
WriteOpenInPlace ==
  /\ run.pc = "open"
  /\ file' = [file EXCEPT ![run.writes] = FileOf("half")]
  /\ Goto("write")
  /\ UNCHANGED <<tmp, artifact, history, spent>>
WriteOpen ==
  /\ run.pc = "open"
  /\ tmp' = [tmp EXCEPT ![run.writes] = FileOf("half")]
  /\ Goto("write")
  /\ UNCHANGED <<file, artifact, history, spent>>

\* The disk may be full: write_checkpoint throws, and the process ends.
Write ==
  /\ run.pc = "write"
  /\ \/ /\ tmp' = [tmp EXCEPT ![run.writes] = ToWrite]
        /\ Goto("remove") /\ UNCHANGED spent
     \/ SolveFault /\ run' = NoRun /\ UNCHANGED tmp
  /\ UNCHANGED <<file, artifact, history>>

\* What the run was told to start over.
StartsOver(s) == run.config.resume = "never" \/ (run.rebased /\ s = run.config.solve)

Remove ==
  /\ run.pc = "remove"
  /\ file' = [file EXCEPT ![run.writes] = FileOf("none")]
  /\ Goto("rename")
  /\ UNCHANGED <<tmp, artifact, history, spent>>

Rename ==
  LET s == run.writes  n == tmp[s].iters IN
  /\ run.pc = "rename"
  /\ \/ /\ file' = [file EXCEPT ![s] = tmp[s]]
        /\ tmp' = [tmp EXCEPT ![s] = FileOf("none")]
        /\ due' = [due EXCEPT ![s] = IF StartsOver(s) \/ s \in torn \/ n > @ THEN n ELSE @]
        /\ torn' = torn \ {s}
        /\ Goto(IF s = run.config.solve THEN "export" ELSE "phase2") /\ UNCHANGED spent
     \/ SolveFault /\ run' = NoRun /\ torn' = torn \cup {s} /\ UNCHANGED <<file, tmp, due>>
  /\ UNCHANGED <<artifact, moved>>

\* The process is killed: by its caller, whose patience is out, or a crash.
Killed ==
  /\ run.pc \notin {"idle", "refused"} /\ SolveFault
  /\ run' = NoRun
  /\ torn' = IF run.pc = "rename" THEN torn \cup {run.writes} ELSE torn
  /\ UNCHANGED <<file, tmp, artifact, moved, due>>

-----------------------------------------------------------------------------
SolveNext ==
  \/ \E c \in Configs : SolveStart(c)
  \/ StopFile \/ ReadOwn \/ ReadBase \/ Interlock
  \/ Phase1Slice \/ Phase1Done \/ SaveBase \/ Phase2Slice \/ Phase2Done \/ Save
  \/ WriteOpen \/ Write \/ Remove \/ Rename \/ Export \/ Killed

SolveSpec == SolveInit /\ [][SolveNext]_solveVars

-----------------------------------------------------------------------------
(* Properties.                                                                 *)

\* Every variable keeps its type.
SolveTypeOK == /\ file \in [Solves -> Files]
               /\ tmp \in [Solves -> Files]
               /\ artifact \in [Solves -> Files]
               /\ run \in Runs
               /\ moved \subseteq Teams /\ due \in [Solves -> Iters] /\ torn \subseteq Solves
               /\ spent \in [runs: 0..MaxRuns, faults: 0..SolveMaxFaults]

\* A team's regrets are a best response to one baseline, the one its checkpoint
\* and its artifact record, however often the solve and the baseline were
\* stopped, continued, extended by others or started over.  Not so once a run
\* was rightly let past the interlock and then ended phase 1 short of its target.
TrainedAgainstOne ==
  \A t \in Teams \ moved : \A f \in {file[t], artifact[t]} : f.trained \subseteq {f.base}

\* What a team goes on against is what its regrets were trained against: "the
\* two are equal by the check above" (main.cpp:390).
FrozenAsTrained == run.pc = "phase2" /\ Team(run.config) => run.solver.trained \subseteq {run.baseline}

\* A run that is refused leaves every file as it found it: nothing is trained,
\* saved or overwritten before the conflict is seen.
RefusedUntouched == run.pc = "refused" => file = run.found

\* A checkpoint of n iterations or more.
Has(f, n) == f.is = "ours" /\ f.iters >= n

\* The run has removed a checkpoint and is about to rename the whole of the new one,
\* which goes no less far, into its place.
Replacing(s) == run.pc = "rename" /\ run.writes = s /\ (StartsOver(s) \/ Has(tmp[s], due[s]))

\* What a solve was saved with is where the next run looks for it.
InPlace(s) == due[s] > 0 /\ s \notin torn => Has(file[s], due[s]) \/ Replacing(s)

\* What was saved stays: neither an early stop, a smaller budget, a full disk, a
\* refusal nor a crash leaves a solve without a checkpoint, or with one of fewer
\* iterations than it was saved with, and another spot's is not written over; only
\* a run that asked to start over does either.  The one point at which the code
\* does lose a checkpoint is named by `torn': write_checkpoint removes the old file
\* before it renames the new one, so that a run that ends in between leaves the
\* iterations in a temporary file nobody reads, against checkpoint.hpp:43-44.
SavedKept ==
  [][\A s \in Solves : /\ InPlace(s)'
                       /\ file[s].is = "foreign" /\ file'[s].is # "foreign" => StartsOver(s)]_solveVars
=============================================================================
