----------------------------- MODULE StoredFiles -----------------------------
(* The parts of the back end that live by what they leave in files: the        *)
(* streets served on request, the library of solved boards, and the solves     *)
(* that continue from checkpoints.  The first two are states of one watcher,   *)
(* which is one thread: while it drains requests of a board nothing of the     *)
(* library's housekeeping runs but what NodeRequests has of it, and the engine *)
(* process has a directory of its own.  They share no variable, and one moves  *)
(* at a time: which is chosen at the start.                                    *)
EXTENDS NodeRequests, SolveRun, BoardLibrary

VARIABLE part

storedVars == <<vars, solveVars, libraryVars, part>>

Parts == {"requests", "solve", "library"}
Moves(p) == part = p

\* A part that does not move starts in one way.
RequestsOne == /\ watcher = Fresh(TRUE)
               /\ request = [i \in Requests |-> [at |-> "none", street |-> CHOOSE s \in Streets : TRUE, today |-> TRUE]]
SolveOne == file = [s \in Solves |-> FileOf("none")]

StoredInit ==
  /\ part \in Parts
  /\ Init /\ (Moves("requests") \/ RequestsOne)
  /\ SolveInit /\ (Moves("solve") \/ SolveOne)
  /\ LibraryInit /\ (Moves("library") \/ precompute)

\* A part that is not the one that moves is left alone.
Idles(p, partVars) == IF Moves(p) THEN TRUE ELSE UNCHANGED partVars
OthersIdle == /\ UNCHANGED part
              /\ Idles("requests", vars) /\ Idles("solve", solveVars) /\ Idles("library", libraryVars)

StoredNext == /\ \/ Moves("requests") /\ Next
                 \/ Moves("solve") /\ SolveNext
                 \/ Moves("library") /\ LibraryNext
              /\ OthersIdle

\* Fairness is that of NodeRequests: nobody has to start a solve, or a script.
StoredFairness ==
  /\ WF_storedVars(Moves("requests") /\ Work /\ OthersIdle)
  /\ SF_storedVars(Moves("requests") /\ Reconcile /\ OthersIdle)
  /\ \A i \in Requests : WF_storedVars(Moves("requests") /\ Reappear(i) /\ OthersIdle)

StoredSpec == StoredInit /\ [][StoredNext]_storedVars /\ StoredFairness

-----------------------------------------------------------------------------
(* Properties: those of the parts, and                                         *)

\* Every variable of every part keeps its type.
StoredTypeOK == TypeOK /\ SolveTypeOK /\ LibraryTypeOK /\ part \in Parts
=============================================================================
