------------------------------- MODULE EquitySim -------------------------------
(***************************************************************************)
(* One simulation of the equity engine (useEquitySimulation.ts), as a page *)
(* sees it: what it was asked last, the result it still holds, and the     *)
(* workers that will say more.  Before the flop a pool of workers samples  *)
(* until the estimate is precise; on a board one worker enumerates, which  *)
(* the hook does not count as computing.                                   *)
(*                                                                         *)
(* A question is a number, 0 for none; the figures are not modelled, only  *)
(* whose they are and whether they are final.  An enumeration that fails   *)
(* is left out: it leaves the figures as they are.                         *)
(***************************************************************************)
EXTENDS Naturals, FiniteSets

IdleSim == [computing |-> FALSE, run |-> 0, of |-> 0, final |-> FALSE, exact |-> {}]
\* An enumeration: its question, and whether poolRef still holds its worker.
Enumerations(Q) == [of : Q, pooled : BOOLEAN]
SimType(Q) == [computing : BOOLEAN, run : Q \cup {0}, of : Q \cup {0},
               final : BOOLEAN, exact : SUBSET Enumerations(Q)]

\* poolRef is replaced or emptied: the enumerations in it go on without it.
Unpooled(exact) == {[w EXCEPT !.pooled = FALSE] : w \in exact}

\* compute, before the flop; the result of the last question is still held.
Sampled(sim, q) == IF sim.computing THEN sim
                   ELSE [sim EXCEPT !.computing = TRUE, !.run = q, !.exact = Unpooled(@)]
\* compute, on a board: computing is over before the page is rendered again.
Enumerated(sim, q) == IF sim.computing THEN sim
                      ELSE [sim EXCEPT !.exact = @ \cup {[of |-> q, pooled |-> TRUE]}]

\* A report of the pool: the sum so far.
Reported(sim) == [sim EXCEPT !.of = sim.run, !.final = FALSE]
\* finalize: precise enough, or out of samples.
Converged(sim) == [sim EXCEPT !.computing = FALSE, !.run = 0, !.of = sim.run, !.final = TRUE,
                              !.exact = Unpooled(@)]
\* Mutation: the rest of the pool goes on.
PoolFailedOnce(sim) == [sim EXCEPT !.computing = FALSE]
\* A worker of the pool fails: computing ends with whatever there is.
PoolFailed(sim) == [sim EXCEPT !.computing = FALSE, !.run = 0]

\* A report of an enumeration: what it has counted so far.
ExactReported(sim, w) == [sim EXCEPT !.of = w.of, !.final = FALSE]
\* Mutation: only its progress is shown.
ExactDoneSilently(sim, w) == [sim EXCEPT !.exact = @ \ {w}]
\* The enumeration is done; its worker leaves the pool.
ExactDone(sim, w) == [sim EXCEPT !.of = w.of, !.final = TRUE, !.exact = @ \ {w}]

\* Mutation: the pool's workers go on.
CanceledSays(sim) == [sim EXCEPT !.computing = FALSE, !.exact = {w \in @ : ~w.pooled}]
\* cancelAll: every worker poolRef holds, but the result stays.
Canceled(sim) == [sim EXCEPT !.computing = FALSE, !.run = 0, !.exact = {w \in @ : ~w.pooled}]
=============================================================================
