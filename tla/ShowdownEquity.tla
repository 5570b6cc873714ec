---------------------------- MODULE ShowdownEquity ----------------------------
(***************************************************************************)
(* The preflop equities of a recorded showdown (useShowdownEquity.ts) and  *)
(* the auto-save that waits for them (CreateHandHistory.tsx).  A request   *)
(* is the showdown's cards: its key, how many hands, one board or two.     *)
(* Both callers ask for a second board with the empty string, which starts *)
(* its simulation and makes `double` false: nobody looks at its result.    *)
(*                                                                         *)
(* A React commit is one step: the hook's two effects, with the values     *)
(* that were rendered, then the commits their state changes bring about.   *)
(***************************************************************************)
EXTENDS EquitySim

CONSTANTS Requests,      \* [key : Nat \ {0}, size : Nat, second : BOOLEAN]: second, board2 # null
          MaxShowdowns,  \* bound: requests on one visit
          MaxWorkerFaults

ASSUME ShowdownAssumption ==
    /\ \A r \in Requests : r.key \in Nat \ {0} /\ r.size \in Nat /\ r.second \in BOOLEAN
    /\ \A r, s \in Requests : r.key = s.key => r = s
    /\ MaxShowdowns \in Nat /\ MaxWorkerFaults \in Nat

Keys == {r.key : r \in Requests}
RequestOf(k) == CHOOSE r \in Requests : r.key = k
NoPct == 0

VARIABLES
  req,       \* equityReq's key, or 0
  startedKey,\* startedKeyRef
  sims,      \* sim1 and sim2
  pct,       \* the key whose result on the first board the percentages are, or NoPct
  autoSaved, \* autoSavedRef
  savedPct,  \* what the saved text says: per showdown, the percentages' owner
  showdowns, \* requests so far
  droppedRequests,   \* history: a request came while the first simulation was computing
  workerFaults

equityVars == <<req, startedKey, sims, pct, autoSaved, savedPct, showdowns, droppedRequests, workerFaults>>

EquityInit == /\ req = 0 /\ startedKey = 0 /\ sims = <<IdleSim, IdleSim>>
              /\ pct = NoPct /\ autoSaved = FALSE /\ savedPct = {}
              /\ showdowns = 0 /\ droppedRequests = FALSE /\ workerFaults = 0

\* Mutation: any result settles a board.
SettledAtOnce(sim, k) == /\ sim.of # 0 /\ RequestOf(sim.of).size = RequestOf(k).size
\* ready1, ready2: a result with as many hands, and no simulation.
Settled(sim, k) == /\ sim.of # 0 /\ RequestOf(sim.of).size = RequestOf(k).size
                   /\ ~sim.computing

\* Mutation: the second board is waited for, asked for or not.
CombinedBoth(k, rendered, p) ==
    IF k # 0 /\ Settled(rendered[1], k) /\ Settled(rendered[2], k) THEN rendered[1].of ELSE p
\* The second effect, when a readiness or the key has changed: `double` is false
\* of both callers' requests, and the first board is all that is waited for.
Combined(k, rendered, p) == IF k # 0 /\ Settled(rendered[1], k) THEN rendered[1].of ELSE p

\* The auto-save effect: once per hand, when there are percentages or none to
\* wait for.
AutoSaves(k, p) ==
    LET due == ~autoSaved /\ p # NoPct
    IN /\ autoSaved' = (autoSaved \/ due)
       /\ savedPct' = IF due THEN savedPct \cup {[key |-> k, pct |-> p]} ELSE savedPct

-----------------------------------------------------------------------------
\* The first effect's simulations for a new key.
Started(k) == <<Sampled(sims[1], k),
                IF RequestOf(k).second THEN Sampled(sims[2], k) ELSE Canceled(sims[2])>>

\* The cards of a showdown are there, or are edited once the hand is over.  The
\* second effect of the commit still sees the simulations of the last request.
NewRequest(k) ==
    /\ showdowns < MaxShowdowns /\ showdowns' = showdowns + 1
    /\ k # req /\ req' = k
    /\ startedKey' = k
    /\ sims' = Started(k)
    /\ pct' = Combined(k, sims, NoPct)
    /\ droppedRequests' = (droppedRequests \/ sims[1].computing)
    /\ AutoSaves(k, pct')
    /\ UNCHANGED workerFaults

\* "Record another": no request, and the next hand may save.
NextHand == /\ req # 0 /\ req' = 0 /\ startedKey' = 0 /\ pct' = NoPct
            /\ autoSaved' = FALSE
            /\ UNCHANGED <<sims, savedPct, showdowns, droppedRequests, workerFaults>>

\* A simulation's state has changed: the second effect, if a board has become
\* ready or stopped being so, then the auto-save.
Rerendered(i, sim) ==
    /\ sims' = [sims EXCEPT ![i] = sim]
    /\ pct' = IF req # 0 /\ Settled(sims[i], req) # Settled(sim, req)
              THEN Combined(req, sims', pct) ELSE pct
    /\ AutoSaves(req, pct')
    /\ UNCHANGED <<req, startedKey, showdowns, droppedRequests>>

Report(i) == /\ sims[i].run # 0
             /\ Rerendered(i, Reported(sims[i])) /\ UNCHANGED workerFaults
Converge(i) == /\ sims[i].run # 0
               /\ Rerendered(i, Converged(sims[i])) /\ UNCHANGED workerFaults
WorkerFails(i) == /\ sims[i].run # 0 /\ workerFaults < MaxWorkerFaults
                  /\ workerFaults' = workerFaults + 1
                  /\ Rerendered(i, PoolFailed(sims[i]))

EquityNext == \/ \E k \in Keys : NewRequest(k)
              \/ NextHand
              \/ \E i \in {1, 2} : Report(i) \/ Converge(i) \/ WorkerFails(i)

EquitySpec == EquityInit /\ [][EquityNext]_equityVars

-----------------------------------------------------------------------------
(* Type correctness of the hook; computing says whether a pool runs. *)
EquityTypeOK == /\ req \in Keys \cup {0} /\ startedKey \in {0, req}
                /\ sims \in [{1, 2} -> SimType(Keys)]
                /\ \A i \in {1, 2} : sims[i].computing <=> sims[i].run # 0
                /\ pct \in Keys \cup {NoPct}
                /\ autoSaved \in BOOLEAN
                /\ savedPct \subseteq [key : Keys, pct : Keys]
                /\ droppedRequests \in BOOLEAN
                /\ showdowns \in 0 .. MaxShowdowns /\ workerFaults \in 0 .. MaxWorkerFaults

(* The first showdown of a visit is shown and saved with its own equities,  *)
(* on the first board, and only when that simulation has converged: an      *)
(* estimate that is still running is never the one that is kept.            *)
FirstIsOwn == showdowns = 1 /\ workerFaults = 0 =>
    /\ \A s \in savedPct : s.pct = s.key
    /\ pct # NoPct => pct = req /\ sims[1].of = req /\ sims[1].final

(* A showdown gets percentages, on one board or two, whatever was asked     *)
(* before: the hand is not left unsaved for want of them.  Not when it is   *)
(* asked for while the first simulation is computing for another (compute   *)
(* returns, the key is taken).                                              *)
EquityMet == pct # NoPct \/ req = 0 \/ droppedRequests \/ workerFaults > 0
EquityOwed == req # 0
=============================================================================
