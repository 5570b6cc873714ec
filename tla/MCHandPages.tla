----------------------------- MODULE MCHandPages -----------------------------
(* HandPages for TLC, and the engine alone: the recorder plays two tables with *)
(* the editor around the hand, the engine plays hands at tables of every kind. *)
EXTENDS HandPages

Plain == [active |-> Seats, button |-> 0, ante |-> 0, utg |-> 0, straddles |-> <<>>,
          boards |-> 1, stack |-> [p \in Seats |-> IF p = 1 THEN 3 ELSE 2]]

\* Three short stacks, and two players with the form's straddle.
EditorTables == {Plain, [Plain EXCEPT !.active = {0, 1}, !.utg = 3, !.stack = [p \in Seats |-> 3]]}

\* Heads-up and three-handed, stacks below and above the blinds, and one of
\* each complication: an ante, two boards, the straddle of the form, a pinned one.
EngineTables ==
    LET kinds == {Plain,
                  [Plain EXCEPT !.active = {0, 2}, !.ante = 1],
                  [Plain EXCEPT !.boards = 2],
                  [Plain EXCEPT !.utg = 4],
                  [Plain EXCEPT !.straddles = <<[seat |-> 2, amount |-> 3]>>, !.ante = 1]}
    IN {[k EXCEPT !.stack = s] : k \in kinds, s \in [Seats -> {1, 4}]}

MCTables == EditorTables \cup EngineTables
MCStacks == {1, 3}
MCRankings == {[p \in Seats |-> IF p = 0 THEN 1 ELSE 2], [p \in Seats |-> IF p = 0 THEN 2 ELSE 1]}
MCRequests == {[key |-> 1, size |-> 2, second |-> FALSE], [key |-> 2, size |-> 2, second |-> FALSE],
               [key |-> 3, size |-> 3, second |-> FALSE], [key |-> 4, size |-> 2, second |-> TRUE]}

\* A hand of the engine alone: the editor is at rest.
EngineAtRest == /\ phase = "setup" /\ line = <<>> /\ history = <<>> /\ redo = <<>>
                /\ saved = {} /\ edits = 0
EngineInit == /\ Init /\ setup \in EngineTables /\ EngineAtRest
              /\ SaveInit /\ EquityInit
              /\ ListInit /\ ListOne
              /\ ReplayInit /\ ReplayOne
EngineNext == Next /\ UNCHANGED <<phase, line, history, redo, saved, edits>> /\ HandPagesStay

MCInit == \/ route = "engine" /\ EngineInit
          \/ /\ route \in {"recorder", "save", "list", "replay", "showdown"}
             /\ HandPagesInit /\ (Open("recorder") => setup \in EditorTables)

\* Bound: the editor plays the hand after the first for two actions.
SecondHandShort == hands = 2 => Len(line) <= 2

MCNext == \/ Open("engine") /\ EngineNext
          \/ HandPagesNext /\ (Open("recorder") => SecondHandShort')

MCSpec == MCInit /\ [][MCNext]_handPagesVars /\ HandsFair
=============================================================================
