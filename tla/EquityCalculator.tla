---------------------------- MODULE EquityCalculator ----------------------------
(***************************************************************************)
(* The equity calculator (EquityCalc.tsx): cards are put on two boards and *)
(* in hands, a simulation starts by itself when a flop is complete and by  *)
(* the button before, and the figures shown are those of the last one that *)
(* was started, as long as the cards are still its cards.                  *)
(*                                                                         *)
(* A set of cards is a member of CardSets: whether its hands and boards    *)
(* are complete, whether it has a flop, on one board or two.               *)
(***************************************************************************)
EXTENDS EquitySim

CONSTANTS CardSets,    \* [id : Nat \ {0}, valid, flop, double : BOOLEAN]
          MaxChanges   \* bound: changes of the cards

ASSUME CalculatorAssumption ==
    /\ \A c \in CardSets : c.id \in Nat \ {0} /\ c.valid \in BOOLEAN
                           /\ c.flop \in BOOLEAN /\ c.double \in BOOLEAN
    /\ \A c, d \in CardSets : c.id = d.id => c = d
    /\ MaxChanges \in Nat

Ids == {c.id : c \in CardSets}

VARIABLES
  cards,     \* what is on the table: a member of CardSets
  calcs,     \* sim1 and sim2
  lastKey,   \* lastComputedKeyRef: the id it was computed for, or 0
  shown,     \* displayTotalEVs: the ids whose results it was made of
  changes    \* changes so far

calcVars == <<cards, calcs, lastKey, shown, changes>>

CalcInit == /\ cards \in {c \in CardSets : ~c.valid}
            /\ calcs = <<IdleSim, IdleSim>> /\ lastKey = 0 /\ shown = {} /\ changes = 0

-----------------------------------------------------------------------------
\* A question asked of a simulation, by what is on its board.
Asked(sim, c) == IF ~c.valid THEN sim
                 ELSE IF c.flop THEN Enumerated(sim, c.id) ELSE Sampled(sim, c.id)
\* handleCompute
Computed(s, c) == <<Asked(s[1], c), IF c.double THEN Asked(s[2], c) ELSE Canceled(s[2])>>

\* Mutation: the second board is not counted.
CalcComputingFirst(s, c) == s[1].computing
\* computing, as the page counts it.
CalcComputing(s, c) == s[1].computing \/ (c.double /\ s[2].computing)

\* Mutation: figures stay for cards that are not complete.
ClearedNever(c, figures) == figures
\* The validity effect.
Cleared(c, figures) == IF c.valid THEN figures ELSE {}

\* The display effect, for cards that were computed last.
Displayed(s, c, key, figures) ==
    IF key = c.id /\ s[1].of # 0
    THEN {s[1].of} \cup (IF c.double /\ s[2].of # 0 THEN {s[2].of} ELSE {})
    ELSE figures

\* The auto-compute effect, which runs again on the commit that follows.
AutoComputes(s, c, key) == c.valid /\ c.flop /\ ~CalcComputing(s, c) /\ key # c.id

\* What the effects make of the simulations s once the page is rendered with them:
\* the auto-compute, if it is due, and the figures.
Settles(s, c, key, figures) ==
    LET again == AutoComputes(s, c, key)
    IN /\ calcs' = IF again THEN Computed(s, c) ELSE s
       /\ lastKey' = IF again THEN c.id ELSE key
       /\ shown' = Cleared(c, Displayed(calcs', c, lastKey', figures))

\* The cards change: the simulations are canceled if the page counts them as
\* computing, and the key is forgotten, after a first auto-compute if not.
ChangeCards(c) ==
    /\ changes < MaxChanges /\ changes' = changes + 1
    /\ c # cards /\ cards' = c
    /\ LET busy == CalcComputing(calcs, c)
           s == CASE busy -> <<Canceled(calcs[1]), Canceled(calcs[2])>>
                  [] AutoComputes(calcs, c, lastKey) -> Computed(calcs, c)
                  [] OTHER -> calcs
       IN Settles(s, c, 0, shown)

\* "Run": a question that is not valid only cancels the second simulation.
PressRun == /\ ~CalcComputing(calcs, cards)
            /\ Settles(Computed(calcs, cards), cards, IF cards.valid THEN cards.id ELSE 0, shown)
            /\ UNCHANGED <<cards, changes>>
\* "Stop"
PressStopCalc == /\ CalcComputing(calcs, cards)
                 /\ Settles(<<Canceled(calcs[1]), Canceled(calcs[2])>>, cards, lastKey, shown)
                 /\ UNCHANGED <<cards, changes>>
\* "Clear"
PressClear == \E c \in CardSets :
    /\ ~c.valid /\ c.double = cards.double /\ c # cards /\ changes < MaxChanges
    /\ cards' = c /\ changes' = changes + 1
    /\ calcs' = <<Canceled(calcs[1]), Canceled(calcs[2])>>
    /\ lastKey' = 0 /\ shown' = {}

\* A simulation's state has changed.
Rerenders(i, sim) == /\ Settles([calcs EXCEPT ![i] = sim], cards, lastKey, shown)
                     /\ UNCHANGED <<cards, changes>>
PoolReports(i) == calcs[i].run # 0 /\ Rerenders(i, Reported(calcs[i]))
PoolConverges(i) == calcs[i].run # 0 /\ Rerenders(i, Converged(calcs[i]))
PoolFails(i) == calcs[i].run # 0 /\ Rerenders(i, PoolFailed(calcs[i]))
EnumerationReports(i) == \E w \in calcs[i].exact : Rerenders(i, ExactReported(calcs[i], w))
Enumeration(i) == \E w \in calcs[i].exact : Rerenders(i, ExactDone(calcs[i], w))

CalcNext == \/ \E c \in CardSets : ChangeCards(c)
            \/ PressRun \/ PressStopCalc \/ PressClear
            \/ \E i \in {1, 2} : \/ PoolReports(i) \/ PoolConverges(i) \/ PoolFails(i)
                                 \/ EnumerationReports(i) \/ Enumeration(i)

CalcSpec == CalcInit /\ [][CalcNext]_calcVars

-----------------------------------------------------------------------------
(* Type correctness of the page. *)
CalcTypeOK == /\ cards \in CardSets
              /\ calcs \in [{1, 2} -> SimType(Ids)]
              /\ \A i \in {1, 2} : calcs[i].computing <=> calcs[i].run # 0
              /\ lastKey \in {0, cards.id} /\ shown \subseteq Ids /\ changes \in 0 .. MaxChanges

(* No figures stand beside cards that are not complete, whatever was being  *)
(* computed when a card was taken away.                                     *)
NothingForIncomplete == ~cards.valid => shown = {}

(* A simulation that samples is the one of the cards on the table: no       *)
(* change of them leaves the pool at work on the last ones.                 *)
PoolIsForTheCards == \A i \in {1, 2} :
    calcs[i].computing /\ (i = 2 => cards.double) => calcs[i].run = cards.id

(* Complete boards get their figures without a button, however fast the     *)
(* cards were changed before: what is enumerated for the cards is shown.    *)
(* (The figures of earlier cards, which are not canceled, may land after.)  *)
FlopComplete == cards.valid /\ cards.flop
FiguresOwed == FlopComplete /\ \E w \in calcs[1].exact : w.of = cards.id
FiguresMet == ~FlopComplete \/ cards.id \in shown
=============================================================================
