----------------------------- MODULE HandEngine -----------------------------
(***************************************************************************)
(* The betting engine of the hand recorder (create/engine.ts): one hand of *)
(* no-limit hold'em from the blinds to the award, and the hand after it,   *)
(* whose stacks, button and sitting-out players come from the result       *)
(* (winnings.ts, defaultsFromResult).  Chips are counted in the smallest   *)
(* unit the recorder shows, so a chip here is a cent.                      *)
(*                                                                         *)
(* An engine is a value: every operation of engine.ts clones its argument, *)
(* and so the operations are operators from engine to engine.              *)
(***************************************************************************)
EXTENDS Integers, FiniteSets, Sequences, FiniteSetsExt, Functions

CONSTANTS NumSeats,     \* chairs at the table
          SmallBlind, BigBlind,
          Tables,       \* the tables a hand may be set up at
          MaxHands      \* bound: hands played in a row

ASSUME EngineAssumption ==
    /\ NumSeats \in Nat \ {0, 1}
    /\ SmallBlind \in Nat \ {0}
    /\ BigBlind \in Nat \ {0}
    /\ MaxHands \in Nat \ {0}

Seats == 0 .. NumSeats - 1
NoOne == -1
NotFolded == -1
NoStreet == -1
Preflop == 0
River == 3
Undecided == {}          \* winners: null

\* A table (AdvancedHandState): who is dealt in, the button, what everyone sits
\* down with (a stack that is not positive counts as 100 big blinds), the dead
\* money of the hand (one total), the setup form's straddle
\* (0 is none), the straddles pinned to seats, and the boards to run.
TableType ==
    {t \in [active : SUBSET Seats, button : Seats, stack : [Seats -> Nat], ante : Nat,
            utg : Nat, straddles : Seq([seat : Seats, amount : Nat]), boards : 1 .. 2] :
        /\ t.button \in t.active /\ Cardinality(t.active) >= 2
        /\ \A p \in t.active : t.stack[p] > 0}

ASSUME TableAssumption == Tables \subseteq TableType

VARIABLES setup,   \* the table the hand was built from (AdvancedHandState)
          engine,  \* the engine of the hand
          cards,   \* what the hands are worth, once they are shown
          hands    \* hands dealt so far

vars == <<setup, engine, cards, hands>>

-----------------------------------------------------------------------------
(* Seats and positions. *)

\* The member of S reached first when walking clockwise from the chair after
\* `from'; `from' itself comes last.
Clockwise(S, from) ==
    CHOOSE s \in S : \A t \in S :
        (s + NumSeats - from - 1) % NumSeats <= (t + NumSeats - from - 1) % NumSeats

FirstAfter(S, from) == IF S = {} THEN NoOne ELSE Clockwise(S, from)

\* Labels go round from the button: with two players the button is the small
\* blind, with more the two players after it post the blinds.
ButtonOf(t) == IF t.button \in t.active THEN t.button ELSE Clockwise(t.active, t.button)
SmallBlindOf(t) == IF Cardinality(t.active) = 2 THEN ButtonOf(t)
                   ELSE Clockwise(t.active, ButtonOf(t))
BigBlindOf(t) == IF Cardinality(t.active) = 2 THEN Clockwise(t.active, ButtonOf(t))
                 ELSE Clockwise(t.active, SmallBlindOf(t))

\* The straddles pinned to any other seat, in their order.
PinnedElsewhere(list, seat) ==
    LET kept[n \in 0 .. Len(list)] ==
            IF n = 0 THEN <<>>
            ELSE kept[n - 1] \o (IF list[n].seat = seat THEN <<>> ELSE <<list[n]>>)
    IN kept[Len(list)]

\* The setup form's straddle follows the seat after the big blind and posts
\* first; a straddle pinned to that seat is superseded; three at the most.
StraddlesOf(t) ==
    LET utg == Clockwise(t.active, BigBlindOf(t))
        all == IF t.utg = 0 THEN t.straddles
               ELSE <<[seat |-> utg, amount |-> t.utg]>>
                    \o PinnedElsewhere(t.straddles, utg)
    IN SubSeq(all, 1, Min({3, Len(all)}))

-----------------------------------------------------------------------------
(* Reading an engine. *)

Live(e) == {p \in e.players : e.foldedStreet[p] = NotFolded}
\* Mutation: all-in players still act.
CanActAll(e) == Live(e)
CanAct(e) == Live(e) \ e.allIn
ToCall(e) == e.currentBet - e.committed[e.toAct]
MaxTo(e) == e.committed[e.toAct] + e.stack[e.toAct]
MinRaiseTo(e) == Min({e.currentBet + (IF e.currentBet = 0 THEN BigBlind ELSE e.minRaise),
                      MaxTo(e)})
Totalled(f, S) == FoldFunctionOnSet(+, 0, f, S)

\* What is drawn in the middle of the table.
DisplayedPot(e) ==
    IF e.done THEN e.pot ELSE Max({0, e.pot - Totalled(e.committed, e.players)})

Swept(e) == [p \in Seats |-> IF e.done THEN e.total[p] ELSE e.total[p] - e.committed[p]]
Levels(e) == {Swept(e)[p] : p \in {q \in Live(e) : Swept(e)[q] > 0}}
\* Mutation: every layer counts from the bottom.
LevelBelowNone(e, level) == 0
LevelBelow(e, level) == Max({0} \cup {l \in Levels(e) : l < level})

\* Main and side pots: one layer for every level a live player has reached,
\* the ante in the lowest.
Layer(e, level) ==
    LET below == LevelBelow(e, level)
        slice == [p \in Seats |-> Max({0, Min({Swept(e)[p], level}) - below})]
    IN [amount |-> Totalled(slice, e.players)
                   + (IF level = Min(Levels(e)) THEN e.ante ELSE 0),
        eligible |-> {p \in Live(e) : Swept(e)[p] >= level}]
PotsTotal(e) ==
    Totalled([level \in Levels(e) |-> Layer(e, level).amount], Levels(e))

-----------------------------------------------------------------------------
(* Changing an engine. *)

\* Chips from p's stack to the bets; an empty stack is all-in.
Moved(e, p, put) ==
    [e EXCEPT !.stack[p] = @ - put,
              !.committed[p] = @ + put,
              !.total[p] = @ + put,
              !.allIn = IF e.stack[p] - put <= 0 THEN @ \cup {p} ELSE @,
              !.pot = @ + put]

\* Mutation: a call is not cut at the stack.
PutUncut(e, p, amount) == Moved(e, p, amount)
\* Mutation: the pot is not told.
PutUncounted(e, p, amount) == [Moved(e, p, Min({amount, e.stack[p]})) EXCEPT !.pot = e.pot]
\* commit, and the pot that every caller adds the chips to.
Put(e, p, amount) == Moved(e, p, Min({amount, e.stack[p]}))

Acted(e, p) == [e EXCEPT !.acted = @ \cup {p}]

\* The bet is p's, and its increment the least raise.
BetIs(e, p, increment) ==
    [e EXCEPT !.currentBet = e.committed[p], !.minRaise = Max({BigBlind, increment})]

\* Mutation: those who have acted are not asked again.
PushUnanswered(e, to) ==
    Acted(BetIs(Put(e, e.toAct, to - e.committed[e.toAct]), e.toAct, 0), e.toAct)

\* A bet or a raise: everyone who can still act must act again.
PushAggressive(e, to) ==
    LET f == BetIs(Put(e, e.toAct, to - e.committed[e.toAct]), e.toAct,
                   to - e.committed[e.toAct])
    IN [f EXCEPT !.acted = {e.toAct} \cup (e.players \ CanAct(f))]

\* The chips and the fold of one action.
Played(e, kind, to) ==
    CASE kind = "fold" -> Acted([e EXCEPT !.foldedStreet[e.toAct] = e.street], e.toAct)
      [] kind = "check" -> Acted(e, e.toAct)
      [] kind = "call" -> Acted(Put(e, e.toAct, ToCall(e)), e.toAct)
      [] kind = "bet" ->
            PushAggressive(e, Min({Max({to, e.committed[e.toAct] + BigBlind}), MaxTo(e)}))
      [] kind = "raise" -> PushAggressive(e, Min({to, MaxTo(e)}))
      [] kind = "allin" -> IF MaxTo(e) > e.currentBet THEN PushAggressive(e, MaxTo(e))
                           ELSE Acted(Put(e, e.toAct, e.stack[e.toAct]), e.toAct)

\* How the action left the betting round of f, and who is next.
Closing(f, next) ==
    CASE Cardinality(Live(f)) = 1 -> [e |-> f, close |-> "foldout"]
      [] Cardinality(Live(f)) # 1 /\ next # NoOne -> [e |-> [f EXCEPT !.toAct = next], close |-> "none"]
      [] OTHER -> [e |-> f, close |-> "advance"]
Asked(f, p) == Closing(f, FirstAfter(CanAct(f) \ f.acted, p))

\* settleAction: an engine that is over or waits for nobody ignores the action.
SettleAction(e, kind, to) ==
    IF e.toAct = NoOne \/ e.done THEN [e |-> e, close |-> "none"]
    ELSE Asked(Played(e, kind, to), e.toAct)

\* The part of the highest bet that no live opponent has matched goes back.
Returned(e, p, excess) ==
    IF excess <= 0 THEN e
    ELSE [e EXCEPT !.committed[p] = @ - excess,
                   !.stack[p] = @ + excess,
                   !.total[p] = @ - excess,
                   !.allIn = IF e.stack[p] + excess <= 0 THEN @ \cup {p} ELSE @ \ {p},
                   !.pot = @ - excess]
ReturnTo(e, p) ==
    Returned(e, p, e.committed[p] - Max({0} \cup {e.committed[q] : q \in Live(e) \ {p}}))
ReturnUncalled(e) ==
    LET top == {p \in Live(e) : \A q \in Live(e) : e.committed[p] >= e.committed[q]}
    IN IF Cardinality(Live(e)) < 2 \/ Cardinality(top) # 1 THEN e
       ELSE ReturnTo(e, CHOOSE p \in top : TRUE)

FinishHand(e) ==
    LET alone == IF Cardinality(Live(e)) = 1 THEN Live(e) ELSE Undecided
    IN [e EXCEPT !.toAct = NoOne, !.done = TRUE,
                 !.winners = alone,
                 !.winners2 = IF e.boards = 2 THEN alone ELSE Undecided]

\* One street forward: the bets are collected and the next card is dealt.
Collected(e) ==
    LET locked == e.allInStreet = NoStreet /\ Cardinality(CanAct(e)) < 2
                  /\ Cardinality(Live(e)) >= 2
    IN [e EXCEPT !.allInStreet = IF locked THEN e.street ELSE @,
                 !.committed = [p \in Seats |-> 0],
                 !.currentBet = 0,
                 !.minRaise = BigBlind,
                 !.acted = {}]
Dealt(e) ==
    IF Cardinality(CanAct(e)) >= 2
    THEN [e |-> [e EXCEPT !.toAct = FirstAfter(CanAct(e), e.button)], status |-> "betting"]
    ELSE IF e.street >= River THEN [e |-> FinishHand(e), status |-> "showdown"]
    ELSE [e |-> e, status |-> "runout"]
StepStreet(e) ==
    IF e.street >= River THEN [e |-> FinishHand(Collected(e)), status |-> "showdown"]
    ELSE Dealt([Collected(e) EXCEPT !.street = @ + 1])

\* Streets are dealt until somebody can bet or the hand is over: three at most.
AdvanceStreet(e) ==
    LET onward[n \in 0 .. River] ==
            IF n = 0 THEN [e |-> e, status |-> "runout"]
            ELSE LET last == onward[n - 1]
                 IN IF last.status = "runout" THEN StepStreet(last.e) ELSE last
    IN onward[River].e

\* What the settled action leads to.
Concluded(s) ==
    CASE s.close = "foldout" -> FinishHand(s.e)
      [] s.close = "advance" -> AdvanceStreet(ReturnUncalled(s.e))
      [] OTHER -> s.e
ApplyAction(e, kind, to) == Concluded(SettleAction(e, kind, to))

SetWinners(e, picked, board) ==
    IF board = 2 THEN [e EXCEPT !.winners2 = picked] ELSE [e EXCEPT !.winners = picked]

-----------------------------------------------------------------------------
(* Building an engine: the ante, the blinds and the straddles. *)

\* One straddle on top of the posts so far; `level' is the bet it has to top
\* and `from' the last seat that posted.  The amount is the seat's total.
PostStraddle(posts, s) ==
    IF s.seat \notin posts.e.players THEN posts
    ELSE LET e == Put(posts.e, s.seat, Max({0, s.amount - posts.e.committed[s.seat]}))
             bet == Max({e.currentBet, s.amount})
         IN [e |-> [e EXCEPT !.currentBet = bet,
                             !.minRaise = Max({BigBlind, bet - posts.level})],
             level |-> bet, from |-> s.seat]

EmptyEngine(t) ==
    [players |-> t.active, button |-> ButtonOf(t), ante |-> t.ante, boards |-> t.boards,
     stack |-> t.stack, committed |-> [p \in Seats |-> 0], total |-> [p \in Seats |-> 0],
     foldedStreet |-> [p \in Seats |-> NotFolded], allIn |-> {}, acted |-> {},
     street |-> Preflop, allInStreet |-> NoStreet, currentBet |-> BigBlind,
     minRaise |-> BigBlind, toAct |-> NoOne, pot |-> t.ante, done |-> FALSE,
     winners |-> Undecided, winners2 |-> Undecided]

FirstToAct(posts) == [posts.e EXCEPT !.toAct = FirstAfter(CanAct(posts.e), posts.from)]

BuildEngine(t) ==
    LET blinds == Put(Put(EmptyEngine(t), SmallBlindOf(t), SmallBlind), BigBlindOf(t), BigBlind)
        list == StraddlesOf(t)
        none == [e |-> blinds, level |-> BigBlind, from |-> BigBlindOf(t)]
        upto[n \in 0 .. Len(list)] ==
            IF n = 0 THEN none ELSE PostStraddle(upto[n - 1], list[n])
    IN FirstToAct(upto[Len(list)])

-----------------------------------------------------------------------------
(* The award. *)

NoCards == [known |-> FALSE, rank |-> <<>>]
\* A smaller rank is a better hand; each board has its own ranking.
Hands == [known : BOOLEAN, rank : [1 .. 2 -> [Seats -> 1 .. 2]]]

Resolved(e) == e.done /\ e.winners # Undecided /\ (e.boards = 2 => e.winners2 # Undecided)
WinnersOn(e, board) == IF board = 2 THEN e.winners2 ELSE e.winners
Best(S, rank) == {p \in S : \A q \in S : rank[p] <= rank[q]}

\* Mutation: the winners of the hand take every layer.
PotWinnersAll(e, c, board, pot) == WinnersOn(e, board)

\* Who takes one layer of the pot on one board: its only claimant, the best of
\* the known hands, or the recorded winners who can claim it.
PotWinners(e, c, board, pot) ==
    LET picked == WinnersOn(e, board) \cap pot.eligible IN
    CASE Cardinality(pot.eligible) = 1 -> pot.eligible
      [] c.known /\ Cardinality(pot.eligible) # 1 -> Best(pot.eligible, c.rank[board])
      [] OTHER -> IF picked = {} THEN pot.eligible ELSE picked

\* splitAmounts: a board's share of a layer in whole cents (a half cent rounds
\* up), divided evenly, the odd cents to the first winners.
Share(e, amount) == IF e.boards = 2 THEN (amount + 1) \div 2 ELSE amount
\* Mutation: the odd cents are dropped.
SplitEven(share, W, p) == share \div Cardinality(W)
SplitAmount(share, W, p) ==
    share \div Cardinality(W)
    + (IF Cardinality({q \in W : q < p}) < share % Cardinality(W) THEN 1 ELSE 0)

WonOf(share, W, p) == IF p \in W THEN SplitAmount(share, W, p) ELSE 0
PotWins(e, c, board, pot, p) == WonOf(Share(e, pot.amount), PotWinners(e, c, board, pot), p)

\* computeWinnings: what p collects over all boards and layers.
Winnings(e, c) ==
    LET boards == 1 .. e.boards
    IN [p \in Seats |->
           Totalled([b \in boards |-> Totalled([level \in Levels(e) |->
                                                  PotWins(e, c, b, Layer(e, level), p)], Levels(e))],
                    boards)]

\* defaultsFromResult: stacks after the award, busted players sit out, and the
\* button moves to the next seat that is dealt in.
TableWith(t, stack, active) ==
    [t EXCEPT !.stack = stack, !.active = active,
              !.button = IF active = {} THEN @ ELSE Clockwise(active, @),
              !.straddles = <<>>, !.boards = 1]
Seated(t, stack) == TableWith(t, stack, {p \in t.active : stack[p] > 0})
Paid(t, e, won) ==
    Seated(t, [p \in Seats |-> IF p \in e.players THEN e.stack[p] + won[p] ELSE t.stack[p]])
NextTable(t, e, c) == Paid(t, e, Winnings(e, c))

\* Mutation: the whole pot, whoever matched it.
FinalPotWhole(e) == e.pot

\* buildHandSummary's final pot: the winner's unmatched chips of a fold-out are
\* taken off it.
FinalPot(e) ==
    IF Cardinality(Live(e)) # 1 THEN e.pot
    ELSE LET w == CHOOSE p \in Live(e) : TRUE
             matched == Max({0} \cup {e.committed[p] : p \in e.players \ {w}})
         IN e.pot - Max({0, e.committed[w] - matched})

-----------------------------------------------------------------------------
(* The recorder's steps. *)

Init == /\ setup \in Tables
        /\ engine = BuildEngine(setup)
        /\ cards = NoCards
        /\ hands = 1

ToAct == ~engine.done /\ engine.toAct # NoOne
Play(kind, to) == /\ engine' = ApplyAction(engine, kind, to)
                  /\ UNCHANGED <<setup, cards, hands>>

\* The buttons of the action panel; legalActions says which are enabled.
Fold == ToAct /\ Play("fold", 0)
Check == ToAct /\ ToCall(engine) <= 0 /\ Play("check", 0)
Call == ToAct /\ ToCall(engine) > 0 /\ engine.stack[engine.toAct] > 0 /\ Play("call", 0)

CanBet == engine.currentBet = 0 /\ engine.stack[engine.toAct] > 0
CanRaise == engine.currentBet > 0 /\ engine.stack[engine.toAct] > ToCall(engine)
Sizes == MinRaiseTo(engine) .. MaxTo(engine)

Bet == /\ ToAct /\ CanBet
       /\ \E to \in Sizes \ {MaxTo(engine)} : Play("bet", to)
Raise == /\ ToAct /\ CanRaise
         /\ \E to \in Sizes \ {MaxTo(engine)} : Play("raise", to)
AllIn == /\ ToAct /\ (CanBet \/ CanRaise)
         /\ MaxTo(engine) \in Sizes
         /\ Play("allin", 0)

\* A showdown: the known hands decide, or the user picks the winners.
Showdown ==
    /\ engine.done /\ ~Resolved(engine)
    /\ \E c \in Hands :
        /\ c.known \/ \A b \in 1 .. 2, p \in Seats : c.rank[b][p] = 1
        /\ engine.boards = 1 => c.rank[2] = c.rank[1]
        /\ \E W, W2 \in (SUBSET Live(engine)) \ {{}} :
            /\ c.known => W = Best(Live(engine), c.rank[1]) /\ W2 = Best(Live(engine), c.rank[2])
            /\ engine.boards = 1 => W2 = W
            /\ engine' = IF engine.boards = 2 THEN SetWinners(SetWinners(engine, W, 1), W2, 2)
                         ELSE SetWinners(engine, W, 1)
        /\ cards' = c
    /\ UNCHANGED <<setup, hands>>

\* "Record another": the next hand starts from the results of this one.
RecordAnother ==
    LET next == NextTable(setup, engine, cards) IN
    /\ Resolved(engine) /\ hands < MaxHands
    /\ Cardinality(next.active) >= 2
    /\ setup' = next
    /\ engine' = BuildEngine(next)
    /\ cards' = NoCards
    /\ hands' = hands + 1

Next == Fold \/ Check \/ Call \/ Bet \/ Raise \/ AllIn \/ Showdown \/ RecordAnother

Spec == Init /\ [][Next]_vars

-----------------------------------------------------------------------------
(* Properties. *)

TypeOK ==
    /\ engine.players \subseteq Seats
    /\ engine.stack \in [Seats -> Nat]
    /\ engine.committed \in [Seats -> Nat]
    /\ engine.total \in [Seats -> Nat]
    /\ engine.foldedStreet \in [Seats -> NotFolded .. River]
    /\ engine.allIn \subseteq Seats /\ engine.acted \subseteq Seats
    /\ engine.street \in Preflop .. River
    /\ engine.toAct \in Seats \cup {NoOne}
    /\ engine.pot \in Nat
    /\ engine.winners \subseteq engine.players /\ engine.winners2 \subseteq engine.players
    /\ hands \in 1 .. MaxHands

\* No chip appears or vanishes while a hand is played: what a player has and
\* has put in is what he sat down with, through refunds, short all-ins and
\* streets that are dealt at once, and the pot is everyone's chips and the
\* ante (commit, returnUncalled, stepStreet).
SeatChipsKept ==
    \A p \in Seats : /\ engine.stack[p] + engine.total[p] = setup.stack[p]
                      /\ engine.committed[p] <= engine.total[p]
ChipsKept ==
    /\ SeatChipsKept
    /\ engine.pot = engine.ante + Totalled(engine.total, engine.players)

\* A street is closed only when everyone still in has matched the highest bet
\* or is all-in: behind the current street, a player with chips has put in as
\* much as anyone (nextToAct, the reset of `acted' by a bet or a raise).
Behind(p) == engine.total[p] - engine.committed[p]
BetsMatched ==
    \A p, q \in Live(engine) : p \notin engine.allIn => Behind(p) >= Behind(q)

\* A hand that was dealt and is not over waits for a player who can act, unless
\* the forced bets have put everyone all-in.
AllInBlind == /\ engine.street = Preflop /\ engine.acted = {}
              /\ \A p \in Live(engine) : engine.stack[p] = 0
HandCanGoOn == \/ engine.done \/ engine = EmptyEngine(setup)
               \/ engine.toAct \in Live(engine) /\ engine.stack[engine.toAct] > 0
               \/ AllInBlind

\* A betting round ends when it must and not before: no street is closed over a
\* player who has chips and has not matched the bet, and a hand that is not over
\* waits for somebody who can act (nextToAct, settleAction, legalActions).
BettingSound == BetsMatched /\ HandCanGoOn

\* What potBreakdown says of itself: "The amounts sum exactly to displayedPot".
PotsSumToDisplay == PotsTotal(engine) = DisplayedPot(engine)

\* It does once a street has been swept, unless a player who had put in more
\* than everyone still live folded when he could have checked.
Deserted ==
    \E q \in engine.players \ Live(engine) :
        \A p \in Live(engine) : Swept(engine)[q] > Swept(engine)[p]
PotsAreThePot == Levels(engine) = {} \/ Deserted \/ PotsSumToDisplay

\* The award of a hand hands out the whole pot (computeWinnings): the stacks of
\* the next hand hold every chip of this one.  On two boards each half of an
\* odd layer is rounded up, which can make one cent a layer.
AwardIsThePot ==
    Resolved(engine) /\ ~Deserted =>
        LET paid == Totalled(Winnings(engine, cards), Seats) IN
        /\ paid >= engine.pot
        /\ paid <= engine.pot + (IF engine.boards = 2 THEN Cardinality(Levels(engine)) ELSE 0)

\* Nobody collects what he could not have matched: a player wins at most his own
\* stake from each player, and the ante (the layers of potBreakdown and their
\* eligible players).
NobodyOverpaid ==
    Resolved(engine) =>
        LET paid == Winnings(engine, cards) IN
        \A p \in engine.players :
            LET reach == [q \in Seats |-> Min({engine.total[q], engine.total[p]})]
            IN paid[p] <= Totalled(reach, engine.players) + engine.ante
                          + (IF engine.boards = 2 THEN Cardinality(Levels(engine)) ELSE 0)

\* The pot of a hand's summary is what was contested: the chips of the winner
\* that nobody matched over the whole hand are not in it, whichever way the
\* hand ended (buildHandSummary looks at the last street only).
SummaryPotContested ==
    engine.done =>
        LET most == Max({engine.total[p] : p \in engine.players})
            top == {p \in engine.players : engine.total[p] = most}
            w == CHOOSE p \in top : TRUE
            others == Max({engine.total[p] : p \in engine.players \ {w}})
            unmatched == IF Cardinality(top) = 1 /\ w \in Live(engine) THEN most - others ELSE 0
        IN FinalPot(engine) = engine.pot - unmatched

\* The layers, the award and the summary agree with what the seats put in:
\* every chip of the pot is handed out, to players who could have matched it,
\* and the summary names the chips that were contested (potBreakdown,
\* computeWinnings, buildHandSummary: three walks over the same engine).
AwardSound == PotsAreThePot /\ AwardIsThePot /\ NobodyOverpaid /\ SummaryPotContested

\* From the blinds to the award, every chip is somewhere, and goes where it may.
ChipsAccounted == ChipsKept /\ AwardSound
=============================================================================
