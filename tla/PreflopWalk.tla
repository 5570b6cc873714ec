----------------------------- MODULE PreflopWalk -----------------------------
(***************************************************************************)
(* The preflop tree of the solver page (Solver.tsx, handleActionClick.ts): *)
(* a click on an action of a seat's plate walks to the next node, whose    *)
(* plates are fetched as they are needed; a click on a seat goes back to   *)
(* its decision or ahead to it, one action per render.  The seats and the  *)
(* money are kept click by click; seatNavigation.ts and                    *)
(* usePreflopLineNodes.ts read them off the line.  Answers come in any     *)
(* order, also those that were asked for another sim.                      *)
(*                                                                         *)
(* A plate is the sequence of the action numbers in its file name, chips   *)
(* are halves of a big blind.  The user is signed in and may open any sim; *)
(* a visit to a solved board is the step that leaves it.                   *)
(***************************************************************************)
EXTENDS Integers, Sequences, SequencesExt, FiniteSets

CONSTANTS Sims,      \* preflop sims (naturals from 1)
          Players,   \* how many play each, 2 or 3
          Ante,      \* its ante
          Stack,     \* what each of its players starts with
          Tree,      \* its files, and the actions in each
          Solved,    \* solved boards: the sim and the preflop line of each
          MaxWalked, \* bound: clicks
          MaxEvents  \* bound: clicks, picks of a sim and requests that fail

Positions == {"BTN", "SB", "BB"}
NumberOf == [Fold |-> 0, Call |-> 1, ALLIN |-> 3, Min |-> 5, Raise2bb |-> 15, Raise100 |-> 40100]
Labels == DOMAIN NumberOf
\* numberToActionMap does not know every number of actionToNumberMap.
NoLabel == "undefined"
LabelOf(n) == IF n = 40100 THEN NoLabel ELSE CHOOSE a \in Labels : NumberOf[a] = n

Plates == UNION {DOMAIN Tree[s] : s \in Sims} \cup {<<>>, <<1>>, <<0>>, <<0, 1>>}
NoPlate == <<-1>>
\* preflopNodeFiles: the file of the node after some actions.
NodeFile(actions) == [i \in DOMAIN actions |-> NumberOf[actions[i]]]
Readable(actions) == NoLabel \notin ToSet(actions)

PositionOrder(s) == IF Players[s] = 2 THEN <<"BTN", "BB">> ELSE <<"SB", "BB", "BTN">>
ActingOrder(s) == IF Players[s] = 2 THEN <<"BTN", "BB">> ELSE <<"BTN", "SB", "BB">>
DefaultPlates(s) == IF Players[s] = 2 THEN << <<>>, <<1>> >> ELSE << <<>>, <<0>>, <<0, 1>> >>
InitialMapping(s) ==
    [p \in Positions |-> IF p \in ToSet(ActingOrder(s))
                         THEN DefaultPlates(s)[CHOOSE i \in 1 .. Players[s] : ActingOrder(s)[i] = p]
                         ELSE NoPlate]
Blinds(s) == [p \in Positions |-> CASE p = "BB" -> 2
                                    [] p = Head(PositionOrder(s)) -> 1
                                    [] OTHER -> 0]

ASSUME WalkAssumption ==
    /\ Sims \subseteq Nat \ {0} /\ Players \in [Sims -> {2, 3}]
    /\ Ante \in [Sims -> Nat] /\ Stack \in [Sims -> Nat]
    /\ \A s \in Sims : \A f \in DOMAIN Tree[s] : Tree[s][f] \subseteq Labels
    /\ \A b \in Solved : b.sim \in Sims /\ b.line \in Seq(Labels)
    /\ MaxWalked \in Nat /\ MaxEvents \in Nat

VARIABLES
  sim,      \* folder
  plates,   \* loadedPlates
  data,     \* plateData: the sim each plate's content came from, or 0
  mapping,  \* plateMapping: the plate each seat shows
  table,    \* preflopLine without its "Root", the alive and active players, bets, pot
  meta,     \* the sim whose metadata is set, or 0
  requests, \* under way: sims picked and their metadata, the listing, a batch of plates
  raiser,   \* lastRange and lastRangePos: where the last raise was made
  clicked,  \* lastClickRef
  replay,   \* preflopReplay
  skip,     \* skipTarget
  flop,     \* pendingFlopUpload, and whether its modal is shown
  astray,   \* history: what the table, the plates cannot be held to any more
  walkSpent \* clicks, picks and failures so far

walkVars == <<sim, plates, data, mapping, table, meta, requests, raiser, clicked, replay, skip,
              flop, astray, walkSpent>>

NoRaiser == [seat |-> "", at |-> NoPlate]
NoClick == [plate |-> NoPlate, action |-> ""]
NoReplay == [actions |-> <<>>, step |-> 0]
NoSkip == [seat |-> "", steps |-> 0]
NoFlop == [sim |-> 0, line |-> <<>>, raiser |-> NoRaiser, pot |-> 0, modal |-> FALSE]
Batch(waits) == [waits |-> waits, got |-> {}]
ListingIsThere == requests.listing = "there"
Content(f) == IF f \in Plates /\ data[f] # 0 THEN Tree[data[f]][f] ELSE {}

-----------------------------------------------------------------------------
(* Seats in turn.  The code keeps a list of those alive and the index of the *)
(* one to act; here the one to act is the head.                              *)

NextUp(up, folds) == CASE up = <<>> -> up
                       [] folds -> Tail(up)
                       [] OTHER -> Append(Tail(up), Head(up))
Up(s, folds) == LET up[i \in 0 .. Len(folds)] ==
                        IF i = 0 THEN ActingOrder(s) ELSE NextUp(up[i - 1], folds[i])
                IN up[Len(folds)]
UpAtPlate(s, f) == Up(s, [i \in DOMAIN f |-> f[i] = 0])
UpAfter(s, line) == Up(s, [i \in DOMAIN line |-> line[i] = "Fold"])

\* A plate's Position in its own sim: whose turn it is at the node.
Position(s, f) == Head(UpAtPlate(s, f))

\* actionsBeforeSeat: how much of the line came before a seat's decisions.
Before(p) == {i \in 0 .. Len(table.line) - 1 :
                LET up == UpAfter(sim, SubSeq(table.line, 1, i)) IN up # <<>> /\ Head(up) = p}

-----------------------------------------------------------------------------
(* Money.                                                                   *)

Most(bets) == CHOOSE m \in {bets[p] : p \in Positions} : \A p \in Positions : bets[p] <= m
NewBet(a, before, most, pot, stack) ==
    CASE a = "Min" -> 4
      [] a = "ALLIN" -> stack
      [] a = "Raise2bb" -> most + 4
      [] a = "Raise100" -> most + (pot + most)
      [] a = "Call" -> IF most < stack THEN most ELSE stack
      [] OTHER -> before
Added(bet, before) == IF bet > before THEN bet - before ELSE 0

\* Mutation: the pot is not paid into.
PaidToNobody(t, seat, a, stack) ==
    [t EXCEPT !.bets[seat] = NewBet(a, t.bets[seat], Most(t.bets), t.pot, stack)]
\* handleActionClickImpl: the bets and the pot after an action of a seat.
Paid(t, seat, a, stack) ==
    LET bet == NewBet(a, t.bets[seat], Most(t.bets), t.pot, stack)
    IN [t EXCEPT !.bets[seat] = bet, !.pot = @ + Added(bet, t.bets[seat])]

\* usePreflopLineNodes: the chips of a line replayed from the blinds.
Replayed(s, line) ==
    LET seat(i) == Head(UpAfter(s, SubSeq(line, 1, i - 1)))
        paid[i \in 0 .. Len(line)] ==
          IF i = 0 THEN [bets |-> Blinds(s), pot |-> 3 + Ante[s], most |-> 2]
          ELSE LET was == paid[i - 1]
                   bet == NewBet(line[i], was.bets[seat(i)], was.most, was.pot, Stack[s])
               IN [bets |-> [was.bets EXCEPT ![seat(i)] = bet],
                   pot |-> was.pot + Added(bet, was.bets[seat(i)]),
                   most |-> IF bet > was.most THEN bet ELSE was.most]
    IN paid[Len(line)]

-----------------------------------------------------------------------------
(* Plates.                                                                  *)

\* Mutation: a card is taken over only if nothing is on it.
ShowingFirst(map, content, list) ==
    [p \in Positions |->
       LET own == {i \in DOMAIN list : Position(content[list[i]], list[i]) = p}
       IN IF own = {} \/ map[p] # NoPlate THEN map[p]
          ELSE list[CHOOSE i \in own : \A j \in own : j <= i]]
\* Each plate of a list takes over the card of its seat; the last one has it.
Showing(map, content, list) ==
    [p \in Positions |->
       LET own == {i \in DOMAIN list : Position(content[list[i]], list[i]) = p}
       IN IF own = {} THEN map[p] ELSE list[CHOOSE i \in own : \A j \in own : j <= i]]

\* The mapping's effect: a seat shows no plate that is not loaded.
Filtered(map, list) == [p \in Positions |-> IF map[p] \in ToSet(list) THEN map[p] ELSE NoPlate]
Missing(list, content) == {f \in ToSet(list) : content[f] = 0}
PlatesAreMemo == plates = DefaultPlates(sim) /\ table.line = <<>>

\* The fetch effect: what had arrived of the batch it cuts off is stored all the
\* same, after the mapping was filtered; then it asks for what is missing.
Refetch(list, map, content, asked) ==
    LET got == requests.plates.got
    IN /\ plates' = list
       /\ data' = [f \in Plates |-> IF f \in got THEN sim ELSE content[f]]
       /\ mapping' = Showing(map, data', SelectSeq(plates, LAMBDA f : f \in got))
       /\ requests' = [asked EXCEPT !.plates = Batch(Missing(list, data'))]
CutOff == IF requests.plates.got = {} THEN {} ELSE {"plates"}

\* Mutation: what is loaded is kept when another sim is opened.
EmptiedNever(content) == content
\* actuallyOpenFolder forgets what it has of the plates.
Emptied(content) == [f \in Plates |-> 0]

\* Mutation: the plates behind it only.
AheadOfFolds(f, a) ==
    LET behind(k) == Append(f, NumberOf[a]) \o [i \in 1 .. k |-> 0]
    IN SelectSeq([k \in 1 .. Players[sim] - 1 |-> behind(k)],
                 LAMBDA g : ListingIsThere /\ g \in DOMAIN Tree[sim])
\* The base plate of an action and those behind it of seats that fold, if the
\* sim has them.
Ahead(f, a) ==
    LET behind(k) == Append(f, NumberOf[a]) \o [i \in 1 .. k |-> 0]
    IN SelectSeq([k \in 1 .. Players[sim] |-> behind(k - 1)],
                 LAMBDA g : ListingIsThere /\ g \in DOMAIN Tree[sim])

-----------------------------------------------------------------------------
(* The modal of the flop opens when a call is pending and two are left.     *)

Offered(pending, alive) ==
    IF pending.sim # 0 /\ Cardinality(alive) = 2 THEN [pending EXCEPT !.modal = TRUE] ELSE pending
ModalIsShown == flop.modal /\ Cardinality(table.alive) = 2

Happens(clicks) == /\ walkSpent.events < MaxEvents /\ walkSpent.walked + clicks <= MaxWalked
                   /\ walkSpent' = [walked |-> walkSpent.walked + clicks,
                                    events |-> walkSpent.events + 1]
Walked == Happens(1)
Fails == Happens(0)

RootTable(s, bets, pot) == [line |-> <<>>, alive |-> ToSet(ActingOrder(s)),
                            active |-> Head(ActingOrder(s)), bets |-> bets, pot |-> pot]

\* The page with its first sim, whose metadata has come: the rest is asked for.
WalkInit ==
    /\ sim \in Sims /\ \A s \in Sims : sim <= s
    /\ meta = sim /\ table = RootTable(sim, Blinds(sim), 3 + Ante[sim])
    /\ plates = DefaultPlates(sim) /\ data = [f \in Plates |-> 0]
    /\ mapping = [p \in Positions |-> NoPlate]
    /\ requests = [picks |-> <<>>, metas |-> [s \in Sims |-> 0], listing |-> "asked",
                   plates |-> Batch(ToSet(plates))]
    /\ raiser = NoRaiser /\ clicked = NoClick /\ replay = NoReplay /\ skip = NoSkip
    /\ flop = NoFlop /\ astray = {} /\ walkSpent = [walked |-> 0, events |-> 0]

-----------------------------------------------------------------------------
(* An action of a plate (handleActionClickImpl).                            *)

OnLine(f) == Readable(table.line) /\ f = NodeFile(table.line)
Strays(f) == (IF OnLine(f) /\ data[f] = sim THEN {} ELSE {"table"})
             \cup CutOff \cup (IF ListingIsThere THEN {} ELSE {"plates"})

\* Mutation: a call takes over the range of the raise.
RaiserAfterLast(f, a, seat) ==
    IF a \in {"ALLIN", "Fold"} THEN raiser ELSE [seat |-> seat, at |-> Append(f, NumberOf[a])]
\* The range of a raise is kept for the flop.
RaiserAfter(f, a, seat) ==
    IF a \in {"Call", "ALLIN", "Fold"} THEN raiser
    ELSE [seat |-> seat, at |-> Append(f, NumberOf[a])]

HandleClick(f, a) ==
    IF f \notin ToSet(plates) \/ clicked = [plate |-> f, action |-> a]
    THEN UNCHANGED <<plates, data, mapping, table, requests, raiser, clicked, flop, astray>>
    ELSE LET seat == Position(data[f], f)
             up == UpAtPlate(sim, f)
             line == Append([i \in DOMAIN f |-> LabelOf(f[i])], a)
             alive == ToSet(up) \ (IF a = "Fold" THEN {seat} ELSE {})
             paid == Paid(table, seat, a, Stack[data[f]])
             ahead == Ahead(f, a)
             known == SelectSeq(ahead, LAMBDA g : data[g] # 0)
             list == plates \o SelectSeq(ahead, LAMBDA g : g \notin ToSet(plates))
             called == [flop EXCEPT !.sim = sim, !.line = line, !.raiser = raiser, !.pot = paid.pot]
         IN /\ Refetch(list, Filtered(Showing(mapping, data, known), list), data, requests)
            /\ table' = [paid EXCEPT !.line = line, !.alive = alive,
                                     !.active = Head(NextUp(up, FALSE))]
            /\ flop' = Offered(IF a = "Call" THEN called ELSE flop, alive)
            /\ raiser' = RaiserAfter(f, a, seat)
            /\ clicked' = [plate |-> f, action |-> a]
            /\ astray' = astray \cup Strays(f)

\* The cards of the strip offer the actions of the plates they show.
ClickAction(f, a) ==
    /\ ~ModalIsShown /\ Walked
    /\ \E p \in ToSet(ActingOrder(sim)) : f = mapping[p] /\ a \in Content(f)
    /\ HandleClick(f, a)
    /\ UNCHANGED <<sim, meta, replay, skip>>

-----------------------------------------------------------------------------
(* Back and ahead.                                                          *)

\* resetPreflopToRoot, from a line that has left the root or from a board.
ResetToRoot ==
    /\ table' = RootTable(sim, Blinds(sim), 3 + IF meta = 0 THEN 0 ELSE Ante[meta])
    /\ skip' = NoSkip /\ clicked' = NoClick
    /\ Refetch(DefaultPlates(sim), InitialMapping(sim), data, requests)
    /\ astray' = (IF meta = sim THEN astray \ {"table"} ELSE astray \cup {"table"}) \cup CutOff

\* replayPreflopLine: a line with a label that has no number throws before anything
\* is set, a line of another sim stops at the root.
ReplayLine(actions, source) ==
    /\ Readable(actions)
    /\ ResetToRoot
    /\ replay' = IF actions # <<>> /\ source = sim THEN [actions |-> actions, step |-> 0]
                 ELSE NoReplay

Passive(actions) == CASE "Fold" \in actions -> "Fold"
                      [] "Call" \in actions -> "Call"
                      [] OTHER -> ""
Turn(p) == CHOOSE i \in 1 .. Players[sim] : ActingOrder(sim)[i] = p
IsAhead(p) == /\ p \in table.alive /\ Turn(p) > Turn(table.active)
              /\ Passive(Content(mapping[table.active])) # ""

\* resolveSeatNav: a seat still to act is skipped to, one that acted is gone back to.
ClickSeat(p) ==
    /\ ~ModalIsShown /\ p # table.active /\ Walked
    /\ \/ /\ IsAhead(p)
          /\ skip' = [seat |-> p, steps |-> 0]
          /\ UNCHANGED <<plates, data, mapping, table, requests, clicked, replay, flop, astray>>
       \/ /\ ~IsAhead(p) /\ Before(p) # {}
          /\ LET n == CHOOSE i \in Before(p) : \A j \in Before(p) : i <= j
             IN ReplayLine(SubSeq(table.line, 1, n), sim)
          /\ flop' = Offered(flop, ToSet(ActingOrder(sim)))
    /\ UNCHANGED <<sim, meta, raiser>>

\* jumpToPreflopNode: an action at the k-th node of the line of the board that was
\* open.  On the board two are alive, so that a pending call's modal opens over it
\* and is closed there; its documents are plates, so that a batch is cut off.
LeaveBoard(b, k, a) ==
    /\ ~ModalIsShown /\ replay = NoReplay /\ Walked
    /\ LET before == SubSeq(b.line, 1, k - 1)
       IN /\ a \in Tree[b.sim][NodeFile(before)]
          /\ ReplayLine(IF a = b.line[k] THEN before ELSE Append(before, a), b.sim)
    /\ flop' = NoFlop
    /\ UNCHANGED <<sim, meta, raiser>>

\* A replay ends at its end, when something else was clicked, and at a node without
\* a plate.
ReplayIsOver(f) == \/ replay.step = Len(replay.actions)
                   \/ Len(table.line) # replay.step
                   \/ ListingIsThere /\ f \notin DOMAIN Tree[sim]

\* The replay's effect: the next action as soon as its plate is there.
ReplayMoves ==
    /\ replay # NoReplay
    /\ LET f == NodeFile(SubSeq(replay.actions, 1, replay.step))
           over == ReplayIsOver(f)
       IN \/ /\ over
             /\ replay' = NoReplay
             /\ UNCHANGED <<plates, data, mapping, table, requests, raiser, clicked, flop, astray>>
          \/ /\ ~over /\ f \in ToSet(plates) /\ data[f] # 0
             /\ HandleClick(f, replay.actions[replay.step + 1])
             /\ replay' = [replay EXCEPT !.step = @ + 1]
    /\ UNCHANGED <<sim, meta, skip, walkSpent>>

\* The skip's effect: the seat to act gets out of the way.
SkipMoves ==
    /\ skip # NoSkip /\ replay = NoReplay
    /\ LET f == mapping[table.active]
           passive == Passive(Content(f))
           over == \/ skip.seat = table.active \/ skip.steps > Players[sim] \/ f = NoPlate
                   \/ f \in ToSet(plates) /\ data[f] # 0 /\ passive = ""
       IN \/ /\ over
             /\ skip' = NoSkip
             /\ UNCHANGED <<plates, data, mapping, table, requests, raiser, clicked, flop, astray>>
          \/ /\ ~over /\ f \in ToSet(plates) /\ data[f] # 0
             /\ HandleClick(f, passive)
             /\ skip' = [skip EXCEPT !.steps = @ + 1]
    /\ UNCHANGED <<sim, meta, replay, walkSpent>>

CloseModal ==
    /\ ModalIsShown
    /\ flop' = NoFlop
    /\ UNCHANGED <<sim, plates, data, mapping, table, meta, requests, raiser, clicked, replay,
                   skip, astray, walkSpent>>

-----------------------------------------------------------------------------
(* Sims.  A sim that is picked is opened when its metadata has been asked    *)
(* for; picks do not cancel each other, and each opens with what the page    *)
(* was when it was made.                                                     *)

PickSim(s) ==
    /\ s # sim /\ Happens(0)
    /\ requests' = [requests EXCEPT !.picks = Append(@, [sim |-> s, from |-> sim])]
    /\ UNCHANGED <<sim, plates, data, mapping, table, meta, raiser, clicked, replay, skip, flop,
                   astray>>

\* actuallyOpenFolder: the default plates are those of the sim it was picked from,
\* until the layout's effect runs, which a sim that is open already never starts.
OpenSim(i) ==
    LET pick == requests.picks[i]
        s == pick.sim
        first == DefaultPlates(pick.from)
        list == IF s = sim THEN first ELSE DefaultPlates(s)
        map == IF PlatesAreMemo /\ pick.from = sim THEN InitialMapping(s)
               ELSE Filtered(InitialMapping(s), first)
        rest == [requests EXCEPT !.picks = RemoveAt(@, i)]
        asked == IF s = sim THEN rest
                 ELSE [rest EXCEPT !.metas[s] = @ + 1, !.listing = "asked"]
    IN /\ sim' = s
       /\ table' = RootTable(s, table.bets, table.pot)
       /\ Refetch(list, Filtered(map, list), Emptied(data), asked)
       /\ flop' = Offered(flop, table'.alive)
       /\ replay' = NoReplay /\ skip' = NoSkip
       /\ astray' = {"table"} \cup CutOff
       /\ UNCHANGED <<meta, raiser, clicked, walkSpent>>

-----------------------------------------------------------------------------
(* Answers.                                                                 *)

\* The metadata's effect; it cancels nothing and asks not whose answer it is.
MetadataAnswered(s) ==
    /\ requests.metas[s] > 0
    /\ requests' = [requests EXCEPT !.metas[s] = @ - 1]
    /\ \/ /\ meta' = s
          /\ table' = [table EXCEPT !.bets = Blinds(s), !.pot = 3 + Ante[s]]
          /\ astray' = IF s = sim /\ table.line = <<>> THEN astray \ {"table"}
                       ELSE astray \cup {"table"}
          /\ UNCHANGED walkSpent
       \/ /\ Fails /\ meta' = 0
          /\ table' = [table EXCEPT !.bets = [BTN |-> 0, SB |-> 1, BB |-> 2], !.pot = 3]
          /\ astray' = astray \cup {"table"}
    /\ UNCHANGED <<sim, plates, data, mapping, raiser, clicked, replay, skip, flop>>

ListingAnswered ==
    /\ requests.listing = "asked"
    /\ \/ requests' = [requests EXCEPT !.listing = "there"] /\ UNCHANGED walkSpent
       \/ Fails /\ requests' = [requests EXCEPT !.listing = "none"]
    /\ UNCHANGED <<sim, plates, data, mapping, table, meta, raiser, clicked, replay, skip, flop,
                   astray>>

\* A batch is stored when its last plate has come or failed, and what is missing
\* then asked for again; if all of it failed nothing is.
BatchGoes(waits, got) ==
    IF waits # {} \/ got = {}
    THEN /\ requests' = [requests EXCEPT !.plates = [waits |-> waits, got |-> got]]
         /\ UNCHANGED <<data, mapping>>
    ELSE /\ data' = [f \in Plates |-> IF f \in got THEN sim ELSE data[f]]
         /\ mapping' = Showing(mapping, data', SelectSeq(plates, LAMBDA f : f \in got))
         /\ requests' = [requests EXCEPT !.plates = Batch(Missing(plates, data'))]

PlateAnswered(f) ==
    LET batch == requests.plates
    IN /\ f \in batch.waits
       /\ \/ /\ f \in DOMAIN Tree[sim]
             /\ BatchGoes(batch.waits \ {f}, batch.got \cup {f})
             /\ UNCHANGED <<astray, walkSpent>>
          \/ /\ IF f \in DOMAIN Tree[sim] THEN Fails ELSE UNCHANGED walkSpent
             /\ BatchGoes(batch.waits \ {f}, batch.got)
             /\ astray' = astray \cup {"plates"}
       /\ UNCHANGED <<sim, plates, table, meta, raiser, clicked, replay, skip, flop>>

WalkNext ==
    \/ \E f \in Plates, a \in Labels : ClickAction(f, a)
    \/ \E p \in Positions : ClickSeat(p)
    \/ \E b \in Solved : \E k \in 1 .. Len(b.line), a \in Labels : LeaveBoard(b, k, a)
    \/ ReplayMoves \/ SkipMoves \/ CloseModal
    \/ \E s \in Sims : PickSim(s) \/ MetadataAnswered(s)
    \/ \E i \in 1 .. Len(requests.picks) : OpenSim(i)
    \/ ListingAnswered
    \/ \E f \in Plates : PlateAnswered(f)

WalkSpec == WalkInit /\ [][WalkNext]_walkVars

-----------------------------------------------------------------------------
(* Properties.                                                              *)

LineType == Seq(Labels \cup {NoLabel})
RaiserType == [seat : Positions \cup {""}, at : Seq(Int)]
\* Type correctness.
WalkTypeOK ==
    /\ sim \in Sims /\ plates \in Seq(Plates) /\ data \in [Plates -> Sims \cup {0}]
    /\ mapping \in [Positions -> Plates \cup {NoPlate}]
    /\ table.line \in LineType /\ table.alive \subseteq Positions /\ table.active \in Positions
    /\ table.bets \in [Positions -> Nat] /\ table.pot \in Nat
    /\ meta \in Sims \cup {0}
    /\ requests.picks \in Seq([sim : Sims, from : Sims]) /\ requests.metas \in [Sims -> Nat]
    /\ requests.listing \in {"asked", "there", "none"}
    /\ requests.plates.waits \cup requests.plates.got \subseteq ToSet(plates)
    /\ raiser \in RaiserType
    /\ clicked \in [plate : Plates \cup {NoPlate}, action : Labels \cup {""}]
    /\ replay.actions \in LineType /\ replay.step \in 0 .. Len(replay.actions)
    /\ skip.seat \in Positions \cup {""} /\ skip.steps \in Nat
    /\ flop.sim \in Sims \cup {0} /\ flop.line \in LineType /\ flop.raiser \in RaiserType
    /\ flop.pot \in Nat /\ flop.modal \in BOOLEAN
    /\ astray \subseteq {"table", "plates"}
    /\ walkSpent \in [walked : 0 .. MaxWalked, events : 0 .. MaxEvents]

\* The seats and the chips that were kept click by click, by hand, by replays and by
\* skips, are those that seatNavigation.ts and usePreflopLineNodes.ts read off the
\* line, as long as the clicks were at the line's own node.
TableIsTheLine ==
    "table" \notin astray /\ Readable(table.line) =>
       LET up == UpAfter(sim, table.line)
           chips == Replayed(sim, table.line)
       IN /\ table.alive = ToSet(up) /\ table.active = Head(up)
          /\ table.bets = chips.bets /\ table.pot = chips.pot

\* The seat to act shows the node the line has come to, once its plate has come, and
\* no other plate of the seat takes over (handleActionClick.ts, Solver.tsx).
ActiveShowsItsNode ==
    astray = {} /\ Readable(table.line) =>
       LET f == NodeFile(table.line)
       IN f \in ToSet(plates) /\ data[f] # 0 => mapping[table.active] = f

\* The plates are those of the sim that is open, unless a batch was cut off.
PlatesOwn == "plates" \notin astray => \A f \in Plates : data[f] \in {0, sim}

\* The tree that is offered for the flop of the current line has the range of the
\* line's last raise, whoever folded or called after it.
RaisesOf(line) == {i \in 1 .. Len(line) : line[i] \notin {"Fold", "Call", "ALLIN"}}
FlopRaiserIsTheLines ==
    /\ flop.sim = sim /\ flop.line = table.line /\ "table" \notin astray
    /\ Readable(table.line) /\ RaisesOf(table.line) # {}
    => LET i == CHOOSE j \in RaisesOf(table.line) : \A k \in RaisesOf(table.line) : k <= j
       IN flop.raiser.at = NodeFile(SubSeq(table.line, 1, i))

\* A walk back or ahead ends: its next plate comes and is clicked, or it is given up,
\* unless plates were lost, cut off or never asked for.
WalkOwed == replay # NoReplay \/ skip # NoSkip
WalkMet == ~WalkOwed \/ "plates" \in astray
=============================================================================
