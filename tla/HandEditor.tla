----------------------------- MODULE HandEditor -----------------------------
(***************************************************************************)
(* The recorder around the engine (CreateHandHistory.tsx): the line of     *)
(* recorded actions, the undo and redo stacks, seat edits in mid-hand that *)
(* rebuild the engine by replaying the line, and a saved hand opened again *)
(* from its replay payload (replay.ts).  The chips are HandEngine's.       *)
(***************************************************************************)
EXTENDS HandEngine, SequencesExt

CONSTANTS EditedSeats, \* bound: seats that are edited
          Stacks,      \* stacks the seat editor may enter, as buildEngine reads them
          Rankings,    \* how the hands may rank once they are shown
          MaxEdits,    \* bound: seat and board edits, and hands after the first
          MaxUndone    \* bound: frames undone at once

ASSUME EditorAssumption ==
    /\ EditedSeats \subseteq Seats
    /\ Stacks \subseteq Nat \ {0}
    /\ Rankings \subseteq [Seats -> Nat]
    /\ MaxEdits \in Nat
    /\ MaxUndone \in Nat \ {0}

VARIABLES phase,    \* "setup" or "action"; the engine is null in the first
          line,     \* engine.streetActions: the actions recorded so far
          history,  \* frames to go back to, oldest first
          redo,     \* frames undone, newest last
          saved,    \* the payload of the hand being edited: none or one
          edits     \* edits made

editorVars == <<vars, phase, line, history, redo, saved, edits>>

-----------------------------------------------------------------------------
(* Frames and payloads. *)

Frame(e, l) == [e |-> e, line |-> l]
Current == Frame(engine, line)
Editing == saved # {}

\* What settleAction records: the total for a bet or raise (an all-in is one of
\* them, or a call), and nothing else for the rest.
Recorded(e, kind, to) ==
    LET f == Played(e, kind, to).committed[e.toAct]
        bet == e.currentBet = 0
    IN CASE kind = "allin" /\ MaxTo(e) > e.currentBet ->
                [kind |-> IF bet THEN "bet" ELSE "raise", to |-> f]
         [] kind = "allin" /\ MaxTo(e) <= e.currentBet -> [kind |-> "call", to |-> 0]
         [] kind \in {"bet", "raise"} -> [kind |-> kind, to |-> f]
         [] OTHER -> [kind |-> kind, to |-> 0]

\* One action on a frame; an engine that is over or waits for nobody ignores it.
Stepped(f, a) ==
    IF f.e.toAct = NoOne \/ f.e.done THEN f
    ELSE Frame(ApplyAction(f.e, a.kind, a.to), Append(f.line, Recorded(f.e, a.kind, a.to)))

\* rebuildFrames: the blinds, then one frame for every recorded action.
NextFrame(fs, a) == Append(fs, Stepped(Last(fs), a))
RebuildFrames(t, l) ==
    LET upto[n \in 0 .. Len(l)] ==
            IF n = 0 THEN <<Frame(BuildEngine(t), <<>>)>> ELSE NextFrame(upto[n - 1], l[n])
    IN upto[Len(l)]
Rebuilt(t, l) == Last(RebuildFrames(t, l))

\* Mutation: the winners are not put back.
WonByNone(e, w, w2) == e
\* The winners that were there are put on the last frame, if there were any.
WonBy(e, w, w2) ==
    LET one == IF w = Undecided THEN e ELSE SetWinners(e, w, 1)
    IN IF w2 = Undecided THEN one ELSE SetWinners(one, w2, 2)

\* buildReplayData and what buildEditInit and the replayer make of it.
Payload == [setup |-> setup, line |-> line, winners |-> engine.winners,
            winners2 |-> engine.winners2, cards |-> cards]
Resolved2(d) == IF d.setup.boards = 2 THEN d.winners2 ELSE Undecided
EndOf(f, w, w2) == Frame(WonBy(f.e, w, w2), f.line)
Resolution(d) == EndOf(Rebuilt(d.setup, d.line), d.winners, Resolved2(d))

\* The replayer deals a closed street card by card (reconstructFrames): the
\* action as it was settled, then what it led to.
OneMore(d, step) == [es |-> Append(d.es, step.e), from |-> step.e, status |-> step.status]
Onward(d) == IF d.status = "runout" THEN OneMore(d, StepStreet(d.from)) ELSE d
Shows(s) ==
    LET dealt[n \in 0 .. River] ==
            IF n = 0 THEN [es |-> <<s.e>>, from |-> ReturnUncalled(s.e), status |-> "runout"]
            ELSE Onward(dealt[n - 1])
    IN CASE s.close = "none" -> <<s.e>>
         [] s.close = "foldout" -> <<s.e, FinishHand(s.e)>>
         [] s.close = "advance" -> dealt[River].es
ReplayStep(es, a) == es \o Shows(SettleAction(Last(es), a.kind, a.to))
Replayed(d, es) == Append(Front(es), WonBy(Last(es), d.winners, Resolved2(d)))
ReconstructFrames(d) ==
    LET upto[n \in 0 .. Len(d.line)] ==
            IF n = 0 THEN <<BuildEngine(d.setup)>> ELSE ReplayStep(upto[n - 1], d.line[n])
    IN Replayed(d, upto[Len(d.line)])

-----------------------------------------------------------------------------
(* The recorder's steps. *)

EditorInit == /\ setup \in Tables
              /\ engine = EmptyEngine(setup)
              /\ cards = NoCards
              /\ hands = 1
              /\ phase = "setup"
              /\ line = <<>> /\ history = <<>> /\ redo = <<>>
              /\ saved = {}
              /\ edits = 0

Show(f) == engine' = f.e /\ line' = f.line

Start == /\ phase = "setup"
         /\ Cardinality(setup.active) >= 2
         /\ Show(Frame(BuildEngine(setup), <<>>))
         /\ phase' = "action"
         /\ history' = <<>> /\ redo' = <<>>
         /\ UNCHANGED <<setup, cards, hands, saved, edits>>

\* Any action of the panel: the frame goes on the undo stack, and the undone
\* frames are dropped, since they no longer follow.
Allowed == {[kind |-> "fold", to |-> 0]}
    \cup (IF ToCall(engine) <= 0 THEN {[kind |-> "check", to |-> 0]} ELSE {})
    \cup (IF ToCall(engine) > 0 /\ engine.stack[engine.toAct] > 0
          THEN {[kind |-> "call", to |-> 0]} ELSE {})
    \cup (IF CanBet \/ CanRaise
          THEN {[kind |-> IF CanBet THEN "bet" ELSE "raise", to |-> to] :
                    to \in Sizes \ {MaxTo(engine)}}
               \cup {[kind |-> "allin", to |-> 0]}
          ELSE {})

Act == /\ phase = "action" /\ ToAct
       /\ \E a \in Allowed : Show(Stepped(Current, a))
       /\ history' = Append(history, Current)
       /\ redo' = <<>>
       /\ UNCHANGED <<setup, cards, hands, phase, saved, edits>>

\* The panel is gone once the hand is over; only the edit mode keeps an Undo
\* beside the result.
Undo == /\ phase = "action" /\ history # <<>>
        /\ ~engine.done \/ (Editing /\ Resolved(engine))
        /\ Len(redo) < MaxUndone
        /\ Show(Last(history))
        /\ history' = Front(history)
        /\ redo' = Append(redo, Current)
        /\ UNCHANGED <<setup, cards, hands, phase, saved, edits>>

Redo == /\ phase = "action" /\ ~engine.done /\ redo # <<>>
        /\ Show(Last(redo))
        /\ redo' = Front(redo)
        /\ history' = Append(history, Current)
        /\ UNCHANGED <<setup, cards, hands, phase, saved, edits>>

\* Mutation: only the engine is rebuilt.
ReplacedKeepsHistory(t) ==
    \E fs \in {RebuildFrames(t, line)} :
       /\ Show(EndOf(Last(fs), engine.winners, engine.winners2))
       /\ history' = history /\ redo' = <<>>
\* The engine and the undo stack are rebuilt from the edited table and the
\* recorded line, and the winners are put back.
Replaced(t) ==
    \E fs \in {RebuildFrames(t, line)} :
       /\ Show(EndOf(Last(fs), engine.winners, engine.winners2))
       /\ history' = Front(fs) /\ redo' = <<>>

\* The straddle box of a seat: the form's own straddle when the seat is the one
\* it derives, else the one pinned to the seat (amount 0: unchecked).
StraddleSet(t, p, amount) ==
    LET utg == IF t.utg = 0 THEN NoOne ELSE Clockwise(t.active, BigBlindOf(t))
        prior == PinnedElsewhere(t.straddles, utg)
        post == [seat |-> p, amount |-> amount]
    IN IF p = utg THEN [t EXCEPT !.utg = amount, !.straddles = prior]
       ELSE IF amount = 0
       THEN [t EXCEPT !.straddles = PinnedElsewhere(prior, p)]
       ELSE IF \E i \in DOMAIN prior : prior[i].seat = p
       THEN [t EXCEPT !.straddles = [i \in DOMAIN prior |->
                                       IF prior[i].seat = p THEN post ELSE prior[i]]]
       ELSE [t EXCEPT !.straddles = Append(prior, post)]

\* saveSeat in mid-hand: a stack, the button, or the straddle of one seat.
EditedTables ==
    UNION {{[setup EXCEPT !.stack[p] = n] : n \in Stacks}
           \cup {[setup EXCEPT !.button = p]}
           \cup {StraddleSet(setup, p, amount) : amount \in {0, 2 * BigBlind}} :
               p \in setup.active \cap EditedSeats}

EditSeat == /\ edits < MaxEdits
            /\ \E t \in EditedTables \ {setup} :
                 /\ setup' = t
                 /\ IF phase = "action" THEN Replaced(t)
                    ELSE engine' = EmptyEngine(t) /\ UNCHANGED <<line, history, redo>>
            /\ edits' = edits + 1
            /\ UNCHANGED <<cards, hands, phase, saved>>

\* The cards decide as soon as the hand is over and they are all there, or the
\* user picks the winners.
Shown == {c \in [known : BOOLEAN, rank : [1 .. 2 -> Rankings]] :
            engine.boards = 1 => c.rank[2] = c.rank[1]}
Decide == /\ phase = "action" /\ engine.done /\ ~Resolved(engine)
          /\ \E c \in Shown, W, W2 \in (SUBSET Live(engine)) \ {{}} :
               /\ c.known => /\ W = Best(Live(engine), c.rank[1])
                             /\ W2 = Best(Live(engine), c.rank[2])
               /\ engine.boards = 1 => W2 = W
               /\ cards.known => c = cards
               /\ engine' = IF engine.boards = 2
                            THEN SetWinners(SetWinners(engine, W, 1), W2, 2)
                            ELSE SetWinners(engine, W, 1)
               /\ cards' = c
          /\ UNCHANGED <<setup, hands, phase, line, history, redo, saved, edits>>

\* A card of the board or of a hand changes after the hand was decided: the
\* deciding effect looks for missing winners only.
EditCards == /\ phase = "action" /\ Resolved(engine) /\ Cardinality(Live(engine)) > 1
             /\ edits < MaxEdits
             /\ cards' \in {c \in Shown : c.known} \ {cards}
             /\ edits' = edits + 1
             /\ UNCHANGED <<setup, engine, hands, phase, line, history, redo, saved>>

\* The engine goes, and the undone frames; start() drops the undo stack.
BackToSetup == /\ phase = "action"
               /\ phase' = "setup"
               /\ engine' = EmptyEngine(setup) /\ line' = <<>>
               /\ redo' = <<>>
               /\ UNCHANGED <<setup, cards, hands, history, saved, edits>>

\* Where the edit mode opens: one step before the end, with the resolved end on
\* the redo stack.
OpenBefore(fs, end) ==
    IF fs = <<>> THEN Show(end) /\ history' = <<>> /\ redo' = <<>>
    ELSE Show(Last(fs)) /\ history' = Front(fs) /\ redo' = <<end>>
OpenAt(d) == /\ setup' = d.setup
             /\ \E fs \in {RebuildFrames(d.setup, d.line)}, end \in {Resolution(d)} :
                   OpenBefore(Front(fs), end)

\* The hand is saved (HandSave) and opened again in the edit mode.
EditSaved == /\ phase = "action" /\ Resolved(engine) /\ ~Editing
             /\ saved' = {Payload}
             /\ OpenAt(Payload)
             /\ UNCHANGED <<cards, hands, phase, edits>>

\* "Restore original", offered beside the result.
Restore == /\ phase = "action" /\ Resolved(engine) /\ Editing
           /\ \E d \in saved : OpenAt(d) /\ cards' = d.cards
           /\ UNCHANGED <<hands, phase, saved, edits>>

\* "Record another": setup form, with the tables of the result.
Another ==
    LET next == NextTable(setup, engine, cards) IN
    /\ phase = "action" /\ Resolved(engine) /\ ~Editing /\ hands < MaxHands /\ edits < MaxEdits
    /\ Cardinality(next.active) >= 2
    /\ setup' = next /\ phase' = "setup"
    /\ engine' = EmptyEngine(next) /\ line' = <<>>
    /\ history' = <<>> /\ redo' = <<>>
    /\ cards' = NoCards
    /\ hands' = hands + 1 /\ edits' = edits + 1
    /\ UNCHANGED saved

EditorNext == \/ Start \/ Act \/ Undo \/ Redo \/ EditSeat \/ Decide \/ EditCards
              \/ BackToSetup \/ EditSaved \/ Restore \/ Another

EditorSpec == EditorInit /\ [][EditorNext]_editorVars

-----------------------------------------------------------------------------
(* Properties. *)

EditorTypeOK ==
    /\ TypeOK
    /\ phase \in {"setup", "action"}
    /\ Range(line) \subseteq [kind : {"fold", "check", "call", "bet", "raise"}, to : Nat]
    /\ \A f \in Range(history) \cup Range(redo) \cup {Current} :
          f.e.stack \in [Seats -> Nat] /\ f.e.committed \in [Seats -> Nat]
    /\ Cardinality(saved) <= 1
    /\ Len(redo) <= MaxUndone /\ edits <= MaxEdits

\* Every frame on a stack is what the table as it is now makes of the frame's
\* own actions, and each frame goes on from the one before it: a frame from
\* before a seat edit is never shown again (saveSeat, act, undo, redo).
Bare(e) == [e EXCEPT !.winners = Undecided, !.winners2 = Undecided]
Follows(f) == LET g == Rebuilt(setup, f.line) IN Bare(f.e) = Bare(g.e) /\ f.line = g.line
FramesFollow ==
    phase = "action" =>
        LET all == Append(history, Current) \o Reverse(redo) IN
        /\ \A i \in DOMAIN all : Follows(all[i])
        /\ \A i \in 1 .. Len(all) - 1 : IsPrefix(all[i].line, all[i + 1].line)

\* A saved hand comes back as it was: its payload rebuilds the frame it was
\* taken from, and the replayer ends there, having shown every frame the
\* recorder went through (replay.ts, its opening comment).
ReplayFaithful ==
    phase = "action" /\ Resolved(engine) =>
        \A d \in {Payload} : \A shown \in {ReconstructFrames(d)} :
            /\ Resolution(d) = Current
            /\ Last(shown) = engine
            /\ \A i \in DOMAIN history : \E j \in DOMAIN shown : Bare(shown[j]) = Bare(history[i].e)

\* The frames of a line, kept on the stacks or made again from what is saved, are
\* one story of the hand (CreateHandHistory.tsx and replay.ts tell it apart).
FramesFaithful == FramesFollow /\ ReplayFaithful
=============================================================================
