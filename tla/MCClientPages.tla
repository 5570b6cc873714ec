--------------------------- MODULE MCClientPages ---------------------------
(* ClientPages for TLC: a sim of three players and one of two, four results   *)
(* to compare, two libraries and seven sets of cards.                        *)
EXTENDS ClientPages, TLC

MCStored == {[up |-> u, at |-> [t \in SavedTrees |-> 1]] : u \in {<<2, 3, 0>>, <<0, 1, 0>>}}
MCHoles == {<<"x", "k", "b">>}
CardsOf(i, v, f, d) == [id |-> i, valid |-> v, flop |-> f, double |-> d]
MCCardSets ==
    {CardsOf(1, FALSE, FALSE, FALSE), CardsOf(2, TRUE, FALSE, FALSE), CardsOf(3, TRUE, TRUE, FALSE),
     CardsOf(4, TRUE, TRUE, FALSE), CardsOf(5, TRUE, FALSE, TRUE), CardsOf(6, TRUE, TRUE, TRUE),
     CardsOf(7, FALSE, FALSE, TRUE)}
MCSpotOf == 2 :> 2 @@ 3 :> 1 @@ 4 :> 1 @@ 5 :> 2
MCPartsOf == 2 :> {"ht", "pio"} @@ 3 :> {"ht"} @@ 4 :> {"ht", "sampled", "pio"} @@ 5 :> {"ht", "pio"}
MCSims == {1, 2}
MCPlayers == <<3, 2>>
MCAnte == <<2, 0>>
MCStack == <<20, 30>>
MCTree == << <<>> :> {"Fold", "Min", "Raise100"} @@ <<0>> :> {"Fold", "Call"} @@ <<0, 1>> :> {"Call"}
             @@ <<5>> :> {"Fold", "Call"} @@ <<5, 0>> :> {"Fold", "Call"} @@ <<5, 1>> :> {"Call"}
             @@ <<40100>> :> {"Fold", "Call"},
             <<>> :> {"Call"} @@ <<1>> :> {"Call"} >>
MCSolved == {[sim |-> 1, line |-> <<"Min", "Fold", "Call">>]}
=============================================================================
