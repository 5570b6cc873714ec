----------------------------- MODULE ClientPages -----------------------------
(***************************************************************************)
(* The pages of the solver and its tools, one route at a time: the preflop *)
(* tree and the solved boards of the solver page, the compare page, the    *)
(* saved trees and the equity calculator.  Each keeps its state in hooks   *)
(* of its own: while one is open the others are as they are before their   *)
(* first visit, and what is true of a page is true of it here.             *)
(***************************************************************************)
EXTENDS PreflopWalk, PostflopSession, CompareBench, SavedLibrary, EquityCalculator

VARIABLE route

pagesVars == <<walkVars, sessionVars, benchVars, libraryVars, calcVars, route>>

Routes == {"preflop", "board", "compare", "library", "equity"}
Open(p) == route = p

\* Pages that are not open start in one way.
LibraryOne == libraryRows[1] = CHOOSE l \in StoredTrees : TRUE
CalcOne == cards = CHOOSE c \in CardSets : ~c.valid

PagesInit ==
    /\ route \in Routes
    /\ WalkInit /\ SessionInit /\ BenchInit
    /\ LibraryInit /\ (route = "library" \/ LibraryOne)
    /\ CalcInit /\ (route = "equity" \/ CalcOne)

\* A page that is not open is left alone.
Stays(p, vars) == IF Open(p) THEN TRUE ELSE UNCHANGED vars
OthersStay == /\ UNCHANGED route
              /\ Stays("preflop", walkVars) /\ Stays("board", sessionVars)
              /\ Stays("compare", benchVars) /\ Stays("library", libraryVars)
              /\ Stays("equity", calcVars)

PagesNext == /\ \/ Open("preflop") /\ WalkNext
                \/ Open("board") /\ SessionNext
                \/ Open("compare") /\ BenchNext
                \/ Open("library") /\ LibraryNext
                \/ Open("equity") /\ CalcNext
             /\ OthersStay

PagesSpec == PagesInit /\ [][PagesNext]_pagesVars

-----------------------------------------------------------------------------
(* Fairness: what the browser and the network do by themselves while a page *)
(* is open.  Requests are answered or fail, workers finish, timers and      *)
(* effects run; no click is owed.  One page is open, so that what is fair   *)
(* to each of these is fair to each of its pages.                           *)

\* The server reads what it was asked for; the parts of a result come one by one.
Served == \/ Open("library") /\ ServeLibrary
          \/ Open("compare") /\ ALoadProceeds
\* A request is answered, or has failed; a poll has its attempts and its deadline.
Answered == \/ Open("preflop") /\ \E f \in Plates : PlateAnswered(f)
            \/ Open("board") /\ AnAwaitEnds
            \/ Open("compare") /\ ((\E j \in Jobs : Created(j)) \/ PollReads \/ PollFails \/ DeadlinePasses)
            \/ Open("library") /\ (LibraryArrives \/ FetchFails)
\* Workers end, effects run.
RunsOn == \/ Open("preflop") /\ (ReplayMoves \/ SkipMoves)
          \/ Open("compare") /\ ResultLoaded
          \/ Open("equity") /\ Enumeration(1)

PagesFairSpec ==
    /\ PagesSpec
    /\ WF_pagesVars(Served /\ OthersStay)
    /\ WF_pagesVars(Answered /\ OthersStay)
    /\ WF_pagesVars(RunsOn /\ OthersStay)

-----------------------------------------------------------------------------
(* Properties: each is several of the pages', named where they are stated.  *)

\* Type correctness of every page.
PagesTypeOK == WalkTypeOK /\ SessionTypeOK /\ BenchTypeOK /\ LibraryTypeOK /\ CalcTypeOK

\* What stands together on the screen belongs together: the parts of a preflop line,
\* of a solved board, of a compared solve (Solver.tsx, usePostflopSession.ts,
\* SolverCompare.tsx), ...
SolverViewsAgree == /\ TableIsTheLine /\ ActiveShowsItsNode /\ PlatesOwn /\ FlopRaiserIsTheLines
                    /\ LineIsPath /\ OneBoard /\ PendingIsAwaited
                    /\ OneSpotShown /\ NeverStacked /\ NewestIsShown

\* ... the library of the user, and the figures of the cards they stand beside
\* (useSavedTrees.ts, EquityCalc.tsx).
ToolsShowOwn == CacheMirrors /\ ShownIsOwn /\ NothingForIncomplete /\ PoolIsForTheCards
ViewsAgree == SolverViewsAgree /\ ToolsShowOwn

\* Whatever a page waits for comes or fails: a walk, a street, a solve, a library,
\* equities.  What is owed, and what settles it, is said at the end of the page's own
\* module.
PageOwes == \/ Open("preflop") /\ WalkOwed
            \/ Open("board") /\ PendingOwed
            \/ Open("compare") /\ SolveOwed
            \/ Open("library") /\ LibraryOwed
            \/ Open("equity") /\ FiguresOwed
PageSettled == \/ Open("preflop") /\ WalkMet
               \/ Open("board") /\ PendingMet
               \/ Open("compare") /\ ~SolveOwed
               \/ Open("library") /\ LibraryMet
               \/ Open("equity") /\ FiguresMet
PagesSettle == PageOwes ~> PageSettled
=============================================================================
