------------------------------ MODULE HandPages ------------------------------
(***************************************************************************)
(* The pages of the hands, one route at a time: the recorder's table, the  *)
(* save of a recorded hand and the equities of its showdown, the list and  *)
(* the replay.  Each keeps its state in hooks of its own: while one is     *)
(* open the others are as they are before their first visit, and what is   *)
(* true of a page is true of it here.                                      *)
(***************************************************************************)
EXTENDS HandEditor, HandSave, HandList, HandReplay, ShowdownEquity

VARIABLE route

handPagesVars == <<editorVars, saveVars, listVars, replayVars, equityVars, route>>

Open(p) == route = p

\* Pages that are not open start in one way.
RecorderOne == setup = CHOOSE t \in Tables : TRUE
ListOne == device = (CHOOSE d \in DeviceHands : TRUE) /\ ~account
ReplayOne == row = NoText /\ onDevice = NoText /\ cachedText = NoText /\ ~user /\ ~load.shared

HandPagesInit ==
    /\ EditorInit /\ (route = "recorder" \/ RecorderOne)
    /\ SaveInit /\ EquityInit
    /\ ListInit /\ (route = "list" \/ ListOne)
    /\ ReplayInit /\ (route = "replay" \/ ReplayOne)

\* A page that is not open is left alone.
Stays(p, vs) == IF Open(p) THEN TRUE ELSE UNCHANGED vs
HandPagesStay == /\ UNCHANGED route
                 /\ Stays("save", saveVars) /\ Stays("list", listVars)
                 /\ Stays("replay", replayVars) /\ Stays("showdown", equityVars)
OthersStay == HandPagesStay /\ Stays("recorder", editorVars)

HandPagesNext == /\ \/ Open("recorder") /\ EditorNext
                    \/ Open("save") /\ SaveNext
                    \/ Open("list") /\ ListNext
                    \/ Open("replay") /\ ReplayNext
                    \/ Open("showdown") /\ EquityNext
                 /\ OthersStay

HandPagesSpec == /\ route \in {"recorder", "save", "list", "replay", "showdown"}
                 /\ HandPagesInit
                 /\ [][HandPagesNext]_handPagesVars

-----------------------------------------------------------------------------
(* Fairness: what the browser and the network do by themselves while a page *)
(* is open.  Requests are answered or fail, workers finish, timers and      *)
(* effects run; no click is owed, and the recorder waits for its user.      *)

HandsFair ==
    \* The server reads what it was asked for.
    /\ WF_handPagesVars(( \/ Open("list") /\ ListRead
                          \/ Open("replay") /\ ServeText) /\ OthersStay)
    \* A request is answered, or has failed.
    /\ WF_handPagesVars(( \/ Open("save") /\ (SaveDone \/ SaveFails)
                          \/ Open("list") /\ (ListArrives \/ ListFails)) /\ OthersStay)
    \* Workers end (samples are capped), the playback's interval ticks, effects run.
    /\ WF_handPagesVars(( \/ Open("save") /\ EquityReady
                          \/ Open("showdown") /\ \E i \in {1, 2} : Converge(i)
                          \/ Open("replay") /\ (Tick \/ ResetEffect \/ EndPlayback)) /\ OthersStay)
    \* The text waits for the effects of a commit: its turn comes again and again,
    \* but not without a break.
    /\ SF_handPagesVars(Open("replay") /\ (TextArrives \/ Miss) /\ OthersStay)

-----------------------------------------------------------------------------
(* Properties: each is several of the pages', named where they are stated.  *)

\* Type correctness of every page.
HandPagesTypeOK == EditorTypeOK /\ SaveTypeOK /\ ListTypeOK /\ ReplayTypeOK /\ EquityTypeOK

\* A hand is saved once and then left, and taken over to the account once and
\* never lost (CreateHandHistory.tsx, HandHistoryTool.tsx).
HandsKept == StoredOnce /\ LeavesWhenSaved /\ NoHandLost /\ MigratedOnce

\* What a page shows is there and is the hand's own: a frame of the replay, a text
\* of the cache, the equities of the cards (HandReplay.tsx, useShowdownEquity.ts).
HandViewsAreOwn == FrameExists /\ CachedReplayStays /\ FirstIsOwn

\* Whatever a page waits for comes or fails: a save, a list, a replay, equities.
\* What is owed, and what settles it, is said at the end of the page's own module.
HandPageOwes == \/ Open("save") /\ SaveOwed
                \/ Open("list") /\ ListOwed
                \/ Open("replay") /\ ReplayOwed
                \/ Open("showdown") /\ EquityOwed
HandPageSettled == \/ Open("save") /\ SaveMet
                   \/ Open("list") /\ ListMet
                   \/ Open("replay") /\ ReplayMet
                   \/ Open("showdown") /\ EquityMet
HandPagesSettle == HandPageOwes ~> HandPageSettled
=============================================================================
