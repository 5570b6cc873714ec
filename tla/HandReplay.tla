----------------------------- MODULE HandReplay -----------------------------
(***************************************************************************)
(* The replay of one hand in a tab of its own (HandReplay.tsx): where its  *)
(* text comes from, the newer text that takes its place, and the cursor    *)
(* and the playback that run over its frames meanwhile.                    *)
(*                                                                         *)
(* A text is the number of its last frame: all the replay needs of it.  (A *)
(* text without a replay is shown as unavailable, and is left out.)  A     *)
(* render that finds no frame under the cursor throws, and since nothing   *)
(* in the app catches it the tab is blank from then on.                    *)
(***************************************************************************)
EXTENDS Integers, FiniteSets

CONSTANTS Texts,        \* texts a hand may have: the last frame of each
          MaxTextEdits,     \* bound: edits of the hand on another page or device
          MaxSessions   \* bound: sign-ins and sign-outs behind the tab

ASSUME ReplayAssumption == Texts \subseteq Nat /\ MaxTextEdits \in Nat /\ MaxSessions \in Nat

NoText == -1
MaybeText == Texts \cup {NoText}

VARIABLES
  row,      \* the text the API would answer with
  onDevice, \* the text of the device's own store
  cachedText, \* the text of the cross-tab cache
  user,     \* the user the page is rendered with
  load,     \* the load state and what it came from
  get,      \* the fetch of the last load effect
  player,   \* cursor, playing, and the text they were last reset for
  replaySpent \* edits and sessions so far

replayVars == <<row, onDevice, cachedText, user, load, get, player, replaySpent>>

NoGet == [stage |-> "none", text |-> NoText]
Held == UNCHANGED <<row, onDevice, cachedText, user, replaySpent>>

-----------------------------------------------------------------------------
(* Loading. *)

\* The load effect: the device's own store, then the cache and the API behind it;
\* a shared link asks the API only.  An earlier fetch is cancelled.
LoadState(shared, u) ==
    LET hit == ~shared /\ cachedText # NoText
        ask == shared \/ u
    IN IF ~shared /\ onDevice # NoText
         THEN [shared |-> FALSE, status |-> "ready", text |-> onDevice, hit |-> FALSE, ask |-> FALSE]
         ELSE [shared |-> shared, hit |-> hit, ask |-> ask,
               status |-> IF hit THEN "ready" ELSE IF ask THEN "loading" ELSE "missing",
               text |-> IF hit THEN cachedText ELSE NoText]
\* A page that has thrown is unmounted, and its fetch with it.
TextAsked(l) == IF l.ask /\ l.status # "broken" THEN [stage |-> "sent", text |-> NoText] ELSE NoGet

\* A new tab knows no user before the session is restored.
ReplayInit == /\ row \in MaybeText /\ onDevice \in MaybeText /\ cachedText \in MaybeText
              /\ onDevice # NoText => row = NoText
              /\ user = FALSE
              /\ \E shared \in BOOLEAN : load = LoadState(shared, FALSE)
              /\ get = TextAsked(load)
              /\ player = [cursor |-> 0, playing |-> FALSE, text |-> load.text]
              /\ replaySpent = [edits |-> 0, sessions |-> 0]

\* The first commit with another text is followed by its reset, and a playback
\* that has reached the end by its stop, before anything else happens.
Mounted == load.status # "broken"
IsReset == player.text = load.text
AtEnd == player.cursor >= load.text
LoadSettled == Mounted /\ IsReset /\ ~(player.playing /\ AtEnd)

\* The render comes before the reset: a text that ends before the cursor has no
\* frame for it, and legalActions(undefined) throws.
Rendered(l) == IF l.status = "ready" /\ player.cursor > l.text
               THEN [l EXCEPT !.status = "broken", !.text = NoText] ELSE l

UserChanges == /\ LoadSettled /\ replaySpent.sessions < MaxSessions
               /\ user' = ~user
               /\ load' = Rendered(LoadState(load.shared, user'))
               /\ get' = TextAsked(load')
               /\ replaySpent' = [replaySpent EXCEPT !.sessions = @ + 1]
               /\ UNCHANGED <<row, onDevice, cachedText, player>>

ServeText == /\ get.stage = "sent"
             /\ get' = [stage |-> "read", text |-> row]
             /\ Held /\ UNCHANGED <<load, player>>

\* Mutation: a fetch that fails is the end of the replay.
MissedAlways(l) == [l EXCEPT !.status = "missing", !.text = NoText]
\* A cached copy is still a working replay; only a cold miss is fatal.
Missed(l) == IF l.hit THEN l ELSE [l EXCEPT !.status = "missing", !.text = NoText]

TextArrives == /\ get.stage = "read" /\ LoadSettled /\ get.text # NoText
               /\ load' = Rendered([load EXCEPT !.status = "ready", !.text = get.text])
               /\ cachedText' = IF load.shared THEN cachedText ELSE get.text
               /\ get' = NoGet
               /\ UNCHANGED <<row, onDevice, user, player, replaySpent>>

\* No such hand, a refusal, or no answer.
Miss == /\ get.stage = "read" /\ LoadSettled
        /\ load' = Missed(load)
        /\ get' = NoGet
        /\ Held /\ UNCHANGED player

\* The hand is edited or deleted elsewhere; lists fill the cache and deletions and
\* edits on this device take the text out of it.
Edit == /\ replaySpent.edits < MaxTextEdits
        /\ \/ row # NoText /\ row' \in MaybeText \ {row} /\ UNCHANGED cachedText
           \/ cachedText' \in {row, NoText} \ {cachedText} /\ UNCHANGED row
        /\ replaySpent' = [replaySpent EXCEPT !.edits = @ + 1]
        /\ UNCHANGED <<onDevice, user, load, get, player>>

-----------------------------------------------------------------------------
(* Playing. *)

\* Mutation: only the playback is stopped.
RestartedInPlace(p) == [p EXCEPT !.playing = FALSE, !.text = load.text]
\* The reset effect.
Restarted(p) == [cursor |-> 0, playing |-> FALSE, text |-> load.text]
ResetEffect == /\ Mounted /\ ~IsReset /\ player' = Restarted(player)
               /\ Held /\ UNCHANGED <<load, get>>

Playable == LoadSettled /\ load.status = "ready"
Scrub == /\ Playable
         /\ \E c \in {0, player.cursor - 1, player.cursor + 1, load.text} \cap 0 .. load.text :
              player' = [player EXCEPT !.playing = FALSE, !.cursor = c]
         /\ Held /\ UNCHANGED <<load, get>>
TogglePlay == /\ Playable
              /\ player' = IF AtEnd THEN [player EXCEPT !.cursor = 0, !.playing = TRUE]
                                    ELSE [player EXCEPT !.playing = ~@]
              /\ Held /\ UNCHANGED <<load, get>>
Tick == /\ Playable /\ player.playing
        /\ player' = [player EXCEPT !.cursor = @ + 1]
        /\ Held /\ UNCHANGED <<load, get>>

\* Mutation: the playback waits for one step more than there is.
PlayedLate == player.playing /\ player.cursor > load.text
Ticked == player.playing /\ AtEnd
EndPlayback == /\ Mounted /\ IsReset /\ Ticked
               /\ player' = [player EXCEPT !.playing = FALSE]
               /\ Held /\ UNCHANGED <<load, get>>

ReplayNext == \/ UserChanges \/ ServeText \/ TextArrives \/ Miss \/ Edit
              \/ ResetEffect \/ Scrub \/ TogglePlay \/ Tick \/ EndPlayback

ReplaySpec == ReplayInit /\ [][ReplayNext]_replayVars

-----------------------------------------------------------------------------
(* Properties. *)

ReplayTypeOK == /\ row \in MaybeText /\ onDevice \in MaybeText /\ cachedText \in MaybeText
                /\ load.status \in {"loading", "ready", "missing", "broken"}
                /\ load.text \in MaybeText /\ (load.status = "ready" <=> load.text # NoText)
                /\ get.stage \in {"none", "sent", "read"} /\ get.text \in MaybeText
                /\ player.cursor \in Nat /\ player.text \in MaybeText

\* The page has the frame it shows, and throws only where a newer text of the hand
\* has taken the place of a cached copy, the cursor past its end: never a replay
\* of the device's own store, of a shared link, or that had to wait for its text.
FrameExists == /\ load.status = "ready" => player.cursor <= load.text
               /\ load.status = "broken" => load.hit /\ ~load.shared

\* A replay that was painted from the cache is not lost to the request behind it, which
\* may fail or find nothing: unless a shorter text comes, it stays.
CachedReplayStays == load.hit => load.status \in {"ready", "broken"}

\* A playback comes to its end, and a hand that is being loaded is shown or missed,
\* however the user scrubs, on a page that has not thrown.
ReplayMet == ~Mounted \/ (~player.playing /\ load.status # "loading")
ReplayOwed == ~ReplayMet
=============================================================================
