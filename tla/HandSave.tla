------------------------------ MODULE HandSave ------------------------------
(***************************************************************************)
(* What happens to a recorded hand once it is over (CreateHandHistory.tsx, *)
(* signed in): the auto-save, which waits for the showdown's equities, the *)
(* offer to solve the spot, which keeps the recorder on the screen while   *)
(* the save goes on behind it, and the page change that ends both.         *)
(*                                                                         *)
(* A hand is a number; its text is not modelled.  The refs of the page     *)
(* outlive "Record another", its state does not, and both end with it.     *)
(***************************************************************************)
EXTENDS Integers, FiniteSets

CONSTANTS MaxRecorded,     \* bound: hands recorded on one visit
          MaxFaults,    \* bound: saves that fail or are answered in vain
          MaxReopened   \* bound: times the table is set up again

ASSUME SaveAssumption == MaxRecorded \in Nat \ {0} /\ MaxFaults \in Nat /\ MaxReopened \in Nat

RecordedHands == 1 .. MaxRecorded
NoHand == 0
Pending == -1            \* a promise of an id that has not been kept

VARIABLES
  page,    \* "recorder", or "list" once it has navigated
  hand,    \* the hand on the table: its number, and what it is
  refs,    \* autoSavedRef, solveOfferedRef, savedRef, pendingNavRef, savedHandIdRef
  modal,   \* the yes/no prompt, the tree-building panel, or neither
  post,    \* the save in flight
  failed,  \* saveError is shown
  upload,  \* the solve that is being uploaded
  timers,  \* finishSolveFlow calls that are due in 2.4 s
  stored,    \* what the server has stored, per hand
  spent    \* faults and reopenings so far

saveVars == <<page, hand, refs, modal, post, failed, upload, timers, stored, spent>>

\* equity: nothing to compute, being computed, or there.
HandType == [n : RecordedHands, over : BOOLEAN, eligible : BOOLEAN, equity : {"none", "computing", "ready"}]
RefsType == [autoSaved : BOOLEAN, offered : BOOLEAN, saved : {"idle", "ok", "error"},
             pendingNav : BOOLEAN, id : RecordedHands \cup {NoHand, Pending}]
NoPost == [hand |-> NoHand, defer |-> FALSE]
NoUpload == [stage |-> "none", hand |-> NoHand, link |-> NoHand]
UploadType == [stage : {"none", "linking", "sending"}, hand : RecordedHands \cup {NoHand},
               link : RecordedHands \cup {NoHand, Pending}]

Fresh(n) == [n |-> n, over |-> FALSE, eligible |-> FALSE, equity |-> "none"]
Saving == post # NoPost
On == page = "recorder"

SaveInit == /\ page = "recorder" /\ hand = Fresh(1)
            /\ refs = [autoSaved |-> FALSE, offered |-> FALSE, saved |-> "idle",
                       pendingNav |-> FALSE, id |-> NoHand]
            /\ modal = "none" /\ post = NoPost /\ failed = FALSE
            /\ upload = NoUpload /\ timers = 0
            /\ stored = [n \in RecordedHands |-> 0]
            /\ spent = [faults |-> 0, reopened |-> 0]

-----------------------------------------------------------------------------
(* Saving. *)

\* Mutation: the save is taken for the next hand's.
PostedNext(n, defer) == [hand |-> n + 1, defer |-> defer]
\* saveHand up to its await: an armed promise stays the one it is.
Posted(n, defer) == [hand |-> n, defer |-> defer]

\* Mutation: every change of the text saves.
AutoSaveDueAlways(h, r) == h.over /\ h.equity # "computing" /\ ~Saving
\* Mutation: the offer has to be answered first.
AutoSaveDueAnswered(h, r) ==
    h.over /\ h.equity # "computing" /\ ~r.autoSaved /\ ~Saving /\ ~h.eligible
\* The auto-save effect: once per recorded hand, when its equities are there.
AutoSaveDue(h, r) == h.over /\ h.equity # "computing" /\ ~r.autoSaved /\ ~Saving

\* The effects of a commit with the hand h: the auto-save, then the offer.
Effects(h) ==
    LET save == AutoSaveDue(h, refs)
        offer == h.over /\ h.eligible /\ ~refs.offered
    IN /\ hand' = h
       /\ post' = IF save THEN Posted(h.n, h.eligible) ELSE post
       /\ failed' = (failed /\ ~save)
       /\ refs' = [refs EXCEPT !.autoSaved = @ \/ save,
                               !.offered = @ \/ offer,
                               !.id = IF save \/ offer THEN Pending ELSE @]
       /\ modal' = IF offer THEN "prompt" ELSE modal

\* The hand is over, its winners named; a showdown whose cards are all known has
\* equities to compute, a heads-up flop makes it eligible.
Over == /\ On /\ ~hand.over /\ modal = "none"
        /\ \E eligible \in BOOLEAN, equity \in {"none", "computing"} :
             Effects([n |-> hand.n, over |-> TRUE, eligible |-> eligible, equity |-> equity])
        /\ UNCHANGED <<page, upload, timers, stored, spent>>

EquityReady == /\ On /\ hand.equity = "computing"
               /\ Effects([hand EXCEPT !.equity = "ready"])
               /\ UNCHANGED <<page, upload, timers, stored, spent>>

\* A name, a stack or the comment is changed: the text is another, and the effects
\* run again.
EditOver == /\ On /\ hand.over /\ modal = "none"
            /\ Effects(hand)
            /\ UNCHANGED <<page, upload, timers, stored, spent>>

\* The button beside the result, which a drawer covers.
PressSave == /\ On /\ hand.over /\ ~Saving /\ modal = "none"
             /\ post' = Posted(hand.n, FALSE)
             /\ failed' = FALSE
             /\ refs' = [refs EXCEPT !.id = Pending]
             /\ UNCHANGED <<page, hand, modal, upload, timers, stored, spent>>

\* resolveSavedHandId: whoever waits for the armed promise has its value.
IdResolved(id) ==
    upload' = IF upload.link = Pending THEN [upload EXCEPT !.link = id] ELSE upload

\* Mutation: a save that was deferred does not look back.
LeavesNever(p, r) == ~p.defer
\* Does a save that has succeeded leave the recorder?
Leaves(p, r) == ~p.defer \/ r.pendingNav

SaveDone == /\ Saving
            /\ stored' = [stored EXCEPT ![post.hand] = @ + 1]
            /\ IdResolved(post.hand)
            /\ refs' = [refs EXCEPT !.id = IF @ = Pending THEN post.hand ELSE @,
                                    !.saved = IF post.defer THEN "ok" ELSE @]
            /\ page' = IF Leaves(post, refs) THEN "list" ELSE page
            /\ post' = NoPost
            /\ UNCHANGED <<hand, modal, failed, timers, spent>>

\* The request or its answer is lost, or the server refuses it.
SaveFails == /\ Saving /\ spent.faults < MaxFaults
             /\ \/ UNCHANGED stored
                \/ stored' = [stored EXCEPT ![post.hand] = @ + 1]
             /\ IdResolved(NoHand)
             /\ refs' = [refs EXCEPT !.id = IF @ = Pending THEN NoHand ELSE @, !.saved = "error"]
             /\ failed' = TRUE
             /\ post' = NoPost
             /\ spent' = [spent EXCEPT !.faults = @ + 1]
             /\ UNCHANGED <<page, hand, modal, timers>>

-----------------------------------------------------------------------------
(* The offer. *)

\* finishSolveFlow: the modal goes, and the page with it if the hand is saved.
Finish == /\ modal' = "none"
          /\ page' = IF refs.saved = "ok" THEN "list" ELSE page
          /\ refs' = [refs EXCEPT !.pendingNav = @ \/ refs.saved = "idle"]

AcceptSolve == /\ On /\ modal = "prompt"
               /\ modal' = "panel"
               /\ UNCHANGED <<page, hand, refs, post, failed, upload, timers, stored, spent>>

\* "No thanks", or the panel's own close button: also while an upload runs.
Dismiss == /\ On /\ modal # "none"
           /\ Finish
           /\ UNCHANGED <<hand, post, failed, upload, timers, stored, spent>>

\* confirmSolveUpload waits for the id of the hand, but not for ever.
Confirm == /\ On /\ modal = "panel" /\ upload = NoUpload
           /\ upload' = [stage |-> "linking", hand |-> hand.n, link |-> refs.id]
           /\ UNCHANGED <<page, hand, refs, modal, post, failed, timers, stored, spent>>

Linked == /\ upload.stage = "linking"
          /\ upload' = [upload EXCEPT !.stage = "sending",
                                      !.link = IF @ = Pending THEN NoHand ELSE @]
          /\ UNCHANGED <<page, hand, refs, modal, post, failed, timers, stored, spent>>

\* The upload is answered: the notice, and the end of the flow after 2.4 s; a
\* failure is shown in the panel.
Uploaded == /\ upload.stage = "sending"
            /\ upload' = NoUpload
            /\ timers' \in {timers, timers + 1} /\ timers' <= MaxRecorded
            /\ UNCHANGED <<page, hand, refs, modal, post, failed, stored, spent>>

TimerFires == /\ timers > 0
              /\ Finish
              /\ timers' = timers - 1
              /\ UNCHANGED <<hand, post, failed, upload, stored, spent>>

-----------------------------------------------------------------------------
(* The next hand. *)

\* reset(): the guard of the auto-save goes, the other refs stay.
RecordNext == /\ On /\ hand.over /\ modal = "none" /\ hand.n < MaxRecorded
              /\ hand' = Fresh(hand.n + 1)
              /\ refs' = [refs EXCEPT !.autoSaved = FALSE]
              /\ failed' = FALSE
              /\ UNCHANGED <<page, modal, post, upload, timers, stored, spent>>

\* "Back to setup" keeps them all: the same hand is played once more.
SetUpAgain == /\ On /\ hand.over /\ modal = "none" /\ spent.reopened < MaxReopened
              /\ hand' = Fresh(hand.n)
              /\ spent' = [spent EXCEPT !.reopened = @ + 1]
              /\ UNCHANGED <<page, refs, modal, post, failed, upload, timers, stored>>

SaveNext == \/ Over \/ EquityReady \/ EditOver \/ PressSave \/ SaveDone \/ SaveFails
            \/ AcceptSolve \/ Dismiss \/ Confirm \/ Linked \/ Uploaded \/ TimerFires
            \/ RecordNext \/ SetUpAgain

SaveSpec == SaveInit /\ [][SaveNext]_saveVars

-----------------------------------------------------------------------------
(* Properties. *)

SaveTypeOK == /\ page \in {"recorder", "list"}
              /\ hand \in HandType /\ refs \in RefsType
              /\ modal \in {"none", "prompt", "panel"}
              /\ post.hand \in RecordedHands \cup {NoHand}
              /\ upload \in UploadType
              /\ timers \in 0 .. MaxRecorded
              /\ stored \in [RecordedHands -> 0 .. MaxFaults + 1 + MaxReopened]

\* A hand is stored once, but for the saves that were stored and whose answer
\* was lost, and for hands that were set up again: a drawer, a deferred save and
\* the button never save one result twice (the auto-save effect, saveHand).
StoredOnce == \A n \in RecordedHands : stored[n] <= 1 + spent.faults + spent.reopened

\* Nobody is left with a saved hand on a recorder that has nothing more to do:
\* "navigation happens when the modal is dismissed (or right now, if it was
\* dismissed while the save was still in flight)".
AtRest == hand.over /\ hand.equity # "computing" /\ ~Saving /\ modal = "none" /\ timers = 0
NeverStranded == On /\ AtRest => stored[hand.n] = 0 \/ failed

\* It is so as long as no save has failed on the visit, whatever is dismissed,
\* uploaded or saved first.
LeavesWhenSaved == spent.faults = 0 => NeverStranded

\* A hand that is over gets saved, or its failure is shown, unless it is set up
\* again or left for the next one, whatever the user does with the offer; not one
\* that ends while an earlier hand's save is under way, which the auto-save
\* skips.
SaveOwed == On /\ hand.over /\ post.hand \in {NoHand, hand.n} /\ spent.reopened = 0
SaveMet == stored[hand.n] > 0 \/ failed \/ ~hand.over
=============================================================================
