---------------------------- MODULE HandPagesProofs ----------------------------
(* For any number of hands, requests, texts, faults, visits, sessions and edits *)
(* what the pages of the hands promise: a hand is saved once and then left,     *)
(* taken over to the account once and never lost, what a page shows is there    *)
(* and the hand's own, and the frames of the recorder and of the replayer are   *)
(* those the hand was played through.  Each page is proved by itself, and the   *)
(* composition implements each.                                                 *)
EXTENDS HandPages, HandEngineProofs

-----------------------------------------------------------------------------
(* The save of a recorded hand.  That a hand is stored once at most, but for    *)
(* faults and set-ups, is a matter of what keeps the next save from starting:   *)
(* the invariant says of each moment of the flow how much room is left.         *)

\* The types, with an empty request in one form only.
PostType == [hand : RecordedHands \cup {NoHand}, defer : BOOLEAN]
\* How many copies of a hand there may be: its own, and one for each fault and each set-up.
Slack == 1 + spent.faults + spent.reopened
SaveTypes ==
  /\ page \in {"recorder", "list"}
  /\ hand \in HandType /\ refs \in RefsType
  /\ modal \in {"none", "prompt", "panel"}
  /\ post \in PostType /\ (post.hand = NoHand => post = NoPost)
  /\ failed \in BOOLEAN
  /\ upload \in UploadType
  /\ timers \in 0 .. MaxRecorded
  /\ stored \in [RecordedHands -> Nat]
  /\ spent \in [faults : 0 .. MaxFaults, reopened : 0 .. MaxReopened]

\* Equities belong to a hand that is over, an eligible hand that is over has been offered, and
\* no hand is stored before it is played.
InOrder ==
  /\ hand.equity # "none" => hand.over
  /\ hand.over /\ hand.eligible => refs.offered
  /\ post.hand <= hand.n
  /\ \A n \in RecordedHands : n > hand.n => stored[n] = 0
\* A hand whose save is in flight has room for it.
FitsSlack ==
  \A n \in RecordedHands : stored[n] <= Slack /\ (post.hand = n => stored[n] < Slack)
\* With no room left the hand is saved and its modal is open: the page is about to change.
FullIsLeaving ==
  On /\ stored[hand.n] = Slack => modal # "none" /\ refs.saved = "ok" /\ refs.autoSaved
\* A save that lets the solve flow go first is one the page has started and has offered to solve.
Deferred == post.defer => refs.offered /\ (post.hand = hand.n => refs.autoSaved)
\* Once the offer is closed the page changes, or is about to, unless a save failed.
OfferedLeaves ==
  On /\ refs.offered /\ modal = "none" /\ ~refs.pendingNav => spent.faults > 0
\* An error that is shown is a fault.
ErrorIsFault == refs.saved = "error" \/ failed => spent.faults > 0
\* Before its save starts by itself, a hand has been stored by failed attempts alone.
ByFaults == On /\ ~refs.autoSaved => stored[hand.n] <= spent.faults
\* As long as the table is not set up again, an open hand has not been saved, and the modal of a
\* hand that has not saved itself is the first thing that happens to it.
FirstTry ==
  On /\ spent.reopened = 0 =>
    /\ ~hand.over => stored[hand.n] = 0 /\ post.hand # hand.n
    /\ ~refs.autoSaved /\ modal # "none" => stored[hand.n] = 0 /\ post.hand # hand.n
    /\ ~refs.autoSaved /\ ~refs.pendingNav /\ refs.offered /\ modal = "none" =>
         stored[hand.n] < spent.faults
\* A deferred save that will not be followed by the page change leaves room for one more.
RoomToDefer ==
  /\ On /\ post.defer /\ post.hand = hand.n
  /\ (IF modal = "none" THEN ~refs.pendingNav ELSE refs.saved = "error")
  => stored[hand.n] < Slack - 1
\* Without a fault, a hand that is stored is saved and its modal is open.
NoFaultLeaves ==
  On /\ spent.faults = 0 /\ stored[hand.n] > 0 => modal # "none" /\ refs.saved = "ok"
\* The invariant of the save.
SaveRules == /\ InOrder /\ FitsSlack /\ FullIsLeaving /\ Deferred /\ OfferedLeaves /\ ErrorIsFault
             /\ ByFaults /\ FirstTry /\ RoomToDefer /\ NoFaultLeaves
SaveInv == SaveTypes /\ SaveRules

\* The numbers of the save flow.
LEMMA SaveNumbers ==
  ASSUME SaveTypes
  PROVE  /\ hand.n \in RecordedHands /\ hand.n \in Nat /\ post.hand \in Nat
         /\ stored[hand.n] \in Nat /\ spent.faults \in Nat /\ spent.reopened \in Nat
         /\ Slack \in Nat /\ Slack = 1 + spent.faults + spent.reopened
         /\ \A n \in RecordedHands : n \in Nat \ {0} /\ stored[n] \in Nat
  BY SaveAssumption DEF SaveTypes, RecordedHands, HandType, PostType, NoHand, Slack

\* The effects of a commit in which the hand is over: the save that is due starts only
\* while the hand has room for it, and the offer to solve it is made once.
LEMMA EffectsInv ==
  ASSUME SaveInv, On, NEW h \in HandType, h.n = hand.n, h.over,
         h.eligible = hand.eligible \/ ~hand.over, modal = "none" \/ hand.over,
         Effects(h), UNCHANGED <<page, upload, timers, stored, spent>>
  PROVE  SaveInv'
  <1> DEFINE save == AutoSaveDue(h, refs)
             offer == h.over /\ h.eligible /\ ~refs.offered
  <1>1. /\ hand' = h
        /\ post' = IF save THEN Posted(h.n, h.eligible) ELSE post
        /\ failed' = (failed /\ ~save)
        /\ refs' = [refs EXCEPT !.autoSaved = refs.autoSaved \/ save,
                                !.offered = refs.offered \/ offer,
                                !.id = IF save \/ offer THEN Pending ELSE refs.id]
        /\ modal' = IF offer THEN "prompt" ELSE modal
    BY DEF Effects
  <1>2. /\ save => ~refs.autoSaved /\ ~Saving
        /\ offer => h.eligible /\ ~refs.offered /\ ~hand.over
    BY DEF AutoSaveDue, SaveInv, SaveRules, InOrder
  <1>3. refs \in RefsType /\ save \in BOOLEAN /\ offer \in BOOLEAN
    BY DEF SaveInv, SaveTypes, AutoSaveDue
  <1> HIDE DEF save, offer
  <1>4. /\ refs' \in RefsType /\ refs'.saved = refs.saved /\ refs'.pendingNav = refs.pendingNav
        /\ refs'.autoSaved <=> refs.autoSaved \/ save
        /\ refs'.offered <=> refs.offered \/ offer
    <2>1. PICK a \in BOOLEAN : a <=> (refs.autoSaved \/ save)
      OBVIOUS
    <2>2. PICK o \in BOOLEAN : o <=> (refs.offered \/ offer)
      OBVIOUS
    <2> QED
      BY <1>1, <1>3, <2>1, <2>2 DEF RefsType, Pending
  <1>5. SaveTypes'
    BY <1>1, <1>3, <1>4 DEF SaveInv, SaveTypes, Posted, PostType, HandType, RecordedHands, NoHand
  <1>6. /\ hand'.n = hand.n /\ hand'.over /\ (h.eligible => refs'.offered) /\ hand'.eligible = h.eligible
        /\ Slack' = Slack /\ stored' = stored /\ spent' = spent /\ On'
    BY <1>1, <1>4 DEF Slack, On, offer
  <1>7. CASE save
    <2>1. post'.hand = hand.n /\ (post'.defer => refs'.offered) /\ refs'.autoSaved /\ ~refs.autoSaved /\ post = NoPost
      BY <1>1, <1>2, <1>4, <1>6, <1>7 DEF Posted, Saving
    <2>2. stored[hand.n] < Slack /\ stored[hand.n] <= spent.faults
      BY <2>1, SaveNumbers DEF SaveInv, SaveRules, FullIsLeaving, FitsSlack, ByFaults
    <2>3. InOrder' /\ FitsSlack'
      BY <2>1, <2>2, <1>6, SaveNumbers DEF SaveInv, SaveRules, InOrder, FitsSlack
    <2>4. FullIsLeaving' /\ Deferred' /\ ByFaults' /\ ErrorIsFault'
      BY <2>1, <2>2, <1>1, <1>4, <1>6, <1>7 DEF SaveInv, SaveRules, FullIsLeaving, Deferred, ByFaults, ErrorIsFault
    <2>5. OfferedLeaves' /\ NoFaultLeaves'
      BY <2>1, <2>2, <1>1, <1>4, <1>6, <1>7, SaveNumbers DEF SaveInv, SaveRules, OfferedLeaves, NoFaultLeaves, ErrorIsFault
    <2>6. FirstTry'
      BY <2>1, <1>6 DEF FirstTry
    <2>7. RoomToDefer'
      <3> SUFFICES ASSUME post'.defer, IF modal' = "none" THEN ~refs'.pendingNav ELSE refs'.saved = "error"
                   PROVE  stored[hand.n] < Slack - 1
        BY <1>6 DEF RoomToDefer
      <3>1. CASE spent.reopened # 0
        BY <3>1, <2>2, SaveNumbers DEF SaveInv
      <3>2. CASE spent.reopened = 0
        <4>1. CASE modal' = "none"
          BY <4>1, <3>2, <2>1, <1>1, <1>2, <1>4, <1>6, SaveNumbers DEF SaveInv, SaveRules, FirstTry
        <4>2. CASE modal' # "none"
          <5>1. stored[hand.n] = 0
            BY <4>2, <3>2, <2>1, <1>1, <1>2, <1>4, <1>6 DEF SaveInv, SaveRules, FirstTry
          <5>2. spent.faults > 0
            BY <4>2, <1>4 DEF SaveInv, SaveRules, ErrorIsFault
          <5> QED
            BY <5>1, <5>2, <3>2, SaveNumbers DEF SaveInv
        <4> QED
          BY <4>1, <4>2
      <3> QED
        BY <3>1, <3>2
    <2> QED
      BY <1>5, <2>3, <2>4, <2>5, <2>6, <2>7 DEF SaveInv, SaveRules
  <1>8. CASE ~save
    <2>1. post' = post /\ (refs'.autoSaved <=> refs.autoSaved) /\ failed' = failed
      BY <1>1, <1>3, <1>4, <1>8 DEF SaveInv, SaveTypes
    <2>2. /\ InOrder' /\ FitsSlack' /\ FullIsLeaving' /\ Deferred' /\ OfferedLeaves'
          /\ ErrorIsFault' /\ ByFaults' /\ NoFaultLeaves'
      BY <2>1, <1>1, <1>4, <1>6 DEF SaveInv, SaveRules, InOrder, FitsSlack, FullIsLeaving, Deferred, OfferedLeaves,
         ErrorIsFault, ByFaults, NoFaultLeaves
    <2>3. FirstTry'
      <3>1. CASE offer
        BY <3>1, <2>1, <1>1, <1>2, <1>4, <1>6 DEF SaveInv, SaveRules, FirstTry
      <3>2. CASE ~offer
        BY <3>2, <2>1, <1>1, <1>2, <1>4, <1>6 DEF SaveInv, SaveRules, FirstTry
      <3> QED
        BY <3>1, <3>2
    <2>4. RoomToDefer'
      <3>1. CASE offer
        BY <3>1, <2>1, <1>1, <1>2, <1>4, <1>6 DEF SaveInv, SaveRules, RoomToDefer, Deferred
      <3>2. CASE ~offer
        BY <3>2, <2>1, <1>1, <1>2, <1>4, <1>6 DEF SaveInv, SaveRules, RoomToDefer
      <3> QED
        BY <3>1, <3>2
    <2> QED
      BY <1>5, <2>2, <2>3, <2>4 DEF SaveInv, SaveRules
  <1> QED
    BY <1>7, <1>8

\* The end of the flow: the modal goes, and the page with it if the hand is saved.
LEMMA FinishInv ==
  ASSUME SaveInv, Finish, UNCHANGED <<hand, post, failed, upload, stored, spent>>,
         timers' \in 0 .. MaxRecorded
  PROVE  SaveInv'
  <1>1. /\ modal' = "none" /\ page' \in {"recorder", "list"} /\ (On' => On /\ refs.saved # "ok")
        /\ refs' = [refs EXCEPT !.pendingNav = refs.pendingNav \/ refs.saved = "idle"]
    BY DEF Finish, SaveInv, SaveTypes, On
  <1>2. /\ refs' \in RefsType /\ refs'.saved = refs.saved /\ (refs'.autoSaved <=> refs.autoSaved)
        /\ (refs'.offered <=> refs.offered)
        /\ refs'.pendingNav <=> refs.pendingNav \/ refs.saved = "idle"
    <2>1. PICK a \in BOOLEAN : a <=> (refs.pendingNav \/ refs.saved = "idle")
      OBVIOUS
    <2> QED
      BY <1>1, <2>1 DEF RefsType, SaveInv, SaveTypes
  <1>3. SaveTypes' /\ Slack' = Slack
    BY <1>1, <1>2 DEF SaveInv, SaveTypes, Slack
  <1>4. refs.saved \in {"idle", "ok", "error"}
    BY DEF SaveInv, SaveTypes, RefsType
  <1>5. InOrder' /\ FitsSlack' /\ Deferred' /\ ErrorIsFault' /\ ByFaults'
    BY <1>1, <1>2, <1>3 DEF SaveInv, SaveRules, InOrder, FitsSlack, Deferred, ErrorIsFault, ByFaults
  <1>6. OfferedLeaves' /\ FullIsLeaving' /\ NoFaultLeaves'
    BY <1>1, <1>2, <1>3, <1>4 DEF SaveInv, SaveRules, OfferedLeaves, FullIsLeaving, NoFaultLeaves, ErrorIsFault
  <1>7. FirstTry'
    BY <1>1, <1>2, <1>4, SaveNumbers DEF SaveInv, SaveRules, FirstTry, ErrorIsFault
  <1>8. RoomToDefer'
    BY <1>1, <1>2, <1>3, <1>4 DEF SaveInv, SaveRules, RoomToDefer
  <1> QED
    BY <1>3, <1>5, <1>6, <1>7, <1>8 DEF SaveInv, SaveRules

\* The button saves with nothing in flight and no modal open: there is room.
LEMMA PressSaveInv == SaveInv /\ PressSave => SaveInv'
  <1> SUFFICES ASSUME SaveInv, PressSave PROVE SaveInv'
    OBVIOUS
  <1>1. /\ On /\ modal = "none" /\ ~Saving /\ hand.over /\ post' = Posted(hand.n, FALSE) /\ failed' = FALSE
        /\ refs' = [refs EXCEPT !.id = Pending]
        /\ UNCHANGED <<page, hand, modal, upload, timers, stored, spent>>
    BY DEF PressSave
  <1>2. /\ refs' \in RefsType /\ refs'.saved = refs.saved /\ refs'.autoSaved = refs.autoSaved
        /\ refs'.offered = refs.offered /\ refs'.pendingNav = refs.pendingNav
    BY <1>1 DEF RefsType, SaveInv, SaveTypes, Pending
  <1>3. post'.hand = hand.n /\ ~post'.defer /\ Slack' = Slack /\ On'
    BY <1>1 DEF Posted, Slack, On
  <1>4. SaveTypes'
    <2>1. post' = [hand |-> hand.n, defer |-> FALSE] /\ hand.n \in RecordedHands /\ hand.n # NoHand
      BY <1>1, SaveNumbers DEF Posted, SaveInv, NoHand
    <2>2. post' \in PostType /\ post'.hand # NoHand
      BY <2>1 DEF PostType
    <2> QED
      BY <1>1, <1>2, <2>2 DEF SaveInv, SaveTypes
  <1>5. stored[hand.n] < Slack
    BY <1>1, SaveNumbers DEF SaveInv, SaveRules, FullIsLeaving, FitsSlack
  <1>6. InOrder' /\ FitsSlack'
    <2>1. post'.hand <= hand'.n /\ stored' = stored /\ hand' = hand
      <3>1. hand.n \in Nat
        BY SaveNumbers DEF SaveInv
      <3>2. stored' = stored /\ hand' = hand
        BY <1>1
      <3> QED
        BY <1>3, <3>1, <3>2
    <2>2. \A n \in RecordedHands : post'.hand = n => stored[n] < Slack
      BY <1>3, <1>5
    <2> QED
      BY <1>2, <1>3, <2>1, <2>2 DEF SaveInv, SaveRules, InOrder, FitsSlack
  <1>7. SaveRules'
    <2>1. Deferred' /\ FullIsLeaving' /\ RoomToDefer'
      BY <1>1, <1>2, <1>3 DEF SaveInv, SaveRules, Deferred, FullIsLeaving, RoomToDefer
    <2>2. OfferedLeaves' /\ ErrorIsFault' /\ ByFaults' /\ NoFaultLeaves'
      BY <1>1, <1>2, <1>3 DEF SaveInv, SaveRules, OfferedLeaves, ErrorIsFault, ByFaults, NoFaultLeaves
    <2>3. FirstTry'
      BY <1>1, <1>2, <1>3 DEF SaveInv, SaveRules, FirstTry
    <2> QED
      BY <1>6, <2>1, <2>2, <2>3 DEF SaveRules
  <1> QED
    BY <1>4, <1>7 DEF SaveInv

\* An id that is promised or known.
LEMMA IdTyped ==
  ASSUME SaveTypes, NEW id \in RecordedHands \cup {NoHand}, IdResolved(id)
  PROVE  upload' \in UploadType
  BY DEF IdResolved, SaveTypes, UploadType

\* The save is stored: the room it had is used, and whoever waited for it leaves.
LEMMA SaveDoneInv == SaveInv /\ SaveDone => SaveInv'
  <1> SUFFICES ASSUME SaveInv, SaveDone PROVE SaveInv'
    OBVIOUS
  <1>1. /\ post.hand \in RecordedHands /\ post' = NoPost /\ Slack' = Slack
        /\ stored' = [stored EXCEPT ![post.hand] = stored[post.hand] + 1]
        /\ UNCHANGED <<hand, modal, failed, timers, spent>>
        /\ page' = IF Leaves(post, refs) THEN "list" ELSE page
        /\ refs' = [refs EXCEPT !.id = IF refs.id = Pending THEN post.hand ELSE refs.id,
                                !.saved = IF post.defer THEN "ok" ELSE refs.saved]
        /\ IdResolved(post.hand)
    BY DEF SaveDone, Saving, SaveInv, SaveTypes, PostType, Slack
  <1>2. /\ refs' \in RefsType /\ refs'.saved = (IF post.defer THEN "ok" ELSE refs.saved)
        /\ refs'.autoSaved = refs.autoSaved /\ refs'.offered = refs.offered /\ refs'.pendingNav = refs.pendingNav
    BY <1>1 DEF RefsType, SaveInv, SaveTypes
  <1>3. post'.hand = NoHand /\ ~post'.defer /\ (On' => On /\ post.defer /\ ~refs.pendingNav)
    BY <1>1 DEF NoPost, On, Leaves
  <1>4. SaveTypes'
    <2>1. upload' \in UploadType
      BY <1>1, IdTyped DEF SaveInv
    <2>2. stored' \in [RecordedHands -> Nat]
      BY <1>1 DEF SaveInv, SaveTypes
    <2>3. page' \in {"recorder", "list"} /\ post' \in PostType
      BY <1>1 DEF SaveInv, SaveTypes, NoPost, PostType
    <2> QED
      BY <1>1, <1>2, <2>1, <2>2, <2>3 DEF SaveInv, SaveTypes
  <1>5. /\ \A n \in RecordedHands : stored'[n] = IF n = post.hand THEN stored[n] + 1 ELSE stored[n]
        /\ hand'.n = hand.n /\ hand.n \in RecordedHands
    BY <1>1, SaveNumbers DEF SaveInv, SaveTypes
  <1>6. InOrder' /\ FitsSlack'
    BY <1>1, <1>2, <1>3, <1>5, SaveNumbers DEF SaveInv, SaveRules, InOrder, FitsSlack, NoHand
  <1>7. FullIsLeaving'
    <2> SUFFICES ASSUME On', stored'[hand.n] = Slack PROVE modal # "none" /\ refs'.saved = "ok" /\ refs'.autoSaved
      BY <1>1 DEF FullIsLeaving
    <2>1. CASE post.hand = hand.n
      <3>1. refs.autoSaved
        BY <2>1, <1>3 DEF SaveInv, SaveRules, Deferred
      <3>2. modal # "none"
        BY <2>1, <1>3, <1>5, SaveNumbers DEF SaveInv, SaveRules, RoomToDefer
      <3> QED
        BY <3>1, <3>2, <1>2, <1>3
    <2>2. CASE post.hand # hand.n
      BY <2>2, <1>2, <1>3, <1>5 DEF SaveInv, SaveRules, FullIsLeaving
    <2> QED
      BY <2>1, <2>2
  <1>8. Deferred' /\ OfferedLeaves' /\ ErrorIsFault'
    BY <1>1, <1>2, <1>3 DEF SaveInv, SaveRules, Deferred, OfferedLeaves, ErrorIsFault
  <1>9. ByFaults' /\ FirstTry' /\ RoomToDefer'
    <2>1. ByFaults'
      BY <1>1, <1>2, <1>3, <1>5 DEF SaveInv, SaveRules, ByFaults, Deferred
    <2>2. FirstTry'
      <3>1. hand.n # NoHand
        BY SaveNumbers DEF NoHand, SaveInv
      <3> QED
        BY <1>1, <1>2, <1>3, <1>5, <3>1 DEF SaveInv, SaveRules, FirstTry, Deferred
    <2>3. RoomToDefer'
      BY <1>3 DEF RoomToDefer
    <2> QED
      BY <2>1, <2>2, <2>3
  <1>10. NoFaultLeaves'
    <2> SUFFICES ASSUME On', spent.faults = 0 PROVE modal # "none" /\ refs'.saved = "ok"
      BY <1>1 DEF NoFaultLeaves
    <2>1. refs'.saved = "ok" /\ On /\ refs.offered /\ ~refs.pendingNav
      BY <1>2, <1>3 DEF SaveInv, SaveRules, Deferred
    <2> QED
      BY <2>1 DEF SaveInv, SaveRules, OfferedLeaves
  <1> QED
    BY <1>4, <1>6, <1>7, <1>8, <1>9, <1>10 DEF SaveInv, SaveRules

\* A save fails, stored or not: one more fault, one more room.
LEMMA SaveFailsInv == SaveInv /\ SaveFails => SaveInv'
  <1> SUFFICES ASSUME SaveInv, SaveFails PROVE SaveInv'
    OBVIOUS
  <1>1. /\ post.hand \in RecordedHands /\ post' = NoPost /\ failed' = TRUE
        /\ stored' \in {stored, [stored EXCEPT ![post.hand] = stored[post.hand] + 1]}
        /\ UNCHANGED <<hand, modal, page, timers>>
        /\ refs' = [refs EXCEPT !.id = IF refs.id = Pending THEN NoHand ELSE refs.id, !.saved = "error"]
        /\ IdResolved(NoHand)
        /\ spent.faults < MaxFaults /\ spent' = [spent EXCEPT !.faults = spent.faults + 1]
    BY DEF SaveFails, Saving, SaveInv, SaveTypes, PostType
  <1>2. /\ refs' \in RefsType /\ refs'.saved = "error"
        /\ refs'.autoSaved = refs.autoSaved /\ refs'.offered = refs.offered /\ refs'.pendingNav = refs.pendingNav
    BY <1>1 DEF RefsType, SaveInv, SaveTypes
  <1>3. /\ spent' \in [faults : 0 .. MaxFaults, reopened : 0 .. MaxReopened]
        /\ spent'.faults = spent.faults + 1 /\ spent'.reopened = spent.reopened
    BY <1>1, SaveAssumption DEF SaveInv, SaveTypes
  <1>4. post'.hand = NoHand /\ ~post'.defer /\ On' = On /\ Slack' = Slack + 1
    BY <1>1, <1>3, SaveNumbers DEF NoPost, On, Slack, SaveInv
  <1>5. SaveTypes'
    <2>1. upload' \in UploadType
      BY <1>1, IdTyped DEF SaveInv
    <2>2. stored' \in [RecordedHands -> Nat]
      BY <1>1 DEF SaveInv, SaveTypes
    <2>3. post' \in PostType
      BY <1>1 DEF NoPost, PostType
    <2> QED
      BY <1>1, <1>2, <1>3, <2>1, <2>2, <2>3 DEF SaveInv, SaveTypes
  <1>6. /\ \A n \in RecordedHands : stored'[n] \in {stored[n], IF n = post.hand THEN stored[n] + 1 ELSE stored[n]}
        /\ hand'.n = hand.n /\ hand.n \in RecordedHands
    BY <1>1, SaveNumbers DEF SaveInv, SaveTypes
  <1>7. InOrder' /\ FitsSlack'
    BY <1>1, <1>2, <1>4, <1>6, SaveNumbers DEF SaveInv, SaveRules, InOrder, FitsSlack, NoHand
  <1>8. FullIsLeaving' /\ NoFaultLeaves' /\ RoomToDefer'
    BY <1>1, <1>3, <1>4, <1>6, SaveNumbers DEF SaveInv, SaveRules, FullIsLeaving, NoFaultLeaves, FitsSlack, RoomToDefer
  <1>9. Deferred' /\ OfferedLeaves' /\ ErrorIsFault'
    BY <1>1, <1>2, <1>3, <1>4, SaveNumbers DEF SaveInv, Deferred, OfferedLeaves, ErrorIsFault
  <1>10. ByFaults' /\ FirstTry'
    BY <1>1, <1>2, <1>3, <1>4, <1>6, SaveNumbers DEF SaveInv, SaveRules, ByFaults, FirstTry, NoHand
  <1> QED
    BY <1>5, <1>7, <1>8, <1>9, <1>10 DEF SaveInv, SaveRules

\* The commits in which a hand ends, its equities arrive or its edit ends.
LEMMA EffectsSteps == SaveInv /\ (Over \/ EquityReady \/ EditOver) => SaveInv'
  <1>1. ASSUME SaveInv, Over PROVE SaveInv'
    <2>1. PICK h \in HandType : h.n = hand.n /\ h.over /\ Effects(h)
      <3>1. PICK e \in BOOLEAN, q \in {"none", "computing"} :
               Effects([n |-> hand.n, over |-> TRUE, eligible |-> e, equity |-> q])
        BY <1>1 DEF Over
      <3> DEFINE h == [n |-> hand.n, over |-> TRUE, eligible |-> e, equity |-> q]
      <3>2. h \in HandType /\ h.n = hand.n /\ h.over
        BY <1>1, SaveNumbers DEF SaveInv, HandType
      <3> QED
        BY <3>1, <3>2
    <2> QED
      BY <1>1, <2>1, EffectsInv DEF Over
  <1>2. ASSUME SaveInv, EquityReady PROVE SaveInv'
    <2>1. PICK h : h = [hand EXCEPT !.equity = "ready"]
      OBVIOUS
    <2>2. h \in HandType /\ h.n = hand.n /\ h.eligible = hand.eligible /\ h.over = hand.over
      BY <1>2, <2>1 DEF SaveInv, SaveTypes, HandType
    <2>3. Effects(h) /\ On /\ UNCHANGED <<page, upload, timers, stored, spent>>
      BY <1>2, <2>1 DEF EquityReady
    <2>4. hand.over
      BY <1>2 DEF EquityReady, SaveInv, SaveRules, InOrder
    <2> QED
      BY <1>2, <2>2, <2>3, <2>4, EffectsInv
  <1>3. ASSUME SaveInv, EditOver PROVE SaveInv'
    <2>1. hand \in HandType
      BY <1>3 DEF SaveInv, SaveTypes
    <2> QED
      BY <1>3, <2>1, EffectsInv DEF EditOver
  <1> QED
    BY <1>1, <1>2, <1>3

\* The solve flow: offered, accepted or dismissed, confirmed, uploaded, closed by its timer.
LEMMA FlowSteps ==
  SaveInv /\ (AcceptSolve \/ Dismiss \/ Confirm \/ Linked \/ Uploaded \/ TimerFires) => SaveInv'
  <1> USE DEF SaveInv
  <1>1. ASSUME SaveInv, AcceptSolve PROVE SaveInv'
    BY <1>1 DEF AcceptSolve, SaveTypes, SaveRules, InOrder, FitsSlack, FullIsLeaving, Deferred, OfferedLeaves,
       ErrorIsFault, ByFaults, FirstTry, RoomToDefer, NoFaultLeaves, On, Slack
  <1>2. ASSUME SaveInv, UNCHANGED <<page, hand, refs, modal, post, failed, stored, spent>>,
               upload' \in UploadType, timers' \in 0 .. MaxRecorded
        PROVE  SaveInv'
    BY <1>2 DEF SaveTypes, SaveRules, InOrder, FitsSlack, FullIsLeaving, Deferred, OfferedLeaves,
       ErrorIsFault, ByFaults, FirstTry, RoomToDefer, NoFaultLeaves, On, Slack
  <1>3. ASSUME SaveInv, Confirm PROVE SaveInv'
    <2>1. upload' \in UploadType
      BY <1>3 DEF Confirm, SaveTypes, UploadType, HandType, RefsType
    <2> QED
      BY <1>2, <1>3, <2>1 DEF Confirm, SaveTypes
  <1>4. ASSUME SaveInv, Linked PROVE SaveInv'
    <2>1. upload' \in UploadType
      BY <1>4 DEF Linked, SaveTypes, UploadType
    <2> QED
      BY <1>2, <1>4, <2>1 DEF Linked, SaveTypes
  <1>5. ASSUME SaveInv, Uploaded PROVE SaveInv'
    <2>1. upload' \in UploadType /\ timers' \in 0 .. MaxRecorded
      BY <1>5, SaveAssumption DEF Uploaded, SaveTypes, UploadType, NoUpload, NoHand
    <2> QED
      BY <1>2, <1>5, <2>1 DEF Uploaded
  <1>6. ASSUME SaveInv, Dismiss PROVE SaveInv'
    BY <1>6, FinishInv DEF Dismiss, SaveTypes
  <1>7. ASSUME SaveInv, TimerFires PROVE SaveInv'
    <2>1. timers' \in 0 .. MaxRecorded
      BY <1>7, SaveAssumption DEF TimerFires, SaveTypes
    <2> QED
      BY <1>7, <2>1, FinishInv DEF TimerFires
  <1> QED
    BY <1>1, <1>3, <1>4, <1>5, <1>6, <1>7

\* The next hand, and the table set up again: nothing of the last hand is in its way.
LEMMA NextHandSteps == SaveInv /\ (RecordNext \/ SetUpAgain) => SaveInv'
  <1>1. ASSUME SaveInv, RecordNext PROVE SaveInv'
    <2>1. /\ On /\ modal = "none" /\ hand.n < MaxRecorded /\ hand' = Fresh(hand.n + 1) /\ failed' = FALSE
          /\ refs' = [refs EXCEPT !.autoSaved = FALSE]
          /\ UNCHANGED <<page, modal, post, upload, timers, stored, spent>>
      BY <1>1 DEF RecordNext
    <2>2. hand.n + 1 \in RecordedHands /\ stored[hand.n + 1] = 0 /\ post.hand < hand.n + 1
      BY <1>1, <2>1, SaveNumbers, SaveAssumption DEF SaveInv, SaveRules, InOrder, RecordedHands
    <2>3. /\ hand' \in HandType /\ hand'.n = hand.n + 1 /\ ~hand'.over /\ ~hand'.eligible /\ hand'.equity = "none"
      BY <2>1, <2>2 DEF Fresh, HandType
    <2>4. /\ refs' \in RefsType /\ refs'.saved = refs.saved /\ ~refs'.autoSaved
          /\ refs'.offered = refs.offered /\ refs'.pendingNav = refs.pendingNav
      BY <1>1, <2>1 DEF RefsType, SaveInv, SaveTypes
    <2>5. SaveTypes' /\ Slack' = Slack /\ On' = On
      BY <1>1, <2>1, <2>3, <2>4 DEF SaveInv, SaveTypes, Slack, On
    <2>6. post.hand # hand'.n /\ stored[hand'.n] = 0
      BY <2>2, <2>3, <1>1, SaveNumbers DEF SaveInv
    <2>7. InOrder' /\ FitsSlack'
      BY <1>1, <2>1, <2>2, <2>3, <2>4, <2>5, SaveNumbers DEF SaveInv, SaveRules, InOrder, FitsSlack
    <2>8. FullIsLeaving' /\ NoFaultLeaves' /\ RoomToDefer' /\ ByFaults'
      BY <1>1, <2>1, <2>3, <2>4, <2>5, <2>6, SaveNumbers DEF SaveInv, FullIsLeaving, NoFaultLeaves, RoomToDefer, ByFaults
    <2>9. Deferred' /\ OfferedLeaves' /\ ErrorIsFault'
      BY <1>1, <2>1, <2>4, <2>5, <2>6 DEF SaveInv, SaveRules, Deferred, OfferedLeaves, ErrorIsFault
    <2>10. FirstTry'
      BY <1>1, <2>1, <2>3, <2>4, <2>5, <2>6, SaveNumbers DEF SaveInv, SaveRules, FirstTry, OfferedLeaves
    <2> QED
      BY <2>5, <2>7, <2>8, <2>9, <2>10 DEF SaveInv, SaveRules
  <1>2. ASSUME SaveInv, SetUpAgain PROVE SaveInv'
    <2>1. /\ On /\ modal = "none" /\ hand' = Fresh(hand.n) /\ spent.reopened < MaxReopened
          /\ spent' = [spent EXCEPT !.reopened = spent.reopened + 1]
          /\ UNCHANGED <<page, refs, modal, post, failed, upload, timers, stored>>
      BY <1>2 DEF SetUpAgain
    <2>2. /\ hand' \in HandType /\ hand'.n = hand.n /\ ~hand'.over /\ ~hand'.eligible /\ hand'.equity = "none"
      BY <1>2, <2>1, SaveNumbers DEF Fresh, HandType, SaveInv
    <2>3. /\ spent' \in [faults : 0 .. MaxFaults, reopened : 0 .. MaxReopened]
          /\ spent'.faults = spent.faults /\ spent'.reopened = spent.reopened + 1
      BY <1>2, <2>1, SaveAssumption DEF SaveInv, SaveTypes
    <2>4. SaveTypes' /\ Slack' = Slack + 1 /\ On' = On
      BY <1>2, <2>1, <2>2, <2>3, SaveNumbers DEF SaveInv, SaveTypes, Slack, On
    <2>5. InOrder' /\ FitsSlack'
      BY <1>2, <2>1, <2>2, <2>4, SaveNumbers DEF SaveInv, SaveRules, InOrder, FitsSlack
    <2>6. FullIsLeaving' /\ NoFaultLeaves' /\ RoomToDefer' /\ ByFaults'
      BY <1>2, <2>1, <2>2, <2>3, <2>4, SaveNumbers DEF SaveInv, SaveRules, FitsSlack, FullIsLeaving, NoFaultLeaves,
         RoomToDefer, ByFaults
    <2>7. Deferred' /\ OfferedLeaves' /\ ErrorIsFault' /\ FirstTry'
      BY <1>2, <2>1, <2>2, <2>3, <2>4, SaveNumbers DEF SaveInv, SaveRules, Deferred, OfferedLeaves, ErrorIsFault, FirstTry
    <2> QED
      BY <2>4, <2>5, <2>6, <2>7 DEF SaveInv, SaveRules
  <1> QED
    BY <1>1, <1>2

\* Each step of the page keeps the invariant.
LEMMA SaveInvStep == SaveInv /\ [SaveNext]_saveVars => SaveInv'
  <1>1. SaveInv /\ UNCHANGED saveVars => SaveInv'
    BY DEF saveVars, SaveInv, SaveTypes, SaveRules, InOrder, FitsSlack, FullIsLeaving, Deferred, OfferedLeaves,
       ErrorIsFault, ByFaults, FirstTry, RoomToDefer, NoFaultLeaves, On, Slack
  <1> QED
    BY <1>1, EffectsSteps, PressSaveInv, SaveDoneInv, SaveFailsInv, FlowSteps, NextHandSteps DEF SaveNext

\* A page that opens.
LEMMA SaveInvInit == SaveInit => SaveInv
  <1> SUFFICES ASSUME SaveInit PROVE SaveInv
    OBVIOUS
  <1>1. hand.n = 1 /\ ~hand.over /\ ~hand.eligible /\ hand.equity = "none" /\ hand \in HandType
    BY SaveAssumption DEF SaveInit, Fresh, HandType, RecordedHands
  <1>2. refs \in RefsType /\ post = NoPost /\ post \in PostType /\ upload \in UploadType
    BY DEF SaveInit, RefsType, NoPost, PostType, NoUpload, UploadType, NoHand
  <1>3. stored \in [RecordedHands -> Nat] /\ timers \in 0 .. MaxRecorded
        /\ spent \in [faults : 0 .. MaxFaults, reopened : 0 .. MaxReopened]
    BY SaveAssumption DEF SaveInit
  <1>4. SaveTypes
    BY <1>1, <1>2, <1>3 DEF SaveInit, SaveTypes
  <1>5. post.hand = 0 /\ ~post.defer /\ \A n \in RecordedHands : stored[n] = 0 /\ n # 0
    BY <1>2 DEF SaveInit, NoPost, NoHand, RecordedHands
  <1>6. spent.faults = 0 /\ spent.reopened = 0 /\ Slack = 1 /\ ~refs.offered /\ refs.saved = "idle" /\ ~failed /\ modal = "none"
    BY DEF SaveInit, Slack
  <1>7. InOrder /\ FitsSlack /\ Deferred /\ OfferedLeaves /\ ErrorIsFault
    BY <1>1, <1>5, <1>6 DEF InOrder, FitsSlack, Deferred, OfferedLeaves, ErrorIsFault
  <1>8. FullIsLeaving /\ ByFaults /\ FirstTry /\ RoomToDefer /\ NoFaultLeaves
    BY <1>1, <1>4, <1>5, <1>6, SaveNumbers DEF FullIsLeaving, ByFaults, FirstTry, RoomToDefer, NoFaultLeaves
  <1> QED
    BY <1>4, <1>7, <1>8 DEF SaveInv, SaveRules

\* The invariant holds of the save of a hand (CreateHandHistory.tsx).
LEMMA SaveInvHolds == SaveSpec => []SaveInv
  BY SaveInvInit, SaveInvStep, PTL DEF SaveSpec

\* It is what is promised of the save: types, one copy for each room, and a saved hand is left.
LEMMA SaveInvImplies == SaveInv => SaveTypeOK /\ StoredOnce /\ LeavesWhenSaved
  <1> SUFFICES ASSUME SaveInv PROVE SaveTypeOK /\ StoredOnce /\ LeavesWhenSaved
    OBVIOUS
  <1>1. StoredOnce
    BY DEF SaveInv, SaveRules, FitsSlack, Slack, StoredOnce
  <1>2. LeavesWhenSaved
    BY SaveNumbers DEF SaveInv, SaveRules, NoFaultLeaves, LeavesWhenSaved, NeverStranded, AtRest
  <1>3. stored \in [RecordedHands -> 0 .. MaxFaults + 1 + MaxReopened]
    <2>1. spent.faults <= MaxFaults /\ spent.reopened <= MaxReopened
      BY DEF SaveInv, SaveTypes
    <2>2. \A n \in RecordedHands : stored[n] \in 0 .. MaxFaults + 1 + MaxReopened
      BY <1>1, <2>1, SaveNumbers, SaveAssumption DEF StoredOnce, SaveInv
    <2> QED
      BY <2>2 DEF SaveInv, SaveTypes
  <1> QED
    BY <1>1, <1>2, <1>3 DEF SaveInv, SaveTypes, SaveTypeOK, PostType

-----------------------------------------------------------------------------
(* The list of saved hands: its migration and its deletions.                    *)

\* The types of the list, with a closed list in one form only.
Visits == 1 .. ListMaxVisits
FetchType == [stage : {"none", "sent", "read"}, rows : SUBSET SavedHands, blocks : BOOLEAN]
ListType == [on : BOOLEAN, items : SUBSET SavedHands, loading : BOOLEAN, fetch : FetchType]
RemovalType == [stage : {"none", "sent", "done"}, visit : Nat, prev : SUBSET SavedHands]
ListSpentType == [faults : Nat, deletes : Nat, signOuts : Nat, visits : Nat, left : Nat]
ListTypes ==
  /\ server \subseteq SavedHands /\ device \subseteq SavedHands
  /\ removed \subseteq SavedHands /\ cached \subseteq SavedHands
  /\ account \in BOOLEAN
  /\ list \in ListType /\ (~list.on => list = ClosedList)
  /\ sync \in [Visits -> SyncType]
  /\ removal \in [SavedHands -> RemovalType]
  /\ copies \in [SavedHands -> Nat]
  /\ listSpent \in ListSpentType

\* A migration that is looked at belongs to a page that is open and signed in,
\* and one that is not under way has nothing to do.
SyncFits(s, on, in) == (s.live => s.on /\ on /\ in) /\ (~s.on => s.todo = {})
Visited ==
  /\ list.on => listSpent.visits > 0
  /\ listSpent.visits + listSpent.signOuts <= ListMaxVisits
  /\ \A v \in Visits : SyncFits(sync[v], list.on, account)

\* What a migration that may still empty the store has not taken is safe.
Covered ==
  \A v \in Visits : sync[v].live =>
    \A h \in device : h \in sync[v].todo \cup sync[v].failed \cup server \cup removed

\* A hand is stored once for each migration that has taken it: there are as many
\* as mounts and sign-outs, one less while the page waits for a sign-in.
TakenBy(h) == {v \in Visits : h \in sync[v].todo}
Owed == IF list.on /\ ~account THEN 1 ELSE 0
CopiesCounted ==
  \A h \in SavedHands :
    copies[h] + Cardinality(TakenBy(h)) + Owed <= listSpent.visits + listSpent.signOuts

\* Without a fault, and with no migration left half-way, there is one migration at
\* most, and what it has stored it does not take again.
Undisturbed == listSpent.faults = 0 /\ listSpent.left = 0
OneMigration ==
  Undisturbed =>
    \A v \in Visits : /\ sync[v].failed = {} /\ (sync[v].on => sync[v].live)
                      /\ sync[v].live => v = Visit
StoredAndGone ==
  Undisturbed =>
    \A h \in SavedHands : copies[h] # 0 =>
      /\ copies[h] = 1 /\ \A v \in Visits : h \notin sync[v].todo
      /\ h \in device => \E v \in Visits : sync[v].live

\* The invariant of the list.
ListRules == Visited /\ Covered /\ NoHandLost /\ CopiesCounted /\ OneMigration /\ StoredAndGone
ListInv == ListTypes /\ ListRules

\* There are finitely many visits.
LEMMA VisitsFinite == IsFiniteSet(Visits)
  BY FS_Interval, ListAssumption DEF Visits

\* The numbers of the list.
LEMMA VisitNumbers ==
  ASSUME ListTypes
  PROVE  /\ listSpent.faults \in Nat /\ listSpent.left \in Nat /\ listSpent.visits \in Nat
         /\ listSpent.signOuts \in Nat /\ listSpent.deletes \in Nat /\ Visit = listSpent.visits
         /\ ListMaxVisits \in Nat
         /\ \A h \in SavedHands : IsFiniteSet(TakenBy(h)) /\ Cardinality(TakenBy(h)) \in Nat
  <1>1. \A h \in SavedHands : IsFiniteSet(TakenBy(h)) /\ Cardinality(TakenBy(h)) \in Nat
    <2>1. IsFiniteSet(Visits)
      BY VisitsFinite
    <2>2. \A h : TakenBy(h) \in SUBSET Visits
      BY DEF TakenBy
    <2>3. \A h : IsFiniteSet(TakenBy(h))
      BY ONLY <2>1, <2>2, FS_Subset
    <2> QED
      BY <2>3, FS_CardinalityType
  <1> QED
    BY <1>1, ListAssumption DEF ListTypes, ListSpentType, Visit

\* One more migration that takes a hand, or one less.
LEMMA TakenOnce ==
  ASSUME ListTypes, NEW h \in SavedHands, NEW v \in Visits, NEW T,
         \A w \in Visits : w # v => (w \in T <=> h \in sync[w].todo), T \subseteq Visits
  PROVE  /\ Cardinality(T) \in Nat
         /\ v \notin T /\ h \in sync[v].todo => Cardinality(T) = Cardinality(TakenBy(h)) - 1
         /\ (v \in T <=> h \in sync[v].todo) => Cardinality(T) = Cardinality(TakenBy(h))
         /\ v \in T /\ h \notin sync[v].todo => Cardinality(T) = Cardinality(TakenBy(h)) + 1
         /\ Cardinality(T) <= Cardinality(TakenBy(h)) + 1
  <1>1. IsFiniteSet(T) /\ Cardinality(T) \in Nat
    <2>1. IsFiniteSet(Visits)
      BY VisitsFinite
    <2>2. T \in SUBSET Visits
      OBVIOUS
    <2>3. IsFiniteSet(T)
      BY ONLY <2>1, <2>2, FS_Subset
    <2> QED
      BY <2>3, FS_CardinalityType
  <1>2. IsFiniteSet(TakenBy(h)) /\ Cardinality(TakenBy(h)) \in Nat
    BY VisitNumbers
  <1>3. ASSUME v \notin T, h \in sync[v].todo PROVE Cardinality(T) = Cardinality(TakenBy(h)) - 1
    <2>1. T = TakenBy(h) \ {v} /\ v \in TakenBy(h)
      BY <1>3 DEF TakenBy
    <2> QED
      BY <2>1, <1>2, FS_RemoveElement
  <1>4. ASSUME v \in T <=> h \in sync[v].todo PROVE Cardinality(T) = Cardinality(TakenBy(h))
    <2>1. T = TakenBy(h)
      BY <1>4 DEF TakenBy
    <2> QED
      BY <2>1
  <1>5. ASSUME v \in T, h \notin sync[v].todo PROVE Cardinality(T) = Cardinality(TakenBy(h)) + 1
    <2>1. T = TakenBy(h) \cup {v} /\ v \notin TakenBy(h)
      BY <1>5 DEF TakenBy
    <2> QED
      BY <2>1, <1>2, FS_AddElement
  <1> QED
    BY <1>1, <1>2, <1>3, <1>4, <1>5

\* Steps that leave the migrations alone: what they take from the device or the
\* server the user has deleted.
LEMMA QuietStep ==
  ASSUME ListInv, ListTypes', list'.on = list.on, UNCHANGED <<sync, copies, account>>,
         listSpent'.visits = listSpent.visits, listSpent'.signOuts = listSpent.signOuts,
         listSpent'.left = listSpent.left, listSpent'.faults = 0 => listSpent.faults = 0,
         device' \subseteq device, device \subseteq device' \cup removed',
         server \cup removed \subseteq server' \cup removed'
  PROVE  ListInv'
  <1>1. Visited' /\ Covered'
    BY DEF ListInv, ListRules, Visited, Covered
  <1>2. NoHandLost'
    BY DEF ListInv, ListRules, NoHandLost
  <1>3. CopiesCounted'
    BY DEF ListInv, ListRules, CopiesCounted, TakenBy, Owed
  <1>4. OneMigration' /\ StoredAndGone'
    BY DEF ListInv, ListRules, OneMigration, StoredAndGone, Undisturbed, Visit
  <1> QED
    BY <1>1, <1>2, <1>3, <1>4 DEF ListInv, ListRules

\* One more fault is counted, and nothing else.
LEMMA FaultTyped ==
  ASSUME ListTypes
  PROVE  /\ Fault \in ListSpentType /\ Fault.faults = listSpent.faults + 1 /\ Fault.faults # 0
         /\ Fault.visits = listSpent.visits /\ Fault.signOuts = listSpent.signOuts
         /\ Fault.left = listSpent.left
  BY DEF ListTypes, ListSpentType, Fault

\* The list is fetched, arrives or fails: no hand moves.
LEMMA FetchSteps == ListInv /\ (ListRead \/ ListArrives \/ ListFails) => ListInv'
  <1>1. ASSUME ListInv, ListRead PROVE ListInv'
    <2>1. PICK n : n = [list EXCEPT !.fetch.stage = "read", !.fetch.rows = server]
      OBVIOUS
    <2>0. list.on
      BY <1>1 DEF ListInv, ListTypes, ListRead, ClosedList, NoFetch
    <2>2. n \in ListType /\ n.on = list.on /\ list.on
      <3>1. PICK f : f = [list.fetch EXCEPT !.stage = "read", !.rows = server]
        OBVIOUS
      <3>2. list.fetch \in FetchType /\ server \subseteq SavedHands /\ list \in ListType
        BY <1>1 DEF ListInv, ListTypes, ListType
      <3>3. f \in FetchType
        BY <3>1, <3>2 DEF FetchType
      <3>4. n = [list EXCEPT !.fetch = f]
        BY <2>1, <3>1, <3>2 DEF ListType, FetchType
      <3> QED
        BY <2>0, <3>2, <3>3, <3>4 DEF ListType
    <2>3. ListTypes'
      BY <1>1, <2>1, <2>2 DEF ListInv, ListTypes, ListRead
    <2> QED
      BY <1>1, <2>1, <2>2, <2>3, QuietStep DEF ListRead
  <1>2. ASSUME ListInv PROVE Ended(list) \in ListType /\ Ended(list).on = list.on
    BY <1>2 DEF ListInv, ListTypes, ListType, FetchType, Ended, NoFetch
  <1>3. ASSUME ListInv, ListArrives PROVE ListInv'
    <2>1. PICK n : n = [Ended(list) EXCEPT !.items = list.fetch.rows]
      OBVIOUS
    <2>2. list.on /\ list.fetch.rows \subseteq SavedHands
      BY <1>3 DEF ListInv, ListTypes, ListType, FetchType, ListArrives, ClosedList, NoFetch
    <2>3. n \in ListType /\ n.on = list.on
      BY <1>2, <1>3, <2>1, <2>2 DEF ListType
    <2>4. ListTypes'
      BY <1>3, <2>1, <2>2, <2>3 DEF ListInv, ListTypes, ListArrives
    <2> QED
      BY <1>3, <2>1, <2>3, <2>4, QuietStep DEF ListArrives
  <1>4. ASSUME ListInv, ListFails PROVE ListInv'
    <2>1. list.on
      BY <1>4 DEF ListInv, ListTypes, ListFails, ClosedList, NoFetch
    <2>2. ListTypes'
      BY <1>2, <1>4, <2>1, FaultTyped DEF ListInv, ListTypes, ListFails
    <2> QED
      BY <1>2, <1>4, <2>2, QuietStep, FaultTyped DEF ListFails, ListInv
  <1> QED
    BY <1>1, <1>3, <1>4

\* A deletion is made in the list at once, and rolled back if the server refuses it.
LEMMA DeleteSteps ==
  ASSUME ListInv, NEW h \in SavedHands, Delete(h) \/ DeleteRow(h) \/ Deleted(h) \/ DeleteFails(h)
  PROVE  ListInv'
  <1>1. CASE Delete(h)
    <2>1. /\ listSpent' \in ListSpentType /\ listSpent'.visits = listSpent.visits
          /\ listSpent'.signOuts = listSpent.signOuts
          /\ listSpent'.left = listSpent.left /\ listSpent'.faults = listSpent.faults
      BY <1>1 DEF Delete, ListInv, ListTypes, ListSpentType
    <2>2. list.on /\ UNCHANGED <<server, copies, account, sync>>
      BY <1>1 DEF Delete
    <2>3. CASE account
      <3>1. /\ list' = [list EXCEPT !.items = list.items \ {h}] /\ cached' = cached \ {h}
            /\ removal' = [removal EXCEPT ![h] = [stage |-> "sent", visit |-> Visit, prev |-> list.items]]
            /\ UNCHANGED <<device, removed>>
        BY <1>1, <2>3 DEF Delete
      <3>2. list' \in ListType /\ list'.on = list.on
        BY <3>1 DEF ListInv, ListTypes, ListType
      <3>3. [stage |-> "sent", visit |-> Visit, prev |-> list.items] \in RemovalType
        BY VisitNumbers DEF ListInv, ListTypes, ListType, RemovalType
      <3>4. ListTypes'
        BY <2>1, <2>2, <3>1, <3>2, <3>3 DEF ListInv, ListTypes
      <3> QED
        BY <2>1, <2>2, <3>1, <3>2, <3>4, QuietStep
    <2>4. CASE ~account
      <3>1. device' = device \ {h} /\ removed' = removed \cup {h} /\ UNCHANGED <<list, cached, removal>>
        BY <1>1, <2>4 DEF Delete
      <3>2. ListTypes'
        BY <2>1, <2>2, <3>1 DEF ListInv, ListTypes
      <3> QED
        BY <2>1, <2>2, <3>1, <3>2, QuietStep
    <2> QED
      BY <2>3, <2>4
  <1>2. CASE DeleteRow(h)
    <2>1. /\ server' = server \ {h} /\ removed' = removed \cup {h}
          /\ removal' = [removal EXCEPT ![h].stage = "done"]
          /\ UNCHANGED <<copies, device, cached, account, list, sync, listSpent>>
      BY <1>2 DEF DeleteRow
    <2>2. removal' \in [SavedHands -> RemovalType]
      BY <2>1 DEF ListInv, ListTypes, RemovalType
    <2>3. ListTypes'
      BY <2>1, <2>2 DEF ListInv, ListTypes
    <2> QED
      BY <2>1, <2>3, QuietStep
  <1>3. NoRemoval \in RemovalType
    BY DEF NoRemoval, RemovalType
  <1>4. CASE Deleted(h)
    <2>1. /\ removal' = [removal EXCEPT ![h] = NoRemoval]
          /\ UNCHANGED <<server, copies, device, removed, cached, account, list, sync, listSpent>>
      BY <1>4 DEF Deleted
    <2>2. ListTypes'
      BY <1>3, <2>1 DEF ListInv, ListTypes
    <2> QED
      BY <2>1, <2>2, QuietStep
  <1>5. CASE DeleteFails(h)
    <2>1. /\ listSpent' = Fault /\ list' = [list EXCEPT !.items = RolledBack(h)]
          /\ cached' = (IF account THEN cached \cup RolledBack(h) ELSE cached)
          /\ removal' = [removal EXCEPT ![h] = NoRemoval]
          /\ UNCHANGED <<server, copies, device, removed, account, sync>>
      BY <1>5 DEF DeleteFails
    <2>2. RolledBack(h) \subseteq SavedHands /\ (~list.on => RolledBack(h) = list.items)
      BY DEF RolledBack, ListInv, ListTypes, ListType, RemovalType
    <2>3. list' \in ListType /\ list'.on = list.on /\ (~list.on => list' = list)
      BY <2>1, <2>2 DEF ListInv, ListTypes, ListType
    <2>4. ListTypes'
      BY <1>3, <2>1, <2>2, <2>3, FaultTyped DEF ListInv, ListTypes
    <2> QED
      BY <2>1, <2>3, <2>4, FaultTyped, QuietStep DEF ListInv
  <1> QED
    BY <1>1, <1>2, <1>4, <1>5

\* A list that is being fetched is a list.
LEMMA FetchingFits ==
  ASSUME NEW l \in ListType
  PROVE  Fetching(l) \in ListType /\ Fetching(l).on = l.on
  <1>1. PICK b \in BOOLEAN : b <=> l.loading \/ l.items = {}
    OBVIOUS
  <1>2. PICK c \in BOOLEAN : c <=> l.items = {}
    OBVIOUS
  <1>3. (l.items = {}) \in BOOLEAN /\ (l.loading \/ l.items = {}) \in BOOLEAN
    OBVIOUS
  <1> QED
    BY <1>1, <1>2 DEF Fetching, ListType, FetchType

\* A closed list is a list.
LEMMA ClosedFits == ClosedList \in ListType /\ ~ClosedList.on /\ ClosedList.items = {}
  BY DEF ClosedList, ListType, NoFetch, FetchType

\* A migration that starts has the hands of the device to do, and one that runs is left alone.
LEMMA MigratedFits ==
  ASSUME NEW s \in SyncType, device \subseteq SavedHands
  PROVE  Migrated(s) \in SyncType /\ (Migrated(s) = s \/ (~s.on /\ Migrated(s) = [on |-> TRUE, live |-> TRUE, todo |-> device, failed |-> {}]))
  BY DEF Migrated, MayMigrate, SyncType

\* A migration may start: at one visit, for a page that is open and signed in.
LEMMA StartStep ==
  ASSUME ListInv, ListTypes', NEW v \in Visits, sync' = [sync EXCEPT ![v] = Migrated(sync[v])],
         UNCHANGED <<server, copies, device, removed>>,
         list'.on, account', v = Visit', listSpent'.left = listSpent.left, listSpent'.faults = listSpent.faults,
         listSpent'.visits > 0, listSpent'.visits + listSpent'.signOuts <= ListMaxVisits,
         Owed + listSpent'.visits + listSpent'.signOuts = listSpent.visits + listSpent.signOuts + 1,
         ~(list.on /\ account)
  PROVE  ListInv'
  <1>1. /\ \A w \in Visits : ~sync[w].live /\ SyncFits(sync[w], list.on, account)
        /\ sync[v] \in SyncType /\ device \subseteq SavedHands
    BY DEF ListInv, ListTypes, ListRules, Visited, SyncFits
  <1>2. PICK m : m = Migrated(sync[v])
    OBVIOUS
  <1>3. m = sync[v] \/ (~sync[v].on /\ m = [on |-> TRUE, live |-> TRUE, todo |-> device, failed |-> {}])
    BY <1>1, <1>2, MigratedFits
  <1>4. \A w \in Visits : sync'[w] = IF w = v THEN m ELSE sync[w]
    BY <1>2 DEF ListInv, ListTypes
  <1>5. Visited'
    BY <1>1, <1>3, <1>4 DEF Visited, SyncFits
  <1>6. Covered' /\ NoHandLost'
    BY <1>1, <1>3, <1>4 DEF Covered, NoHandLost, ListInv, ListRules
  <1>7. CopiesCounted'
    <2> SUFFICES ASSUME NEW h \in SavedHands
                 PROVE  copies[h] + Cardinality(TakenBy(h)') <= listSpent'.visits + listSpent'.signOuts
      <3>1. Owed' = 0 /\ copies' = copies
        BY DEF Owed
      <3>2. \A h \in SavedHands : copies[h] \in Nat
        BY DEF ListInv, ListTypes
      <3>3. \A h \in SavedHands : Cardinality(TakenBy(h)') \in Nat
        <4>1. IsFiniteSet(Visits)
          BY VisitsFinite
        <4>2. \A h : TakenBy(h)' \in SUBSET Visits
          BY DEF TakenBy
        <4>3. \A h : IsFiniteSet(TakenBy(h)')
          BY ONLY <4>1, <4>2, FS_Subset
        <4> QED
          BY <4>3, FS_CardinalityType
      <3> QED
        BY <3>1, <3>2, <3>3 DEF CopiesCounted
    <2>1. Cardinality(TakenBy(h)') <= Cardinality(TakenBy(h)) + 1 /\ Cardinality(TakenBy(h)') \in Nat
      <3>1. PICK T : T = TakenBy(h)'
        OBVIOUS
      <3>2. T \subseteq Visits /\ \A w \in Visits : w # v => (w \in T <=> h \in sync[w].todo)
        BY <3>1, <1>4 DEF TakenBy
      <3> QED
        BY <3>1, <3>2, TakenOnce DEF ListInv
    <2>2. /\ copies[h] + Cardinality(TakenBy(h)) + Owed <= listSpent.visits + listSpent.signOuts
          /\ copies[h] \in Nat
      BY DEF ListInv, ListRules, CopiesCounted, ListTypes
    <2>3. Owed \in Nat
      BY DEF Owed
    <2>4. listSpent'.visits \in Nat /\ listSpent'.signOuts \in Nat
      BY DEF ListTypes, ListSpentType
    <2> QED
      BY <2>1, <2>2, <2>3, <2>4, VisitNumbers DEF ListInv
  <1>8. ASSUME Undisturbed'
        PROVE  /\ \A w \in Visits : sync[w].failed = {} /\ ~sync[w].on
               /\ \A h \in SavedHands : copies[h] # 0 => copies[h] = 1 /\ h \notin device
                                                         /\ \A w \in Visits : h \notin sync[w].todo
    <2>1. Undisturbed
      BY <1>8 DEF Undisturbed
    <2> QED
      BY <1>1, <2>1 DEF ListInv, ListRules, OneMigration, StoredAndGone
  <1>9. OneMigration'
    BY <1>1, <1>3, <1>4, <1>8 DEF OneMigration
  <1>10. StoredAndGone'
    <2> SUFFICES ASSUME Undisturbed', NEW h \in SavedHands, copies[h] # 0
                 PROVE  copies[h] = 1 /\ h \notin device /\ \A w \in Visits : h \notin sync'[w].todo
      BY DEF StoredAndGone
    <2> QED
      BY <1>3, <1>4, <1>8
  <1> QED
    BY <1>5, <1>6, <1>7, <1>9, <1>10 DEF ListInv, ListRules

\* The page is closed or the account left: what is under way is not looked at.
LEMMA CancelStep ==
  ASSUME ListInv, ListTypes', sync' = Cancelled, UNCHANGED <<server, copies, device, removed>>,
         list'.on => listSpent'.visits > 0, listSpent'.visits + listSpent'.signOuts <= ListMaxVisits,
         Owed' + listSpent.visits + listSpent.signOuts <= Owed + listSpent'.visits + listSpent'.signOuts,
         listSpent'.faults = listSpent.faults, listSpent'.left = listSpent.left + LeftHalfway
  PROVE  ListInv'
  <1>1. \A w \in Visits : /\ sync[w] \in SyncType /\ sync'[w] = [sync[w] EXCEPT !.live = FALSE]
    BY DEF Cancelled, ListInv, ListTypes
  <1>2. \A w \in Visits : /\ ~sync'[w].live /\ sync'[w].on = sync[w].on /\ sync'[w].todo = sync[w].todo
                           /\ sync'[w].failed = sync[w].failed
    BY <1>1 DEF SyncType
  <1>3. Visited' /\ Covered' /\ NoHandLost'
    BY <1>2 DEF Visited, SyncFits, Covered, NoHandLost, ListInv, ListRules
  <1>4. CopiesCounted'
    <2> SUFFICES ASSUME NEW h \in SavedHands
                 PROVE  copies[h] + Cardinality(TakenBy(h)') + Owed' <= listSpent'.visits + listSpent'.signOuts
      BY DEF CopiesCounted
    <2>1. TakenBy(h)' = TakenBy(h)
      BY <1>2 DEF TakenBy
    <2>2. copies[h] + Cardinality(TakenBy(h)) + Owed <= listSpent.visits + listSpent.signOuts /\ copies[h] \in Nat
      BY DEF ListInv, ListRules, CopiesCounted, ListTypes
    <2>3. Owed \in Nat /\ Owed' \in Nat
      BY DEF Owed
    <2>4. listSpent'.visits \in Nat /\ listSpent'.signOuts \in Nat
      BY DEF ListTypes, ListSpentType
    <2> QED
      BY <2>1, <2>2, <2>3, <2>4, VisitNumbers DEF ListInv
  <1>5. ASSUME Undisturbed' PROVE Undisturbed /\ \A w \in Visits : ~sync[w].live
    BY <1>5, VisitNumbers DEF Undisturbed, LeftHalfway, ListInv, ListTypes
  <1>6. OneMigration'
    BY <1>2, <1>5 DEF OneMigration, ListInv, ListRules
  <1>7. StoredAndGone'
    BY <1>2, <1>5 DEF StoredAndGone, ListInv, ListRules
  <1> QED
    BY <1>3, <1>4, <1>6, <1>7 DEF ListInv, ListRules

\* With the page closed, or nobody signed in, nothing is under way to leave.
LEMMA NoLive ==
  ASSUME ListInv, ~(list.on /\ account)
  PROVE  Cancelled = sync /\ LeftHalfway = 0
  <1>1. \A v \in Visits : sync[v] \in SyncType /\ ~sync[v].live
    BY DEF ListInv, ListTypes, ListRules, Visited, SyncFits
  <1>2. \A v \in Visits : [sync[v] EXCEPT !.live = FALSE] = sync[v]
    BY <1>1 DEF SyncType
  <1>3. DOMAIN sync = Visits /\ sync = [v \in Visits |-> sync[v]]
    BY DEF ListInv, ListTypes
  <1> QED
    BY <1>1, <1>2, <1>3 DEF Cancelled, LeftHalfway

\* What is no longer looked at is a migration.
LEMMA CancelledFits == ASSUME ListTypes PROVE Cancelled \in [Visits -> SyncType]
  BY DEF ListTypes, Cancelled, SyncType

\* One hand of the device is posted, and is stored, or fails, or both.
LEMMA MigratePostInv ==
  ASSUME ListInv, NEW v \in Visits, MigratePost(v)
  PROVE  ListInv'
  <1>1. PICK h \in sync[v].todo :
          /\ Stored(h) \/ UNCHANGED <<server, copies>>
          /\ \/ UNCHANGED listSpent /\ Stored(h)
                /\ sync' = [sync EXCEPT ![v] = [sync[v] EXCEPT !.todo = sync[v].todo \ {h}]]
             \/ listSpent' = Fault /\ sync' = [sync EXCEPT ![v] = FailedHand(sync[v], h)]
          /\ UNCHANGED <<device, removed, cached, account, list, removal>>
    BY DEF MigratePost
  <1>2. sync[v] \in SyncType /\ h \in SavedHands /\ sync[v].on
    BY <1>1 DEF ListInv, ListTypes, SyncType, ListRules, Visited, SyncFits
  <1>3. PICK m : /\ sync' = [sync EXCEPT ![v] = m]
                 /\ \/ m = [sync[v] EXCEPT !.todo = sync[v].todo \ {h}] /\ Stored(h)
                    \/ m = FailedHand(sync[v], h) /\ listSpent' = Fault
    BY <1>1
  <1>4. /\ m \in SyncType /\ m.on = sync[v].on /\ m.live = sync[v].live /\ m.todo = sync[v].todo \ {h}
        /\ sync[v].failed \subseteq m.failed /\ (h \in server' \/ h \in m.failed)
        /\ m.failed = sync[v].failed \/ listSpent' = Fault
    <2>1. CASE m = [sync[v] EXCEPT !.todo = sync[v].todo \ {h}] /\ Stored(h)
      BY <1>2, <2>1 DEF SyncType, Stored
    <2>2. CASE m = FailedHand(sync[v], h) /\ listSpent' = Fault
      BY <1>2, <2>2 DEF SyncType, FailedHand
    <2> QED
      BY <1>3, <2>1, <2>2
  <1>5. \A w \in Visits : sync'[w] = IF w = v THEN m ELSE sync[w]
    BY <1>3 DEF ListInv, ListTypes
  <1>6. /\ listSpent' \in ListSpentType /\ listSpent'.visits = listSpent.visits
        /\ listSpent'.signOuts = listSpent.signOuts
        /\ listSpent'.left = listSpent.left
        /\ Undisturbed' => Undisturbed /\ UNCHANGED listSpent
    BY <1>1, FaultTyped DEF ListInv, ListTypes, Undisturbed
  <1>7. /\ copies' \in [SavedHands -> Nat]
        /\ \A g \in SavedHands : copies'[g] = copies[g] \/ (g = h /\ copies'[g] = copies[g] + 1)
        /\ server \subseteq server' /\ server' \subseteq SavedHands
    BY <1>1, <1>2 DEF Stored, ListInv, ListTypes
  <1>8. ListTypes'
    BY <1>1, <1>3, <1>4, <1>6, <1>7 DEF ListInv, ListTypes
  <1>9. Visited'
    BY <1>1, <1>4, <1>5, <1>6 DEF ListInv, ListRules, Visited, SyncFits
  <1>10. NoHandLost'
    BY <1>1, <1>7 DEF ListInv, ListRules, NoHandLost
  <1>11. Covered'
    <2> SUFFICES ASSUME NEW w \in Visits, sync'[w].live, NEW g \in device
                 PROVE  g \in sync'[w].todo \cup sync'[w].failed \cup server' \cup removed
      BY <1>1 DEF Covered
    <2>1. g \in sync[w].todo \cup sync[w].failed \cup server \cup removed
      BY <1>4, <1>5 DEF ListInv, ListRules, Covered
    <2> QED
      BY <2>1, <1>4, <1>5, <1>7
  <1>12. CopiesCounted'
    <2> SUFFICES ASSUME NEW g \in SavedHands
                 PROVE  copies'[g] + Cardinality(TakenBy(g)') + Owed <= listSpent.visits + listSpent.signOuts
      BY <1>1, <1>6 DEF CopiesCounted, Owed
    <2>1. PICK T : T = TakenBy(g)'
      OBVIOUS
    <2>2. T \subseteq Visits /\ (\A w \in Visits : w # v => (w \in T <=> g \in sync[w].todo))
          /\ (v \in T <=> g \in sync[v].todo /\ g # h)
      BY <2>1, <1>4, <1>5 DEF TakenBy
    <2>3. /\ copies[g] + Cardinality(TakenBy(g)) + Owed <= listSpent.visits + listSpent.signOuts
          /\ copies[g] \in Nat /\ Owed \in Nat
      BY DEF ListInv, ListRules, CopiesCounted, ListTypes, Owed
    <2>4. CASE g = h
      <3>1. Cardinality(T) = Cardinality(TakenBy(g)) - 1 /\ Cardinality(T) \in Nat
        BY <2>2, <2>4, TakenOnce DEF ListInv
      <3> QED
        BY <2>1, <2>3, <3>1, <1>7, VisitNumbers DEF ListInv
    <2>5. CASE g # h
      <3>1. Cardinality(T) = Cardinality(TakenBy(g))
        BY <2>2, <2>5, TakenOnce DEF ListInv
      <3> QED
        BY <2>1, <2>3, <2>5, <3>1, <1>7, VisitNumbers DEF ListInv
    <2> QED
      BY <2>4, <2>5
  <1>13. OneMigration'
    <2>1. Undisturbed' => Undisturbed /\ listSpent' # Fault /\ Visit' = Visit
      BY <1>6, FaultTyped, VisitNumbers DEF ListInv, Undisturbed, Visit
    <2> QED
      BY <1>4, <1>5, <2>1 DEF ListInv, ListRules, OneMigration
  <1>14. StoredAndGone'
    <2> SUFFICES ASSUME Undisturbed', NEW g \in SavedHands, copies'[g] # 0
                 PROVE  /\ copies'[g] = 1 /\ \A w \in Visits : g \notin sync'[w].todo
                        /\ g \in device => \E w \in Visits : sync'[w].live
      BY <1>1 DEF StoredAndGone
    <2>1. Undisturbed /\ UNCHANGED listSpent /\ sync[v].live
      BY <1>2, <1>6 DEF ListInv, ListRules, OneMigration
    <2>2. CASE g = h
      <3>1. copies[h] = 0 /\ copies'[h] = 1
        <4>1. Stored(h)
          BY <1>1, <2>1, FaultTyped, VisitNumbers DEF ListInv
        <4>2. copies[h] = 0
          BY <1>1, <1>2, <2>1 DEF ListInv, ListRules, StoredAndGone
        <4> QED
          BY <4>1, <4>2, <1>2 DEF Stored, ListInv, ListTypes
      <3>2. \A w \in Visits : w # v => sync[w].todo = {}
        BY <2>1 DEF ListInv, ListRules, OneMigration, Visited, SyncFits
      <3> QED
        BY <1>4, <1>5, <2>1, <2>2, <3>1, <3>2
    <2>3. CASE g # h
      <3>1. copies'[g] = copies[g] /\ copies[g] = 1 /\ \A w \in Visits : g \notin sync[w].todo
        BY <1>7, <2>1, <2>3 DEF ListInv, ListRules, StoredAndGone
      <3> QED
        BY <1>4, <1>5, <2>1, <3>1
    <2> QED
      BY <2>2, <2>3
  <1> QED
    BY <1>8, <1>9, <1>10, <1>11, <1>12, <1>13, <1>14 DEF ListInv, ListRules

\* A migration ends: the device keeps what it failed to store, and nothing that it stored.
LEMMA MigrateEndsInv ==
  ASSUME ListInv, NEW v \in Visits, MigrateEnds(v)
  PROVE  ListInv'
  <1>1. /\ sync[v].on /\ sync[v].todo = {} /\ device' = Left(sync[v])
        /\ list' = IF sync[v].live THEN Fetching(list) ELSE list
        /\ sync' = [sync EXCEPT ![v] = NoSync]
        /\ UNCHANGED <<server, copies, removed, cached, account, removal, listSpent>>
    BY DEF MigrateEnds
  <1>2. sync[v] \in SyncType /\ (sync[v].live => list.on /\ account) /\ list \in ListType
    BY DEF ListInv, ListTypes, ListRules, Visited, SyncFits
  <1>3. /\ list' \in ListType /\ list'.on = list.on /\ (~list.on => list' = list)
    BY <1>1, <1>2, FetchingFits
  <1>4. device' = (IF sync[v].live THEN sync[v].failed ELSE device) /\ device' \subseteq SavedHands
    BY <1>1, <1>2 DEF Left, ListInv, ListTypes, SyncType
  <1>5. NoSync \in SyncType /\ ~NoSync.on /\ ~NoSync.live /\ NoSync.todo = {} /\ NoSync.failed = {}
    BY DEF NoSync, SyncType
  <1>6. \A w \in Visits : sync'[w] = IF w = v THEN NoSync ELSE sync[w]
    BY <1>1 DEF ListInv, ListTypes
  <1>7. ListTypes'
    BY <1>1, <1>3, <1>4, <1>5 DEF ListInv, ListTypes
  <1>8. Visited'
    BY <1>1, <1>3, <1>5, <1>6 DEF ListInv, ListRules, Visited, SyncFits
  <1>9. NoHandLost'
    BY <1>1, <1>4 DEF ListInv, ListRules, NoHandLost, Covered
  <1>10. Covered'
    <2> SUFFICES ASSUME NEW w \in Visits, w # v, sync[w].live, NEW g \in device'
                 PROVE  g \in sync[w].todo \cup sync[w].failed \cup server \cup removed
      BY <1>1, <1>5, <1>6 DEF Covered
    <2>1. CASE g \in device
      BY <2>1 DEF ListInv, ListRules, Covered
    <2>2. CASE g \notin device
      BY <2>2, <1>4 DEF ListInv, ListRules, NoHandLost
    <2> QED
      BY <2>1, <2>2
  <1>11. CopiesCounted'
    <2>1. \A g : TakenBy(g)' = TakenBy(g)
      BY <1>1, <1>5, <1>6 DEF TakenBy
    <2>2. Owed' = Owed
      BY <1>1, <1>3 DEF Owed
    <2> QED
      BY <1>1, <2>1, <2>2 DEF ListInv, ListRules, CopiesCounted
  <1>12. OneMigration'
    BY <1>1, <1>5, <1>6 DEF ListInv, ListRules, OneMigration, Undisturbed, Visit
  <1>13. StoredAndGone'
    <2> SUFFICES ASSUME Undisturbed, NEW g \in SavedHands, copies[g] # 0
                 PROVE  /\ copies[g] = 1 /\ \A w \in Visits : g \notin sync'[w].todo
                        /\ g \notin device'
      BY <1>1 DEF StoredAndGone, Undisturbed
    <2>1. device' = {}
      BY <1>1, <1>4 DEF ListInv, ListRules, OneMigration
    <2> QED
      BY <2>1, <1>5, <1>6 DEF ListInv, ListRules, StoredAndGone
  <1> QED
    BY <1>7, <1>8, <1>9, <1>10, <1>11, <1>12, <1>13 DEF ListInv, ListRules

\* The page opens and closes, the user signs out and in.
LEMMA VisitSteps == ListInv /\ (Mount \/ Unmount \/ SignOut \/ SignIn) => ListInv'
  <1>1. ASSUME ListInv, Mount PROVE ListInv'
    <2>1. /\ ~list.on /\ listSpent.visits + listSpent.signOuts < ListMaxVisits
          /\ list' = [(IF account THEN Fetching(ClosedList) ELSE ClosedList) EXCEPT !.on = TRUE]
          /\ sync' = IF account THEN [sync EXCEPT ![Visit + 1] = Migrated(sync[Visit + 1])] ELSE sync
          /\ listSpent' = [listSpent EXCEPT !.visits = listSpent.visits + 1]
          /\ UNCHANGED <<server, copies, device, removed, cached, account, removal>>
      BY <1>1 DEF Mount, MayMove
    <2>2. list' \in ListType /\ list'.on
      <3>1. PICK l \in ListType : list' = [l EXCEPT !.on = TRUE]
        BY <2>1, ClosedFits, FetchingFits
      <3> QED
        BY <3>1 DEF ListType
    <2>3. /\ listSpent' \in ListSpentType /\ listSpent'.visits = listSpent.visits + 1
          /\ listSpent'.signOuts = listSpent.signOuts /\ listSpent'.left = listSpent.left
          /\ listSpent'.faults = listSpent.faults
      BY <1>1, <2>1 DEF ListInv, ListTypes, ListSpentType
    <2>4. Visit + 1 \in Visits /\ Visit' = Visit + 1 /\ sync[Visit + 1] \in SyncType
      BY <1>1, <2>1, <2>3, VisitNumbers DEF ListInv, Visits, Visit, ListTypes
    <2>5. sync' \in [Visits -> SyncType]
      BY <1>1, <2>1, <2>4, MigratedFits DEF ListInv, ListTypes
    <2>6. ListTypes'
      BY <1>1, <2>1, <2>2, <2>3, <2>5 DEF ListInv, ListTypes
    <2>7. CASE account
      <3>1. listSpent.visits \in Nat /\ listSpent.signOuts \in Nat /\ ListMaxVisits \in Nat
        BY <1>1, VisitNumbers DEF ListInv
      <3>2. listSpent'.visits > 0 /\ listSpent'.visits + listSpent'.signOuts <= ListMaxVisits
        BY <2>1, <2>3, <3>1
      <3>3. Owed + listSpent'.visits + listSpent'.signOuts = listSpent.visits + listSpent.signOuts + 1
        BY <2>1, <2>3, <3>1 DEF Owed
      <3>4. account' /\ ~(list.on /\ account)
        BY <2>1, <2>7
      <3>5. PICK v \in Visits : v = Visit + 1
        BY <2>4
      <3>6. sync' = [sync EXCEPT ![v] = Migrated(sync[v])] /\ v = Visit'
        BY <2>1, <2>4, <2>7, <3>5
      <3> QED
        BY <1>1, <2>1, <2>2, <2>3, <2>6, <3>2, <3>3, <3>4, <3>6, StartStep
    <2>8. CASE ~account
      <3>1. listSpent.visits \in Nat /\ listSpent.signOuts \in Nat /\ ListMaxVisits \in Nat
        BY <1>1, VisitNumbers DEF ListInv
      <3>2. Owed' = 1 /\ Owed = 0
        BY <2>1, <2>2, <2>8 DEF Owed
      <3>3. sync' = Cancelled /\ LeftHalfway = 0 /\ listSpent.left \in Nat
        BY <1>1, <2>1, <2>8, NoLive, VisitNumbers DEF ListInv
      <3> QED
        BY <1>1, <2>1, <2>2, <2>3, <2>6, <3>1, <3>2, <3>3, CancelStep
    <2> QED
      BY <2>7, <2>8
  <1>2. ASSUME ListInv, Unmount PROVE ListInv'
    <2>1. /\ list' = ClosedList /\ sync' = Cancelled
          /\ listSpent' = [listSpent EXCEPT !.left = listSpent.left + LeftHalfway]
          /\ UNCHANGED <<server, copies, device, removed, cached, account, removal>>
      BY <1>2 DEF Unmount
    <2>2. /\ listSpent' \in ListSpentType /\ listSpent'.visits = listSpent.visits
          /\ listSpent'.signOuts = listSpent.signOuts /\ listSpent'.left = listSpent.left + LeftHalfway
          /\ listSpent'.faults = listSpent.faults
      BY <1>2, <2>1 DEF ListInv, ListTypes, ListSpentType, LeftHalfway
    <2>3. ListTypes'
      BY <1>2, <2>1, <2>2, ClosedFits, CancelledFits DEF ListInv, ListTypes
    <2>4. Owed' = 0 /\ Owed \in Nat
      BY <2>1, ClosedFits DEF Owed
    <2> QED
      BY <1>2, <2>1, <2>2, <2>3, <2>4, ClosedFits, CancelStep, VisitNumbers DEF ListInv, ListRules, Visited
  <1>3. ASSUME ListInv, SignOut PROVE ListInv'
    <2>1. /\ account /\ account' = FALSE /\ list' = [list EXCEPT !.items = {}, !.fetch = NoFetch] /\ sync' = Cancelled
          /\ listSpent.visits + listSpent.signOuts < ListMaxVisits
          /\ listSpent' = [listSpent EXCEPT !.signOuts = listSpent.signOuts + 1, !.left = listSpent.left + LeftHalfway]
          /\ UNCHANGED <<server, copies, device, removed, cached, removal>>
      BY <1>3 DEF SignOut, MayMove
    <2>2. /\ listSpent' \in ListSpentType /\ listSpent'.visits = listSpent.visits
          /\ listSpent'.signOuts = listSpent.signOuts + 1 /\ listSpent'.left = listSpent.left + LeftHalfway
          /\ listSpent'.faults = listSpent.faults
      <3>1. PICK n \in Nat : n = listSpent.left + LeftHalfway
        BY <1>3, VisitNumbers DEF ListInv, LeftHalfway
      <3>2. listSpent' = [listSpent EXCEPT !.signOuts = listSpent.signOuts + 1, !.left = n]
        BY <2>1, <3>1
      <3>3. PICK m \in Nat : m = listSpent.signOuts + 1
        BY <1>3, VisitNumbers DEF ListInv
      <3>4. listSpent' = [listSpent EXCEPT !.signOuts = m, !.left = n] /\ listSpent \in ListSpentType
        BY <1>3, <3>2, <3>3 DEF ListInv, ListTypes
      <3>5. /\ listSpent' \in ListSpentType /\ listSpent'.visits = listSpent.visits
            /\ listSpent'.signOuts = m /\ listSpent'.left = n /\ listSpent'.faults = listSpent.faults
        BY <3>4 DEF ListSpentType
      <3> QED
        BY <3>1, <3>3, <3>5
    <2>3. list' \in ListType /\ list'.on = list.on /\ (~list.on => list' = ClosedList)
      <3>1. list \in ListType /\ NoFetch \in FetchType
        BY <1>3 DEF ListInv, ListTypes, NoFetch, FetchType
      <3>2. list' \in ListType /\ list'.on = list.on
        BY <2>1, <3>1 DEF ListType
      <3>3. CASE ~list.on
        <4>1. list = ClosedList
          BY <1>3, <3>3 DEF ListInv, ListTypes
        <4> QED
          BY <2>1, <3>2, <4>1 DEF ClosedList
      <3> QED
        BY <3>2, <3>3
    <2>4. ListTypes'
      BY <1>3, <2>1, <2>2, <2>3, CancelledFits DEF ListInv, ListTypes
    <2>5. Owed' \in {0, 1} /\ Owed = 0
      BY <2>1 DEF Owed
    <2>6. listSpent.visits \in Nat /\ listSpent.signOuts \in Nat /\ ListMaxVisits \in Nat
      BY <1>3, VisitNumbers DEF ListInv
    <2>7. list.on => listSpent.visits > 0
      BY <1>3 DEF ListInv, ListRules, Visited
    <2> QED
      BY <1>3, <2>1, <2>2, <2>3, <2>4, <2>5, <2>6, <2>7, CancelStep
  <1>4. ASSUME ListInv, SignIn PROVE ListInv'
    <2>1. /\ ~account /\ account' = TRUE /\ list' = (IF list.on THEN Fetching(list) ELSE list)
          /\ sync' = IF list.on THEN [sync EXCEPT ![Visit] = Migrated(sync[Visit])] ELSE sync
          /\ UNCHANGED <<server, copies, device, removed, cached, removal, listSpent>>
      BY <1>4 DEF SignIn
    <2>2. list' \in ListType /\ list'.on = list.on /\ (~list.on => list' = list)
      BY <1>4, <2>1, FetchingFits DEF ListInv, ListTypes
    <2>3. /\ listSpent.visits \in Nat /\ listSpent.signOuts \in Nat /\ ListMaxVisits \in Nat
          /\ Visit = listSpent.visits
      BY <1>4, VisitNumbers DEF ListInv
    <2>4. (list.on => listSpent.visits > 0) /\ listSpent.visits + listSpent.signOuts <= ListMaxVisits
      BY <1>4 DEF ListInv, ListRules, Visited
    <2>5. list.on => Visit \in Visits /\ sync[Visit] \in SyncType
      BY <1>4, <2>3, <2>4 DEF Visits, ListInv, ListTypes
    <2>6. sync' \in [Visits -> SyncType]
      BY <1>4, <2>1, <2>5, MigratedFits DEF ListInv, ListTypes
    <2>7. ListTypes'
      BY <1>4, <2>1, <2>2, <2>6 DEF ListInv, ListTypes
    <2>8. CASE list.on
      <3>1. PICK v \in Visits : v = Visit
        BY <2>5, <2>8
      <3>2. sync' = [sync EXCEPT ![v] = Migrated(sync[v])] /\ v = Visit'
        BY <2>1, <2>8, <3>1 DEF Visit
      <3>3. Owed + listSpent'.visits + listSpent'.signOuts = listSpent.visits + listSpent.signOuts + 1
        BY <2>1, <2>3, <2>8 DEF Owed
      <3> QED
        BY <1>4, <2>1, <2>2, <2>4, <2>7, <2>8, <3>2, <3>3, StartStep
    <2>9. CASE ~list.on
      <3>1. Owed' = 0 /\ Owed = 0
        BY <2>1, <2>9 DEF Owed
      <3>2. sync' = Cancelled /\ LeftHalfway = 0
        BY <1>4, <2>1, <2>9, NoLive
      <3>3. listSpent.left \in Nat
        BY <1>4, VisitNumbers DEF ListInv
      <3> QED
        BY <1>4, <2>1, <2>2, <2>3, <2>4, <2>7, <3>1, <3>2, <3>3, <2>9, CancelStep
    <2> QED
      BY <2>8, <2>9
  <1> QED
    BY <1>1, <1>2, <1>3, <1>4

\* Each step of the page keeps the invariant.
LEMMA ListInvStep == ListInv /\ [ListNext]_listVars => ListInv'
  <1>1. ListInv /\ UNCHANGED listVars => ListInv'
    BY DEF listVars, ListInv, ListTypes, ListRules, Visited, Covered, NoHandLost, CopiesCounted, TakenBy, Owed,
       OneMigration, StoredAndGone, Undisturbed, Visit
  <1> QED
    BY <1>1, VisitSteps, FetchSteps, MigratePostInv, MigrateEndsInv, DeleteSteps DEF ListNext, Visits

\* A page that has not been opened.
LEMMA ListInvInit == ListInit => ListInv
  <1> SUFFICES ASSUME ListInit PROVE ListInv
    OBVIOUS
  <1>1. \A v \in Visits : sync[v] = NoSync
    BY DEF ListInit, Visits
  <1>2. NoSync \in SyncType /\ ~NoSync.on /\ ~NoSync.live /\ NoSync.todo = {} /\ NoSync.failed = {}
    BY DEF NoSync, SyncType
  <1>3. device \subseteq SavedHands /\ server = SavedHands \ device /\ removed = {} /\ cached = {}
    BY ListAssumption DEF ListInit
  <1>4. sync \in [Visits -> SyncType] /\ copies \in [SavedHands -> Nat] /\ listSpent \in ListSpentType
    BY <1>2 DEF ListInit, Visits, ListSpentType
  <1>5. removal \in [SavedHands -> RemovalType]
    BY DEF ListInit, NoRemoval, RemovalType
  <1>6. list = ClosedList /\ account \in BOOLEAN
    BY DEF ListInit
  <1>7. ListTypes
    BY <1>3, <1>4, <1>5, <1>6, ClosedFits DEF ListTypes
  <1>8. /\ listSpent.visits = 0 /\ listSpent.signOuts = 0 /\ ~list.on /\ ListMaxVisits \in Nat
        /\ \A h \in SavedHands : copies[h] = 0
    BY <1>6, ClosedFits, ListAssumption DEF ListInit
  <1>9. Visited /\ Covered /\ NoHandLost
    BY <1>1, <1>2, <1>3, <1>8 DEF Visited, SyncFits, Covered, NoHandLost
  <1>10. CopiesCounted
    <2>1. \A h : TakenBy(h) = {}
      BY <1>1, <1>2 DEF TakenBy
    <2>2. Owed = 0 /\ Cardinality({}) = 0
      BY <1>8, FS_EmptySet DEF Owed
    <2> QED
      BY <1>8, <2>1, <2>2 DEF CopiesCounted
  <1>11. OneMigration /\ StoredAndGone
    BY <1>1, <1>2, <1>8 DEF OneMigration, StoredAndGone
  <1> QED
    BY <1>7, <1>9, <1>10, <1>11 DEF ListInv, ListRules

\* The invariant holds of the list (HandHistoryTool.tsx).
LEMMA ListInvHolds == ListSpec => []ListInv
  BY ListInvInit, ListInvStep, PTL DEF ListSpec

\* It is what is promised of the list: types, no hand lost, and one migration of each.
LEMMA ListInvImplies == ListInv => ListTypeOK /\ NoHandLost /\ MigratedOnce
  <1> SUFFICES ASSUME ListInv PROVE ListTypeOK /\ NoHandLost /\ MigratedOnce
    OBVIOUS
  <1>1. copies \in [SavedHands -> 0 .. ListMaxVisits + ListMaxFaults]
    <2>1. ASSUME NEW h \in SavedHands PROVE copies[h] \in 0 .. ListMaxVisits + ListMaxFaults
      <3>1. copies[h] \in Nat /\ copies[h] + Cardinality(TakenBy(h)) + Owed <= ListMaxVisits
        BY VisitNumbers DEF ListInv, ListTypes, ListRules, CopiesCounted, Visited, Owed
      <3>2. Cardinality(TakenBy(h)) \in Nat /\ Owed \in Nat
        BY VisitNumbers DEF ListInv, Owed
      <3> QED
        BY <3>1, <3>2, ListAssumption
    <2> QED
      BY <2>1 DEF ListInv, ListTypes
  <1>2. ListTypeOK
    BY <1>1 DEF ListInv, ListTypes, ListType, FetchType, ListTypeOK, Visits
  <1>3. MigratedOnce
    <2>1. \A h \in SavedHands : copies[h] \in Nat
      BY DEF ListInv, ListTypes
    <2> QED
      BY <2>1 DEF ListInv, ListRules, StoredAndGone, Undisturbed, MigratedOnce
  <1> QED
    BY <1>2, <1>3 DEF ListInv, ListRules

-----------------------------------------------------------------------------
(* The replay: a text that arrives, is edited or is missed while it plays.      *)
LoadType == [shared : BOOLEAN, status : {"loading", "ready", "missing", "broken"},
             text : MaybeText, hit : BOOLEAN, ask : BOOLEAN]
LoadFits(l) == /\ l \in LoadType /\ (l.status = "ready" <=> l.text # NoText)
               /\ l.hit => ~l.shared /\ l.status \in {"ready", "broken"}
GetType == [stage : {"none", "sent", "read"}, text : MaybeText]
PlayerType == [cursor : Nat, playing : BOOLEAN, text : MaybeText]
ReplayTypes ==
  /\ row \in MaybeText /\ onDevice \in MaybeText /\ cachedText \in MaybeText /\ user \in BOOLEAN
  /\ LoadFits(load) /\ get \in GetType /\ player \in PlayerType

\* A hand of the device is shown for good, a fetch has a cached copy before it or the page
\* loading, and without a text the cursor is at the start.
DeviceShown == ~load.shared /\ onDevice # NoText =>
                 load.status = "ready" /\ load.text = onDevice /\ get.stage = "none"
FetchAwaited == get.stage # "none" /\ ~load.hit => load.status = "loading"
StartsAtStart == player.text = NoText => player.cursor = 0
\* The invariant of the replay: types, and a frame for the cursor.
ReplayInv == ReplayTypes /\ DeviceShown /\ FetchAwaited /\ StartsAtStart /\ FrameExists

\* Whatever is loaded fits; a hand of the device is, and a fetch waits behind a copy.
LEMMA LoadStateFits ==
  ASSUME NEW shared \in BOOLEAN, NEW u \in BOOLEAN, cachedText \in MaybeText, onDevice \in MaybeText
  PROVE  /\ LoadFits(LoadState(shared, u))
         /\ LoadState(shared, u).shared = shared
         /\ LoadState(shared, u).status # "broken"
         /\ LoadState(shared, u).ask /\ ~LoadState(shared, u).hit => LoadState(shared, u).status = "loading"
         /\ LoadState(shared, u).status = "ready" /\ ~LoadState(shared, u).hit =>
              ~shared /\ onDevice # NoText
         /\ ~shared /\ onDevice # NoText =>
              /\ LoadState(shared, u).status = "ready" /\ LoadState(shared, u).text = onDevice
              /\ ~LoadState(shared, u).ask
  BY DEF LoadFits, LoadType, LoadState, MaybeText

\* A text is known by its number of frames.
LEMMA TextsAreFrames == \A t \in MaybeText : t \in Int /\ (t # NoText => t \in Nat)
  BY ReplayAssumption DEF MaybeText, NoText

\* A render either shows the frame or breaks the page.
LEMMA RenderedFits ==
  ASSUME NEW l, LoadFits(l), player \in PlayerType
  PROVE  /\ LoadFits(Rendered(l)) /\ Rendered(l).shared = l.shared /\ Rendered(l).hit = l.hit
         /\ Rendered(l).ask = l.ask
         /\ Rendered(l).status = "ready" => Rendered(l) = l /\ player.cursor <= l.text
         /\ Rendered(l).status = "broken" => l.status = "broken" \/ (l.status = "ready" /\ player.cursor > l.text)
         /\ l.status = "ready" /\ player.cursor <= l.text => Rendered(l) = l
         /\ l.status # "ready" => Rendered(l) = l
  <1>1. l.text \in Int /\ player.cursor \in Nat
    BY TextsAreFrames DEF LoadFits, LoadType, PlayerType
  <1>2. CASE l.status = "ready" /\ player.cursor > l.text
    <2>1. Rendered(l) = [l EXCEPT !.status = "broken", !.text = NoText]
      BY <1>2 DEF Rendered
    <2>2. l \in LoadType /\ NoText \in MaybeText /\ (l.hit => ~l.shared)
      BY DEF LoadFits, MaybeText
    <2>3. /\ Rendered(l) \in LoadType /\ Rendered(l).status = "broken" /\ Rendered(l).text = NoText
          /\ Rendered(l).shared = l.shared /\ Rendered(l).hit = l.hit /\ Rendered(l).ask = l.ask
      BY <2>1, <2>2 DEF LoadType
    <2>4. ~(player.cursor <= l.text)
      BY <1>1, <1>2
    <2> QED
      BY <1>2, <2>2, <2>3, <2>4 DEF LoadFits
  <1>3. CASE ~(l.status = "ready" /\ player.cursor > l.text)
    BY <1>1, <1>3 DEF Rendered
  <1> QED
    BY <1>2, <1>3

\* The user changes: the device's text is what it was, and another one comes with its cache.
LEMMA UserChangesInv == ReplayInv /\ UserChanges => ReplayInv'
  <1> SUFFICES ASSUME ReplayInv, UserChanges PROVE ReplayInv'
    OBVIOUS
  <1>1. user' \in BOOLEAN /\ load.shared \in BOOLEAN /\ player \in PlayerType /\ LoadFits(load)
    BY DEF UserChanges, ReplayInv, ReplayTypes, LoadFits, LoadType
  <1>2. PICK l : l = LoadState(load.shared, user')
    OBVIOUS
  <1>3. /\ LoadFits(l) /\ l.shared = load.shared /\ l.status # "broken"
        /\ l.ask /\ ~l.hit => l.status = "loading"
        /\ l.status = "ready" /\ ~l.hit => ~load.shared /\ onDevice # NoText
        /\ ~load.shared /\ onDevice # NoText => l.status = "ready" /\ l.text = onDevice /\ ~l.ask
    BY <1>1, <1>2, LoadStateFits DEF ReplayInv, ReplayTypes
  <1>4. load' = Rendered(l) /\ get' = TextAsked(load')
        /\ UNCHANGED <<row, onDevice, cachedText, player>>
    BY <1>2 DEF UserChanges
  <1>5. /\ LoadFits(load') /\ load'.shared = load.shared /\ load'.hit = l.hit /\ load'.ask = l.ask
        /\ load'.status = "ready" => load' = l /\ player.cursor <= l.text
        /\ load'.status = "broken" => l.status = "ready" /\ player.cursor > l.text
        /\ l.status = "ready" /\ player.cursor <= l.text => load' = l
        /\ l.status # "ready" => load' = l
    BY <1>1, <1>3, <1>4, RenderedFits
  <1>6. ASSUME ~load.shared, onDevice # NoText PROVE l.status = "ready" /\ player.cursor <= l.text
    BY <1>3, <1>6 DEF ReplayInv, DeviceShown, FrameExists
  <1>7. get' \in GetType /\ (get'.stage # "none" => load'.ask /\ load'.status # "broken")
    BY <1>4 DEF TextAsked, NoGet, GetType, MaybeText
  <1>8. ReplayTypes'
    BY <1>1, <1>4, <1>5, <1>7 DEF ReplayInv, ReplayTypes
  <1>9. DeviceShown'
    BY <1>3, <1>4, <1>5, <1>6, <1>7 DEF DeviceShown
  <1>10. FetchAwaited'
    BY <1>3, <1>4, <1>5, <1>7 DEF FetchAwaited
  <1>11. FrameExists'
    <2>1. ASSUME load'.status = "broken" PROVE l.hit
      <3>1. l.status = "ready" /\ player.cursor > l.text
        BY <1>5, <2>1
      <3>2. ~(player.cursor <= l.text)
        BY <3>1, <1>1, <1>3, TextsAreFrames DEF LoadFits, LoadType, PlayerType
      <3> QED
        BY <3>1, <3>2, <1>3, <1>6
    <2> QED
      BY <1>3, <1>4, <1>5, <2>1 DEF FrameExists, LoadFits
  <1> QED
    BY <1>4, <1>8, <1>9, <1>10, <1>11 DEF ReplayInv, StartsAtStart

\* A text arrives: in the place of a copy, or of nothing.
LEMMA TextArrivesInv == ReplayInv /\ TextArrives => ReplayInv'
  <1> SUFFICES ASSUME ReplayInv, TextArrives PROVE ReplayInv'
    OBVIOUS
  <1>1. /\ get.text \in MaybeText /\ get.text # NoText /\ get.stage = "read" /\ player \in PlayerType
        /\ LoadFits(load)
    BY DEF TextArrives, ReplayInv, ReplayTypes, GetType
  <1>2. PICK l : l = [load EXCEPT !.status = "ready", !.text = get.text]
    OBVIOUS
  <1>3. LoadFits(l) /\ l.shared = load.shared /\ l.hit = load.hit /\ l.status = "ready" /\ l.text = get.text
    BY <1>1, <1>2 DEF LoadFits, LoadType
  <1>4. /\ load' = Rendered(l) /\ get' = NoGet /\ cachedText' \in {cachedText, get.text}
        /\ UNCHANGED <<row, onDevice, user, player>>
    BY <1>2 DEF TextArrives
  <1>5. /\ LoadFits(load') /\ load'.shared = load.shared /\ load'.hit = load.hit
        /\ load'.status = "ready" => player.cursor <= load'.text
        /\ load'.status = "broken" => player.cursor > get.text
    BY <1>1, <1>3, <1>4, RenderedFits
  <1>6. load.shared \/ onDevice = NoText
    BY <1>1 DEF ReplayInv, DeviceShown
  <1>7. ASSUME ~load.hit PROVE player.cursor = 0
    <2>1. load.status = "loading" /\ player.text = load.text
      BY <1>1, <1>7 DEF ReplayInv, FetchAwaited, TextArrives, LoadSettled, IsReset
    <2> QED
      BY <1>1, <2>1 DEF ReplayInv, StartsAtStart, LoadFits
  <1>8. FrameExists'
    <2>1. ASSUME load'.status = "broken" PROVE load.hit
      BY <2>1, <1>1, <1>5, <1>7, TextsAreFrames
    <2> QED
      BY <1>4, <1>5, <2>1 DEF FrameExists, LoadFits
  <1>9. ReplayTypes'
    BY <1>1, <1>4, <1>5 DEF ReplayInv, ReplayTypes, NoGet, GetType, MaybeText
  <1> QED
    BY <1>4, <1>5, <1>6, <1>8, <1>9 DEF ReplayInv, DeviceShown, FetchAwaited, StartsAtStart, NoGet

\* Each step of the page keeps the invariant: the cursor moves only within the text, and a new
\* text is shown as long as it has the cursor's frame.
LEMMA ReplayInvStep == ReplayInv /\ [ReplayNext]_replayVars => ReplayInv'
  <1> SUFFICES ASSUME ReplayInv, [ReplayNext]_replayVars PROVE ReplayInv'
    OBVIOUS
  <1> USE TextsAreFrames
  <1>0. load.text \in MaybeText /\ player.cursor \in Nat /\ load \in LoadType /\ player \in PlayerType
    BY DEF ReplayInv, ReplayTypes, LoadFits, LoadType, PlayerType
  <1>1. CASE UserChanges
    BY <1>1, UserChangesInv
  <1>2. CASE ServeText
    BY <1>2 DEF ServeText, ReplayInv, ReplayTypes, DeviceShown, FetchAwaited, StartsAtStart, GetType, Held, FrameExists
  <1>3. CASE TextArrives
    BY <1>3, TextArrivesInv
  <1>4. CASE Miss
    <2>1. /\ load' = Missed(load) /\ get' = NoGet /\ Held /\ player' = player /\ get.stage = "read"
      BY <1>4 DEF Miss
    <2>2. /\ LoadFits(load') /\ load'.shared = load.shared /\ load'.status # "broken"
          /\ load'.status = "ready" => load' = load
      BY <1>0, <1>4, <2>1 DEF Miss, Missed, LoadSettled, Mounted, ReplayInv, ReplayTypes, LoadFits, LoadType, MaybeText
    <2>3. FrameExists'
      BY <2>1, <2>2 DEF FrameExists, ReplayInv
    <2>4. get' \in GetType /\ get'.stage = "none"
      BY <2>1 DEF NoGet, MaybeText, GetType
    <2> QED
      BY <2>1, <2>2, <2>3, <2>4 DEF ReplayInv, ReplayTypes, DeviceShown, FetchAwaited, StartsAtStart, Held
  <1>5. CASE Edit
    BY <1>5 DEF Edit, ReplayInv, ReplayTypes, DeviceShown, FetchAwaited, StartsAtStart, FrameExists, MaybeText
  <1>6. CASE ResetEffect
    <2>1. player' = [cursor |-> 0, playing |-> FALSE, text |-> load.text] /\ Held /\ load' = load /\ get' = get
      BY <1>6 DEF ResetEffect, Restarted
    <2>2. load.status = "ready" => 0 <= load.text
      BY <1>0 DEF ReplayInv, ReplayTypes, LoadFits
    <2> QED
      BY <1>0, <2>1, <2>2 DEF Held, ReplayInv, ReplayTypes, DeviceShown, FetchAwaited, StartsAtStart, FrameExists, PlayerType
  <1>7. ASSUME Playable, player' \in PlayerType, player'.text = player.text, player'.cursor <= load.text,
               Held, load' = load, get' = get
        PROVE  ReplayInv'
    <2>1. load.status = "ready" /\ player.text = load.text /\ load.text # NoText
      BY <1>7 DEF Playable, LoadSettled, IsReset, ReplayInv, ReplayTypes, LoadFits
    <2> QED
      BY <1>7, <2>1 DEF Held, ReplayInv, ReplayTypes, DeviceShown, FetchAwaited, StartsAtStart, FrameExists
  <1>8. CASE Scrub
    <2>1. PICK c \in {0, player.cursor - 1, player.cursor + 1, load.text} \cap 0 .. load.text :
             player' = [player EXCEPT !.playing = FALSE, !.cursor = c]
      BY <1>8 DEF Scrub
    <2>2. c \in Nat /\ c <= load.text
      BY <1>0, <2>1
    <2>3. player' \in PlayerType /\ player'.text = player.text /\ player'.cursor = c
      BY <1>0, <2>1, <2>2 DEF PlayerType
    <2>4. Playable /\ Held /\ load' = load /\ get' = get
      BY <1>8 DEF Scrub
    <2>5. player'.cursor <= load.text
      BY ONLY <2>2, <2>3
    <2> QED
      BY ONLY <1>7, <2>3, <2>4, <2>5
  <1>9. CASE TogglePlay
    <2>1. load.text \in Nat /\ player.cursor <= load.text
      BY <1>0, <1>9 DEF TogglePlay, Playable, ReplayInv, ReplayTypes, LoadFits, FrameExists
    <2>2. PICK b \in BOOLEAN : b = ~player.playing
      OBVIOUS
    <2>3. \/ player' = [player EXCEPT !.cursor = 0, !.playing = TRUE]
          \/ player' = [player EXCEPT !.playing = b]
      BY <1>9, <2>2 DEF TogglePlay
    <2>4. player' \in PlayerType /\ player'.text = player.text /\ player'.cursor \in {0, player.cursor}
      <3>1. CASE player' = [player EXCEPT !.cursor = 0, !.playing = TRUE]
        BY ONLY <1>0, <3>1 DEF PlayerType
      <3>2. CASE player' = [player EXCEPT !.playing = b]
        BY ONLY <1>0, <2>2, <3>2 DEF PlayerType
      <3> QED
        BY <2>3, <3>1, <3>2
    <2> QED
      BY <1>0, <1>7, <1>9, <2>1, <2>4 DEF TogglePlay
  <1>10. CASE Tick
    <2>1. player' = [player EXCEPT !.cursor = player.cursor + 1] /\ player.cursor < load.text
      BY <1>0, <1>10 DEF Tick, Playable, LoadSettled, AtEnd
    <2> QED
      BY <1>0, <1>7, <1>10, <2>1 DEF Tick, PlayerType
  <1>11. CASE EndPlayback
    <2>1. player' = [player EXCEPT !.playing = FALSE] /\ Held /\ load' = load /\ get' = get
      BY <1>11 DEF EndPlayback
    <2>2. player' \in PlayerType /\ player'.text = player.text /\ player'.cursor = player.cursor
      BY <1>0, <2>1 DEF PlayerType
    <2> QED
      BY <2>1, <2>2 DEF Held, ReplayInv, ReplayTypes, DeviceShown, FetchAwaited, StartsAtStart, FrameExists
  <1>12. CASE UNCHANGED replayVars
    BY <1>12 DEF replayVars, ReplayInv, ReplayTypes, DeviceShown, FetchAwaited, StartsAtStart, FrameExists
  <1> QED
    BY <1>1, <1>2, <1>3, <1>4, <1>5, <1>6, <1>8, <1>9, <1>10, <1>11, <1>12 DEF ReplayNext

\* A page that opens.
LEMMA ReplayInvInit == ReplayInit => ReplayInv
  <1> SUFFICES ASSUME ReplayInit PROVE ReplayInv
    OBVIOUS
  <1>1. PICK shared \in BOOLEAN : load = LoadState(shared, FALSE)
    BY DEF ReplayInit
  <1>2. /\ LoadFits(load) /\ load.status # "broken" /\ load.shared = shared
        /\ load.ask /\ ~load.hit => load.status = "loading"
        /\ ~shared /\ onDevice # NoText => load.status = "ready" /\ load.text = onDevice /\ ~load.ask
    BY <1>1, LoadStateFits DEF ReplayInit
  <1>3. get \in GetType /\ (get.stage # "none" => load.ask)
    BY DEF ReplayInit, TextAsked, NoGet, MaybeText, GetType
  <1>4. load.text \in MaybeText /\ (load.status = "ready" => load.text \in Nat)
    BY <1>2, TextsAreFrames DEF LoadFits, LoadType
  <1>5. player = [cursor |-> 0, playing |-> FALSE, text |-> load.text]
    BY DEF ReplayInit
  <1>6. FrameExists /\ StartsAtStart /\ player \in PlayerType
    BY <1>2, <1>4, <1>5 DEF FrameExists, StartsAtStart, PlayerType
  <1> QED
    BY <1>2, <1>3, <1>6 DEF ReplayInit, ReplayInv, ReplayTypes, DeviceShown, FetchAwaited

\* The invariant holds of the replay (HandReplay.tsx).
LEMMA ReplayInvHolds == ReplaySpec => []ReplayInv
  BY ReplayInvInit, ReplayInvStep, PTL DEF ReplaySpec

\* It is what is promised of the replay: types, a frame for the cursor, and what was cached shows.
LEMMA ReplayInvImplies == ReplayInv => ReplayTypeOK /\ FrameExists /\ CachedReplayStays
  BY DEF ReplayInv, ReplayTypes, GetType, PlayerType, ReplayTypeOK, CachedReplayStays, LoadFits, LoadType

-----------------------------------------------------------------------------
(* The equities of the first showdown of a visit.                               *)

\* A simulation computes as long as a pool runs.
SimFits(s) == s \in SimType(Keys) /\ (s.computing <=> s.run # 0)
\* The equities shown are none, or a request's.
PctFits(p) == p \in Keys \cup {NoPct}
SavedType == [key : Keys, pct : Keys]
\* The types of the showdown.
EquityTypes ==
  /\ req \in Keys \cup {0} /\ startedKey \in {0, req}
  /\ sims \in [{1, 2} -> SimType(Keys)] /\ \A i \in {1, 2} : SimFits(sims[i])
  /\ PctFits(pct) /\ (pct # NoPct => req # 0)
  /\ autoSaved \in BOOLEAN /\ savedPct \subseteq SavedType /\ droppedRequests \in BOOLEAN
  /\ showdowns \in 0 .. MaxShowdowns /\ workerFaults \in 0 .. MaxWorkerFaults

\* Before the first showdown nothing has been asked.
NotAsked == showdowns = 0 => /\ \A i \in {1, 2} : sims[i] = IdleSim
                             /\ req = 0 /\ savedPct = {}
\* The first one's simulations are its own and final once they end.
OnlyShowdown == showdowns = 1 /\ workerFaults = 0
FinalAndOwn ==
  OnlyShowdown =>
    \A i \in {1, 2} : /\ sims[i].of # 0 /\ ~sims[i].computing => sims[i].final
                      /\ req # 0 => sims[i].run \in {0, req} /\ sims[i].of \in {0, req}
\* What is shown is of its own request, and the first board's simulation has ended.
PctIsOwn == OnlyShowdown /\ pct # NoPct => pct = req /\ sims[1].run = 0 /\ sims[1].of = req
\* What was saved with the hand is of its own cards.
SavedIsOwn == OnlyShowdown => \A s \in savedPct : s.pct = s.key
EquityInv == EquityTypes /\ NotAsked /\ FinalAndOwn /\ PctIsOwn /\ SavedIsOwn

\* The keys of showdowns are numbers, and none is 0.
LEMMA KeysAreNumbers == \A k \in Keys : k \in Nat /\ k # 0
  BY ShowdownAssumption DEF Keys

\* What a simulation may go through fits.
LEMMA SimSteps ==
  ASSUME NEW s, SimFits(s), NEW k \in Keys
  PROVE  /\ SimFits(Sampled(s, k)) /\ SimFits(Canceled(s)) /\ SimFits(Reported(s))
         /\ SimFits(Converged(s)) /\ SimFits(PoolFailed(s))
  <1>1. /\ s \in [computing : BOOLEAN, run : Keys \cup {0}, of : Keys \cup {0},
                  final : BOOLEAN, exact : SUBSET Enumerations(Keys)]
        /\ s.computing <=> s.run # 0
    BY DEF SimFits, SimType
  <1>2. Unpooled(s.exact) \in SUBSET Enumerations(Keys)
    BY <1>1 DEF Unpooled, Enumerations
  <1>3. {w \in s.exact : ~w.pooled} \in SUBSET Enumerations(Keys)
    BY <1>1
  <1> QED
    BY <1>1, <1>2, <1>3, KeysAreNumbers DEF SimFits, SimType, Sampled, Canceled, Reported, Converged, PoolFailed

\* The equities that are shown fit.
LEMMA CombinedFits ==
  ASSUME NEW k \in Keys \cup {0}, NEW rendered \in [{1, 2} -> SimType(Keys)], NEW p, PctFits(p)
  PROVE  PctFits(Combined(k, rendered, p))
  <1>1. rendered[1].of \in Keys \cup {0}
    BY DEF SimType
  <1>2. Combined(k, rendered, p) = p \/ (Combined(k, rendered, p) = rendered[1].of /\ rendered[1].of # 0)
    BY DEF Combined, Settled
  <1> QED
    BY <1>1, <1>2 DEF PctFits

\* The auto-save keeps the types; what is saved is what is shown.
LEMMA AutoSavesFits ==
  ASSUME EquityTypes, NEW k \in Keys \cup {0}, NEW p, PctFits(p), p # NoPct => k # 0, AutoSaves(k, p)
  PROVE  /\ autoSaved' \in BOOLEAN /\ savedPct' \subseteq SavedType
         /\ \A s \in savedPct' : s \in savedPct \/ (p # NoPct /\ s.key = k /\ s.pct = p)
  <1>1. autoSaved' \in BOOLEAN
    BY DEF AutoSaves
  <1>2. savedPct' = savedPct \/ (p # NoPct /\ savedPct' = savedPct \cup {[key |-> k, pct |-> p]})
    BY DEF AutoSaves
  <1>3. p # NoPct => [key |-> k, pct |-> p] \in SavedType
    BY DEF PctFits, SavedType
  <1> QED
    BY <1>1, <1>2, <1>3 DEF EquityTypes

\* A showdown asks for its equities: the first is the only one until the next.
LEMMA NewRequestInv ==
  ASSUME EquityInv, NEW k \in Keys, NewRequest(k)
  PROVE  EquityInv'
  <1>1. /\ showdowns < MaxShowdowns /\ showdowns' = showdowns + 1 /\ req' = k /\ startedKey' = k
        /\ sims' = Started(k) /\ pct' = Combined(k, sims, NoPct) /\ AutoSaves(k, pct')
        /\ droppedRequests' = (droppedRequests \/ sims[1].computing)
        /\ workerFaults' = workerFaults
    BY DEF NewRequest
  <1>2. PctFits(NoPct) /\ k # 0
    BY KeysAreNumbers DEF PctFits
  <1>3. PctFits(pct')
    BY <1>1, <1>2, CombinedFits DEF EquityInv, EquityTypes
  <1>4. /\ sims'[1] = Sampled(sims[1], k) /\ sims'[2] \in {Sampled(sims[2], k), Canceled(sims[2])}
        /\ sims' = <<sims'[1], sims'[2]>>
    BY <1>1 DEF Started
  <1>5. SimFits(sims'[1]) /\ SimFits(sims'[2])
    BY <1>4, SimSteps DEF EquityInv, EquityTypes
  <1>6. sims' \in [{1, 2} -> SimType(Keys)]
    BY <1>4, <1>5 DEF SimFits
  <1>7. EquityTypes'
    <2>1. autoSaved' \in BOOLEAN /\ savedPct' \subseteq SavedType
      BY <1>1, <1>2, <1>3, AutoSavesFits DEF EquityInv
    <2>2. droppedRequests' \in BOOLEAN
      BY <1>1 DEF EquityInv, EquityTypes
    <2>3. showdowns' \in 0 .. MaxShowdowns
      BY <1>1, ShowdownAssumption DEF EquityInv, EquityTypes
    <2> QED
      BY <1>1, <1>2, <1>3, <1>5, <1>6, <2>1, <2>2, <2>3 DEF EquityInv, EquityTypes
  <1>8. showdowns' # 0 /\ (OnlyShowdown' => showdowns = 0)
    BY <1>1 DEF EquityInv, EquityTypes, OnlyShowdown
  <1>9. ASSUME OnlyShowdown'
        PROVE  /\ pct' = NoPct /\ savedPct' = {}
               /\ \A i \in {1, 2} : sims'[i].of = 0 /\ sims'[i].run \in {0, k}
    <2>1. \A i \in {1, 2} : sims[i] = IdleSim
      BY <1>8, <1>9 DEF EquityInv, NotAsked
    <2>2. pct' = NoPct
      BY <2>1, <1>1 DEF Combined, Settled, IdleSim
    <2>3. savedPct' = {}
      BY <2>2, <1>1, <1>8, <1>9 DEF AutoSaves, EquityInv, NotAsked
    <2>4. \A i \in {1, 2} : sims'[i].of = 0 /\ sims'[i].run \in {0, k}
      <3>1. /\ Sampled(IdleSim, k).of = 0 /\ Sampled(IdleSim, k).run = k
            /\ Canceled(IdleSim).of = 0 /\ Canceled(IdleSim).run = 0
        BY DEF Sampled, Canceled, IdleSim
      <3>2. /\ sims'[1] = Sampled(IdleSim, k)
            /\ sims'[2] = Sampled(IdleSim, k) \/ sims'[2] = Canceled(IdleSim)
        BY <2>1, <1>4
      <3> QED
        BY <3>1, <3>2
    <2> QED
      BY <2>2, <2>3, <2>4
  <1> QED
    BY <1>1, <1>7, <1>8, <1>9 DEF EquityInv, NotAsked, FinalAndOwn, PctIsOwn, SavedIsOwn

\* The next hand asks for nothing.
LEMMA NextHandInv == EquityInv /\ NextHand => EquityInv'
  <1> SUFFICES ASSUME EquityInv, NextHand PROVE EquityInv'
    OBVIOUS
  <1>1. /\ req' = 0 /\ startedKey' = 0 /\ pct' = NoPct /\ autoSaved' = FALSE
        /\ UNCHANGED <<sims, savedPct, showdowns, droppedRequests, workerFaults>>
    BY DEF NextHand
  <1>2. PctFits(NoPct)
    BY DEF PctFits
  <1> QED
    BY <1>1, <1>2 DEF EquityInv, EquityTypes, NotAsked, FinalAndOwn, PctIsOwn, SavedIsOwn, OnlyShowdown

\* A simulation's state changes: to one that fits, and without a fault to its own.
LEMMA RerenderedInv ==
  ASSUME EquityInv, NEW i \in {1, 2}, NEW sim, SimFits(sim), Rerendered(i, sim),
         sims[i].run # 0, workerFaults' \in 0 .. MaxWorkerFaults,
         workerFaults' = 0 => workerFaults = 0 /\ sim.of = sims[i].run /\ sim.run \in {0, sims[i].run}
                              /\ (~sim.computing => sim.final)
  PROVE  EquityInv'
  <1>1. /\ sims' = [sims EXCEPT ![i] = sim] /\ AutoSaves(req, pct')
        /\ pct' = pct \/ (req # 0 /\ pct' = Combined(req, sims', pct))
        /\ UNCHANGED <<req, startedKey, showdowns, droppedRequests>>
    BY DEF Rerendered
  <1>2. /\ sims' \in [{1, 2} -> SimType(Keys)]
        /\ \A j \in {1, 2} : SimFits(sims'[j]) /\ sims'[j] = IF j = i THEN sim ELSE sims[j]
    BY <1>1 DEF EquityInv, EquityTypes, SimFits
  <1>3. PctFits(pct') /\ (pct' # NoPct => req # 0)
    BY <1>1, <1>2, CombinedFits DEF EquityInv, EquityTypes
  <1>4. /\ autoSaved' \in BOOLEAN /\ savedPct' \subseteq SavedType
        /\ \A s \in savedPct' : s \in savedPct \/ (pct' # NoPct /\ s.key = req /\ s.pct = pct')
    BY <1>1, <1>3, AutoSavesFits DEF EquityInv, EquityTypes
  <1>5. EquityTypes'
    BY <1>1, <1>2, <1>3, <1>4 DEF EquityInv, EquityTypes
  <1>6. showdowns # 0 /\ NotAsked'
    BY <1>1 DEF EquityInv, NotAsked, IdleSim
  <1>7. OnlyShowdown' => OnlyShowdown
    BY <1>1 DEF OnlyShowdown
  <1>8. FinalAndOwn'
    BY <1>1, <1>2, <1>7 DEF EquityInv, FinalAndOwn, OnlyShowdown
  <1>9. PctIsOwn'
    <2> SUFFICES ASSUME OnlyShowdown', pct' # NoPct
                 PROVE  pct' = req /\ sims'[1].run = 0 /\ sims'[1].of = req
      BY <1>1 DEF PctIsOwn
    <2>1. CASE pct' = pct
      <3>1. pct = req /\ sims[1].run = 0 /\ sims[1].of = req
        BY <2>1, <1>7 DEF EquityInv, PctIsOwn
      <3> QED
        BY <2>1, <3>1, <1>2
    <2>2. CASE pct' # pct
      <3>1. req # 0 /\ Settled(sims'[1], req) /\ pct' = sims'[1].of
        BY <2>2, <1>1 DEF Combined
      <3>2. sims'[1].of = req /\ sims'[1].run = 0
        BY <3>1, <1>1, <1>2, <1>8 DEF Settled, SimFits, FinalAndOwn
      <3> QED
        BY <3>1, <3>2
    <2> QED
      BY <2>1, <2>2
  <1>10. SavedIsOwn'
    BY <1>1, <1>4, <1>7, <1>9 DEF EquityInv, SavedIsOwn, PctIsOwn
  <1> QED
    BY <1>5, <1>6, <1>8, <1>9, <1>10 DEF EquityInv

\* Each step of the showdown keeps the invariant.
LEMMA EquityInvStep == EquityInv /\ [EquityNext]_equityVars => EquityInv'
  <1>1. ASSUME EquityInv, NEW i \in {1, 2}, Report(i) \/ Converge(i) \/ WorkerFails(i) PROVE EquityInv'
    <2>1. SimFits(sims[i]) /\ sims[i].run # 0 /\ sims[i].run \in Keys
      BY <1>1 DEF EquityInv, EquityTypes, SimFits, SimType, Report, Converge, WorkerFails
    <2>2. sims[i].computing /\ workerFaults \in 0 .. MaxWorkerFaults
      BY <1>1, <2>1 DEF EquityInv, EquityTypes, SimFits
    <2>3. /\ SimFits(Reported(sims[i])) /\ SimFits(Converged(sims[i])) /\ SimFits(PoolFailed(sims[i]))
      BY <2>1, SimSteps
    <2>4. CASE Report(i)
      <3>1. PICK sim : sim = Reported(sims[i])
        OBVIOUS
      <3>2. SimFits(sim) /\ sim.of = sims[i].run /\ sim.run = sims[i].run /\ sim.computing
        BY <2>1, <2>2, <2>3, <3>1 DEF Reported, SimFits, SimType
      <3>3. Rerendered(i, sim) /\ workerFaults' = workerFaults
        BY <2>4, <3>1 DEF Report
      <3> QED
        BY <1>1, <2>1, <2>2, <3>2, <3>3, RerenderedInv
    <2>5. CASE Converge(i)
      <3>1. PICK sim : sim = Converged(sims[i])
        OBVIOUS
      <3>2. SimFits(sim) /\ sim.of = sims[i].run /\ sim.run = 0 /\ sim.final
        BY <2>1, <2>2, <2>3, <3>1 DEF Converged, SimFits, SimType
      <3>3. Rerendered(i, sim) /\ workerFaults' = workerFaults
        BY <2>5, <3>1 DEF Converge
      <3> QED
        BY <1>1, <2>1, <2>2, <3>2, <3>3, RerenderedInv
    <2>6. CASE WorkerFails(i)
      <3>1. PICK sim : sim = PoolFailed(sims[i])
        OBVIOUS
      <3>2. Rerendered(i, sim) /\ workerFaults' = workerFaults + 1 /\ workerFaults < MaxWorkerFaults
        BY <2>6, <3>1 DEF WorkerFails
      <3>3. workerFaults' \in 0 .. MaxWorkerFaults /\ workerFaults' # 0
        BY <2>2, <3>2, ShowdownAssumption
      <3> QED
        BY <1>1, <2>1, <2>3, <3>1, <3>2, <3>3, RerenderedInv
    <2> QED
      BY <1>1, <2>4, <2>5, <2>6
  <1>2. EquityInv /\ UNCHANGED equityVars => EquityInv'
    BY DEF equityVars, EquityInv, EquityTypes, NotAsked, FinalAndOwn, PctIsOwn, SavedIsOwn, OnlyShowdown
  <1> QED
    BY <1>1, <1>2, NewRequestInv, NextHandInv DEF EquityNext

\* A page that opens.
LEMMA EquityInvInit == EquityInit => EquityInv
  <1> SUFFICES ASSUME EquityInit PROVE EquityInv
    OBVIOUS
  <1>1. sims = <<IdleSim, IdleSim>> /\ SimFits(IdleSim)
    BY DEF EquityInit, SimFits, SimType, IdleSim
  <1>2. sims \in [{1, 2} -> SimType(Keys)] /\ \A i \in {1, 2} : sims[i] = IdleSim
    BY <1>1 DEF SimFits
  <1>3. PctFits(NoPct)
    BY DEF PctFits
  <1> QED
    <2>1. EquityTypes
      <3>1. \A i \in {1, 2} : SimFits(sims[i])
        BY <1>1, <1>2
      <3>2. /\ req \in Keys \cup {0} /\ startedKey \in {0, req} /\ pct = NoPct
            /\ autoSaved \in BOOLEAN /\ savedPct \subseteq SavedType /\ droppedRequests \in BOOLEAN
        BY DEF EquityInit
      <3>3. showdowns \in 0 .. MaxShowdowns /\ workerFaults \in 0 .. MaxWorkerFaults
        BY ShowdownAssumption DEF EquityInit
      <3> QED
        BY <1>2, <1>3, <3>1, <3>2, <3>3 DEF EquityTypes
    <2>2. NotAsked /\ FinalAndOwn /\ PctIsOwn /\ SavedIsOwn
      BY <1>2 DEF EquityInit, NotAsked, FinalAndOwn, PctIsOwn, SavedIsOwn, OnlyShowdown
    <2> QED
      BY <2>1, <2>2 DEF EquityInv

\* The invariant holds of the equities of the recorder (useShowdownEquity.ts).
LEMMA EquityInvHolds == EquitySpec => []EquityInv
  BY EquityInvInit, EquityInvStep, PTL DEF EquitySpec

\* It is what is promised of them: types, and the first showdown's equities are its own.
LEMMA EquityInvImplies == EquityInv => EquityTypeOK /\ FirstIsOwn
  <1> SUFFICES ASSUME EquityInv PROVE EquityTypeOK /\ FirstIsOwn
    OBVIOUS
  <1>1. EquityTypeOK
    BY DEF EquityInv, EquityTypes, EquityTypeOK, SimFits, PctFits, SavedType
  <1>2. FirstIsOwn
    <2> SUFFICES ASSUME OnlyShowdown
                 PROVE  /\ \A s \in savedPct : s.pct = s.key
                        /\ pct # NoPct => pct = req /\ sims[1].of = req /\ sims[1].final
      BY DEF FirstIsOwn, OnlyShowdown
    <2>1. ASSUME pct # NoPct PROVE pct = req /\ sims[1].of = req /\ sims[1].final
      <3>1. sims[1].run = 0 /\ sims[1].of = req /\ req # 0 /\ pct = req
        BY <2>1 DEF EquityInv, PctIsOwn, EquityTypes
      <3>2. sims[1].final
        BY <3>1 DEF EquityInv, FinalAndOwn, EquityTypes, SimFits
      <3> QED
        BY <3>1, <3>2
    <2> QED
      BY <2>1 DEF EquityInv, SavedIsOwn
  <1> QED
    BY <1>1, <1>2

-----------------------------------------------------------------------------
(* The editor of the recorder.  Its frames are faithful because the frame shown *)
(* stands in a story: those undone before it and after it are all told by the   *)
(* table as it is now, and each line goes on from the one before.  That a frame *)
(* is told by its line needs lines of any length, played at any table: first    *)
(* what any such line leads to.                                                 *)

\* Its chips are kept, and one board has no second winners.
Whole(e, t) == e \in EngineType /\ Chips(e, t) /\ (e.boards = 1 => e.winners2 = Undecided)
\* Such an engine waits for nobody, or for somebody who can act.
InPlay(e, t) == Whole(e, t) /\ (e.toAct = NoOne \/ e.toAct \in CanAct(e))

\* Who can act has a seat, chips behind his bets, and is not all-in.
LEMMA ActorWhole ==
  ASSUME NEW t, NEW e, Whole(e, t), NEW p, p \in CanAct(e)
  PROVE  /\ p \in e.players /\ p \in Seats /\ p \in Live(e) /\ p \notin e.allIn
         /\ e.stack[p] \in Nat /\ e.committed[p] \in Nat /\ e.currentBet \in Nat /\ e.street \in NotFolded .. River
  BY DEF Whole, EngineType, CanAct, Live, Preflop, NotFolded

\* What is no chip may change.
LEMMA ControlWhole ==
  ASSUME NEW t, NEW e, Whole(e, t), NEW bet \in Nat, NEW raise \in Nat,
         NEW A \in SUBSET Seats, NEW to \in Seats \cup {NoOne}, NEW f, f = Control(e, bet, raise, A, to)
  PROVE  Whole(f, t) /\ Steered(e, f, bet, raise, A, to)
  <1>1. e \in EngineType /\ Chips(e, t)
    BY DEF Whole
  <1>2. f \in EngineType /\ Chips(f, t) /\ Steered(e, f, bet, raise, A, to)
    BY <1>1, ControlFits
  <1> QED
    BY <1>2 DEF Whole, Steered

\* A player is put down as having acted.
LEMMA ActedWhole ==
  ASSUME NEW t, NEW e, Whole(e, t), NEW p \in Seats
  PROVE  Whole(Acted(e, p), t) /\ Acted(e, p).toAct = e.toAct /\ Acted(e, p).committed = e.committed
  <1>1. PICK f, bet, raise, A, to :
           f = Acted(e, p) /\ bet = e.currentBet /\ raise = e.minRaise /\ A = e.acted \cup {p} /\ to = e.toAct
    OBVIOUS
  <1>2. e \in EngineType /\ bet \in Nat /\ raise \in Nat /\ A \in SUBSET Seats /\ to \in Seats \cup {NoOne}
    BY <1>1 DEF Whole, EngineType
  <1>3. f = Control(e, bet, raise, A, to)
    BY ONLY <1>1, <1>2 DEF Acted, Control, EngineType
  <1>4. Whole(f, t) /\ Steered(e, f, bet, raise, A, to)
    BY <1>2, <1>3, ControlWhole
  <1> QED
    BY <1>1, <1>4 DEF Steered

\* Chips go from a stack to the bets.
LEMMA PutWhole ==
  ASSUME NEW t \in TableType, NEW e, Whole(e, t), NEW p, p \in CanAct(e),
         NEW to \in Int, to >= 0, NEW f, f = Put(e, p, to - e.committed[p])
  PROVE  /\ Whole(f, t) /\ f.toAct = e.toAct /\ Live(f) = Live(e) /\ f.players = e.players
         /\ f.committed[p] = Lesser(to, e.committed[p] + e.stack[p])
  <1>1. e \in EngineType /\ Chips(e, t) /\ p \in e.players /\ p \notin e.allIn /\ p \in Seats
        /\ e.stack[p] \in Nat /\ e.committed[p] \in Nat
    BY ActorWhole DEF Whole
  <1>2. PICK a \in Int : a = to - e.committed[p] /\ a + e.committed[p] >= 0
    BY <1>1
  <1>3. /\ f \in EngineType /\ Chips(f, t)
        /\ PutIn(e, f, p, IF a <= e.stack[p] THEN a ELSE e.stack[p])
    BY <1>1, <1>2, PutFits
  <1>4. f.boards = e.boards /\ f.winners2 = e.winners2 /\ f.toAct = e.toAct /\ Live(f) = Live(e) /\ f.players = e.players
    BY <1>3 DEF PutIn, Live
  <1>5. f.committed[p] = e.committed[p] + (IF a <= e.stack[p] THEN a ELSE e.stack[p])
    BY <1>1, <1>3 DEF PutIn
  <1>6. f.committed[p] = Lesser(to, e.committed[p] + e.stack[p])
    BY <1>1, <1>2, <1>5 DEF Lesser
  <1> QED
    BY <1>3, <1>4, <1>6 DEF Whole

\* A bet or a raise, to any total that there is a stack for.
LEMMA PushWhole ==
  ASSUME NEW t \in TableType, NEW e, Whole(e, t), NEW p, p \in CanAct(e), e.toAct = p,
         NEW to \in Int, to >= 0
  PROVE  /\ Whole(PushAggressive(e, to), t) /\ PushAggressive(e, to).toAct = p
         /\ PushAggressive(e, to).committed[p] = Lesser(to, MaxTo(e))
  <1>1. PICK f : f = Put(e, p, to - e.committed[p])
    OBVIOUS
  <1>2. /\ Whole(f, t) /\ f.toAct = p /\ f.players = e.players
        /\ f.committed[p] = Lesser(to, e.committed[p] + e.stack[p])
    BY <1>1, PutWhole
  <1>3. p \in Seats /\ f \in EngineType /\ f.committed[p] \in Nat /\ e.committed[p] \in Nat
    BY <1>2, ActorWhole DEF Whole, EngineType
  <1>4. PICK raise \in Nat : raise = Max({BigBlind, to - e.committed[p]})
    BY <1>3, SeatNumbers, MaxOf
  <1>5. PICK A, g, h, bet : /\ bet = f.committed[p] /\ g = [f EXCEPT !.currentBet = bet, !.minRaise = raise]
                            /\ A = {p} \cup (e.players \ CanAct(g))
                            /\ h = [g EXCEPT !.acted = A]
    OBVIOUS
  <1>6. PushAggressive(e, to) = h
    BY <1>1, <1>4, <1>5 DEF PushAggressive, BetIs
  <1>7. A \in SUBSET Seats /\ bet \in Nat
    BY <1>2, <1>3, <1>5 DEF EngineType
  <1>8. h = Control(f, bet, raise, A, p)
    BY ONLY <1>2, <1>3, <1>5 DEF EngineType, Control
  <1>9. Whole(h, t) /\ Steered(f, h, bet, raise, A, p)
    BY <1>2, <1>3, <1>7, <1>8, ControlWhole
  <1> QED
    BY <1>2, <1>6, <1>9 DEF Steered, MaxTo

\* A fold.
LEMMA FoldWhole ==
  ASSUME NEW t, NEW e, Whole(e, t), NEW p, p \in CanAct(e),
         NEW f, f = [e EXCEPT !.foldedStreet[p] = e.street]
  PROVE  Whole(f, t) /\ f.toAct = e.toAct /\ f.committed = e.committed
  <1>1. e \in EngineType /\ Chips(e, t) /\ p \in Seats
    BY ActorWhole DEF Whole
  <1>2. PICK F : F = [e.foldedStreet EXCEPT ![p] = e.street]
    OBVIOUS
  <1>3. F \in [Seats -> NotFolded .. River]
    <2>1. e.foldedStreet \in [Seats -> NotFolded .. River] /\ e.street \in NotFolded .. River
      BY <1>1 DEF EngineType, Preflop, NotFolded
    <2> QED
      BY <1>2, <2>1
  <1>4. f = [e EXCEPT !.foldedStreet = F]
    BY <1>2
  <1>5. f \in EngineType
    BY <1>1, <1>3, <1>4 DEF EngineType
  <1>6. /\ f.players = e.players /\ f.ante = e.ante /\ f.boards = e.boards /\ f.stack = e.stack
        /\ f.total = e.total /\ f.committed = e.committed /\ f.pot = e.pot /\ f.allIn = e.allIn
        /\ f.winners = e.winners /\ f.winners2 = e.winners2 /\ f.toAct = e.toAct
    BY <1>1, <1>4 DEF EngineType
  <1>7. Chips(f, t)
    BY <1>1, <1>6 DEF Chips
  <1> QED
    BY <1>5, <1>6, <1>7 DEF Whole

-----------------------------------------------------------------------------
\* What the panel does, and what settleAction records of it.
Kinds == {"fold", "check", "call", "bet", "raise", "allin"}
\* What is recorded of an action: an all-in is a bet, a raise or a call.
Move == [kind : Kinds \ {"allin"}, to : Nat]

\* One action of a line.
LEMMA PlayedWhole ==
  ASSUME NEW t \in TableType, NEW e, InPlay(e, t), e.toAct # NoOne, NEW kind \in Kinds, NEW to \in Nat
  PROVE  /\ Whole(Played(e, kind, to), t) /\ Played(e, kind, to).toAct = e.toAct
         /\ Played(e, kind, to).committed[e.toAct] \in Nat
  <1>1. PICK p : p = e.toAct /\ p \in CanAct(e) /\ Whole(e, t)
    BY DEF InPlay
  <1>2. /\ p \in e.players /\ p \in Seats /\ p \in Live(e) /\ p \notin e.allIn
        /\ e.stack[p] \in Nat /\ e.committed[p] \in Nat /\ e.currentBet \in Nat
    BY <1>1, ActorWhole
  <1>3. PICK f : f = Played(e, kind, to)
    OBVIOUS
  <1>4. ASSUME Whole(f, t) PROVE f.committed[e.toAct] \in Nat
    BY <1>1, <1>2, <1>4 DEF Whole, EngineType
  <1>5. MaxTo(e) \in Nat
    BY <1>1, <1>2 DEF MaxTo
  <1>6. ASSUME NEW n \in Nat, f = PushAggressive(e, n) PROVE Whole(f, t) /\ f.toAct = e.toAct
    BY <1>1, <1>6, PushWhole
  <1>7. ASSUME NEW n \in Nat, f = Acted(Put(e, p, n - e.committed[p]), p) PROVE Whole(f, t) /\ f.toAct = e.toAct
    <2>1. PICK g : g = Put(e, p, n - e.committed[p])
      OBVIOUS
    <2>2. Whole(g, t) /\ g.toAct = e.toAct
      BY <1>1, <2>1, PutWhole
    <2> QED
      BY <1>2, <1>7, <2>1, <2>2, ActedWhole
  <1>8. CASE kind = "fold"
    <2>1. PICK g : g = [e EXCEPT !.foldedStreet[p] = e.street]
      OBVIOUS
    <2>2. f = Acted(g, p)
      BY <1>1, <1>3, <1>8, <2>1 DEF Played
    <2>3. Whole(g, t) /\ g.toAct = e.toAct
      BY <1>1, <2>1, FoldWhole
    <2> QED
      BY <1>2, <1>3, <1>4, <2>2, <2>3, ActedWhole
  <1>9. CASE kind = "check"
    <2>1. f = Acted(e, p)
      BY <1>1, <1>3, <1>9 DEF Played
    <2> QED
      BY <1>1, <1>2, <1>3, <1>4, <2>1, ActedWhole
  <1>10. CASE kind = "call"
    <2>1. f = Acted(Put(e, p, e.currentBet - e.committed[p]), p)
      BY <1>1, <1>3, <1>10 DEF Played, ToCall
    <2> QED
      BY <1>2, <1>3, <1>4, <1>7, <2>1
  <1>11. CASE kind = "bet"
    <2>1. PICK n \in Nat : n = Min({Max({to, e.committed[p] + BigBlind}), MaxTo(e)})
      <3>1. PICK m \in Nat : m = Max({to, e.committed[p] + BigBlind})
        BY <1>2, SeatNumbers, MaxOf
      <3>2. Min({m, MaxTo(e)}) \in Nat
        BY <1>5, MinOf
      <3> QED
        BY <3>1, <3>2
    <2>2. f = PushAggressive(e, n)
      BY <1>1, <1>3, <1>11, <2>1 DEF Played
    <2> QED
      BY <1>3, <1>4, <1>6, <2>2
  <1>12. CASE kind = "raise"
    <2>1. PICK n \in Nat : n = Min({to, MaxTo(e)})
      BY <1>5, MinOf
    <2>2. f = PushAggressive(e, n)
      BY <1>1, <1>3, <1>12, <2>1 DEF Played
    <2> QED
      BY <1>3, <1>4, <1>6, <2>2
  <1>13. CASE kind = "allin" /\ MaxTo(e) > e.currentBet
    <2>1. f = PushAggressive(e, MaxTo(e))
      BY <1>3, <1>13 DEF Played
    <2> QED
      BY <1>3, <1>4, <1>5, <1>6, <2>1
  <1>14. CASE kind = "allin" /\ ~(MaxTo(e) > e.currentBet)
    <2>1. f = Acted(Put(e, p, e.stack[p]), p)
      BY <1>1, <1>3, <1>14 DEF Played
    <2>2. PICK n \in Nat : n = MaxTo(e) /\ n - e.committed[p] = e.stack[p]
      BY <1>1, <1>2 DEF MaxTo
    <2> QED
      BY <1>3, <1>4, <1>7, <2>1, <2>2
  <1> QED
    BY <1>8, <1>9, <1>10, <1>11, <1>12, <1>13, <1>14 DEF Kinds

\* Somebody can have gone highest alone only among those still in.
LEMMA ReturnWhole ==
  ASSUME NEW t \in TableType, NEW e, Whole(e, t)
  PROVE  Whole(ReturnUncalled(e), t) /\ Live(ReturnUncalled(e)) = Live(e)
  <1>1. e \in EngineType /\ Chips(e, t)
    BY DEF Whole
  <1>2. Live(e) \in SUBSET Seats /\ Live(e) \subseteq e.players /\ IsFiniteSet(Live(e)) /\ \A q \in Seats : e.committed[q] \in Nat
    BY <1>1, LiveIn, SeatsFinite DEF EngineType
  <1>3. PICK top : top = {p \in Live(e) : \A q \in Live(e) : e.committed[p] >= e.committed[q]}
    OBVIOUS
  <1>4. CASE Cardinality(Live(e)) < 2 \/ Cardinality(top) # 1
    BY <1>3, <1>4 DEF ReturnUncalled
  <1>5. CASE ~(Cardinality(Live(e)) < 2 \/ Cardinality(top) # 1)
    <2>1. PICK p : p = CHOOSE x \in top : TRUE
      OBVIOUS
    <2>2. p \in top
      <3>1. top # {}
        BY <1>5, FS_EmptySet
      <3> QED
        BY <2>1, <3>1
    <2>3. PICK T : T = {e.committed[q] : q \in Live(e) \ {p}}
      OBVIOUS
    <2>4. p \in Seats /\ p \in e.players /\ e.committed[p] \in Nat
      BY <1>2, <1>3, <2>2
    <2>5. ({0} \cup T) \subseteq Nat /\ \A x \in {0} \cup T : x <= e.committed[p]
      BY <1>2, <1>3, <2>2, <2>3, <2>4
    <2>6. Max({0} \cup T) \in Nat /\ Max({0} \cup T) <= e.committed[p]
      <3>1. PICK U : U = {0} \cup T
        OBVIOUS
      <3>2. Max(U) \in U
        BY <2>4, <2>5, <3>1, NatMax
      <3> QED
        BY <2>5, <3>1, <3>2
    <2>7. PICK x \in Nat : x = e.committed[p] - Max({0} \cup T) /\ x <= e.committed[p]
      BY <2>4, <2>6
    <2>8. PICK f : f = Returned(e, p, x)
      OBVIOUS
    <2>9. ReturnUncalled(e) = f
      BY <1>3, <1>5, <2>1, <2>3, <2>7, <2>8 DEF ReturnUncalled, ReturnTo
    <2>10. CASE x = 0
      BY <2>8, <2>9, <2>10 DEF Returned
    <2>11. CASE x # 0
      <3>1. f \in EngineType /\ Chips(f, t) /\ Live(f) = Live(e)
        BY <1>1, <2>4, <2>7, <2>8, <2>11, RefundFits
      <3>2. f.boards = e.boards /\ f.winners2 = e.winners2
        BY <1>1, <2>7, <2>8 DEF Returned, EngineType
      <3> QED
        BY <2>9, <3>1, <3>2 DEF Whole
    <2> QED
      BY <2>10, <2>11
  <1> QED
    BY <1>4, <1>5

\* The end of a hand.
LEMMA FinishWhole ==
  ASSUME NEW t \in TableType, NEW e, Whole(e, t)
  PROVE  InPlay(FinishHand(e), t)
  <1>1. e \in EngineType /\ Chips(e, t) /\ Live(e) \in SUBSET Seats /\ Live(e) \subseteq e.players
    BY LiveIn DEF Whole
  <1>2. PICK f, W, W2 : /\ f = FinishHand(e)
                        /\ W = (IF Cardinality(Live(e)) = 1 THEN Live(e) ELSE {})
                        /\ W2 = (IF e.boards = 2 THEN W ELSE {})
    OBVIOUS
  <1>9. /\ f = [e EXCEPT !.toAct = NoOne, !.done = TRUE, !.winners = W, !.winners2 = W2]
        /\ (W = Live(e) \/ W = {}) /\ (W2 = W \/ W2 = {}) /\ (e.boards = 1 => W2 = {})
    BY <1>2 DEF FinishHand, Undecided
  <1>3. f \in EngineType
    BY <1>1, <1>9 DEF EngineType
  <1>4. /\ f.players = e.players /\ f.ante = e.ante /\ f.boards = e.boards /\ f.stack = e.stack
        /\ f.total = e.total /\ f.committed = e.committed /\ f.pot = e.pot /\ f.allIn = e.allIn
        /\ f.winners = W /\ f.winners2 = W2 /\ f.toAct = NoOne
    BY <1>1, <1>9 DEF EngineType
  <1>5. Chips(f, t)
    BY <1>1, <1>9, <1>4 DEF Chips
  <1> QED
    BY <1>2, <1>9, <1>3, <1>4, <1>5 DEF InPlay, Whole, Undecided

\* The next street.
LEMMA StepWhole ==
  ASSUME NEW t \in TableType, NEW e, Whole(e, t), NEW r, r = StepStreet(e)
  PROVE  /\ Whole(r.e, t) /\ r = [e |-> r.e, status |-> r.status]
         /\ r.status # "runout" => InPlay(r.e, t)
         /\ r.status = "runout" => e.street < r.e.street /\ r.e.street < River
  <1>1. PICK f, s, C : /\ f = Collected(e) /\ C = [p \in Seats |-> 0]
                       /\ f = [e EXCEPT !.allInStreet = s, !.committed = C, !.currentBet = 0,
                                        !.minRaise = BigBlind, !.acted = {}]
                       /\ (s = e.street \/ s = e.allInStreet)
    BY DEF Collected
  <1>2. e \in EngineType /\ Chips(e, t)
    BY DEF Whole
  <1>3. s \in NoStreet .. River /\ C \in [Seats -> Nat] /\ BigBlind \in Nat /\ e.street \in Preflop .. River
    <2>1. e.street \in Preflop .. River /\ e.allInStreet \in NoStreet .. River
      BY <1>2 DEF EngineType
    <2>2. s \in NoStreet .. River
      BY <1>1, <2>1 DEF Preflop, River, NoStreet
    <2> QED
      BY <1>1, <2>1, <2>2, SeatNumbers
  <1>4. ASSUME NEW n \in Preflop .. River, NEW g, g = [f EXCEPT !.street = n]
        PROVE  Whole(g, t) /\ g.street = n
    <2>1. g = [e EXCEPT !.allInStreet = s, !.committed = C, !.currentBet = 0, !.minRaise = BigBlind,
                        !.acted = {}, !.street = n]
      BY <1>1, <1>4
    <2>2. g \in EngineType
      <3>1. PICK c : c = [e EXCEPT !.allInStreet = s, !.committed = C, !.currentBet = 0, !.minRaise = BigBlind,
                                   !.acted = {}]
        OBVIOUS
      <3>2. c \in EngineType
        BY ONLY <1>2, <1>3, <3>1 DEF EngineType
      <3>3. g = [c EXCEPT !.street = n]
        BY <2>1, <3>1
      <3> QED
        BY ONLY <1>4, <3>2, <3>3 DEF EngineType
    <2>3. /\ g.players = e.players /\ g.ante = e.ante /\ g.boards = e.boards /\ g.stack = e.stack
          /\ g.total = e.total /\ g.committed = C /\ g.pot = e.pot /\ g.allIn = e.allIn
          /\ g.winners = e.winners /\ g.winners2 = e.winners2 /\ g.street = n
      BY ONLY <1>2, <2>1 DEF EngineType
    <2>4. \A p \in Seats : g.committed[p] <= g.total[p]
      <3>1. \A p \in Seats : e.total[p] \in Nat
        BY <1>2 DEF EngineType
      <3> QED
        BY <1>1, <2>3, <3>1
    <2>5. Chips(g, t)
      BY <1>2, <2>3, <2>4 DEF Chips
    <2> QED
      BY <2>2, <2>3, <2>5 DEF Whole
  <1>5. CASE e.street >= River
    <2>1. f = [f EXCEPT !.street = e.street]
      BY ONLY <1>1, <1>2 DEF EngineType
    <2>2. Whole(f, t)
      BY <1>3, <1>4, <2>1
    <2>3. InPlay(FinishHand(f), t)
      BY <2>2, FinishWhole
    <2>4. r = [e |-> FinishHand(f), status |-> "showdown"]
      BY <1>1, <1>5 DEF StepStreet
    <2> QED
      BY <2>3, <2>4 DEF InPlay
  <1>6. CASE ~(e.street >= River)
    <2>1. PICK n, g : n = e.street + 1 /\ g = [f EXCEPT !.street = n]
      OBVIOUS
    <2>2. n \in Preflop .. River /\ e.street < n
      BY <1>3, <1>6, <2>1 DEF Preflop, River
    <2>3. Whole(g, t) /\ g.street = n /\ g \in EngineType
      BY <1>4, <2>1, <2>2 DEF Whole
    <2>4. f.street = e.street
      BY <1>1, <1>2 DEF EngineType
    <2>5. r = Dealt(g)
      BY <1>1, <1>6, <2>1, <2>4 DEF StepStreet
    <2>6. CASE Cardinality(CanAct(g)) >= 2
      <3>1. PICK h, p : p = FirstAfter(CanAct(g), g.button) /\ h = [g EXCEPT !.toAct = p]
        OBVIOUS
      <3>2. p \in CanAct(g)
        <4>1. CanAct(g) \in SUBSET Seats /\ g.button \in Seats
          BY <2>3, LiveIn DEF EngineType
        <4>2. CanAct(g) # {}
          BY <2>6, FS_EmptySet
        <4> QED
          BY <3>1, <4>1, <4>2, FirstAfterIn
      <3>3. PICK bet, raise, A : bet = g.currentBet /\ raise = g.minRaise /\ A = g.acted
        OBVIOUS
      <3>4. bet \in Nat /\ raise \in Nat /\ A \in SUBSET Seats /\ p \in Seats \cup {NoOne}
        BY <2>3, <3>2, <3>3, LiveIn DEF EngineType
      <3>5. h = Control(g, bet, raise, A, p)
        BY ONLY <2>3, <3>1, <3>3 DEF EngineType, Control
      <3>6. Whole(h, t) /\ Steered(g, h, bet, raise, A, p)
        BY <2>3, <3>4, <3>5, ControlWhole
      <3>7. InPlay(h, t)
        BY <3>2, <3>6 DEF InPlay, Steered
      <3>8. r = [e |-> h, status |-> "betting"]
        BY <2>5, <2>6, <3>1 DEF Dealt
      <3> QED
        BY <3>6, <3>7, <3>8
    <2>7. CASE ~(Cardinality(CanAct(g)) >= 2) /\ g.street >= River
      <3>1. r = [e |-> FinishHand(g), status |-> "showdown"]
        BY <2>5, <2>7 DEF Dealt
      <3>2. InPlay(FinishHand(g), t)
        BY <2>3, FinishWhole
      <3> QED
        BY <3>1, <3>2 DEF InPlay
    <2>8. CASE ~(Cardinality(CanAct(g)) >= 2) /\ ~(g.street >= River)
      <3>1. r = [e |-> g, status |-> "runout"]
        BY <2>5, <2>8 DEF Dealt
      <3>2. g.street < River
        BY <2>2, <2>3, <2>8 DEF Preflop, River
      <3> QED
        BY <2>2, <2>3, <3>1, <3>2
    <2> QED
      BY <2>6, <2>7, <2>8
  <1> QED
    BY <1>5, <1>6

\* One round of advanceStreet's loop.
Onwards(x) == IF x.status = "runout" THEN StepStreet(x.e) ELSE x
\* Before the first.
Ready(e) == [e |-> e, status |-> "runout"]

\* The loop is three rounds.
LEMMA AdvanceIs ==
  ASSUME NEW e
  PROVE  AdvanceStreet(e) = Onwards(Onwards(Onwards(Ready(e)))).e
  <1> DEFINE Eq(g) == g = [n \in 0 .. River |->
                              IF n = 0 THEN Ready(e) ELSE Onwards(g[n - 1])]
             h == CHOOSE g : Eq(g)
  <1>1. PICK a, b, c, d : a = Ready(e) /\ b = Onwards(a) /\ c = Onwards(b) /\ d = Onwards(c)
    OBVIOUS
  <1>2. PICK g : g = [n \in 0 .. 3 |-> IF n = 0 THEN a ELSE IF n = 1 THEN b ELSE IF n = 2 THEN c ELSE d]
    OBVIOUS
  <1>3. Eq(g)
    <2>1. g[0] = a /\ g[1] = b /\ g[2] = c /\ g[3] = d
      BY <1>2
    <2>2. \A n \in 0 .. 3 : n = 0 \/ n = 1 \/ n = 2 \/ n = 3
      OBVIOUS
    <2>3. \A n \in 0 .. 3 : g[n] = IF n = 0 THEN Ready(e) ELSE Onwards(g[n - 1])
      <3> TAKE n \in 0 .. 3
      <3>1. CASE n = 0
        BY <1>1, <2>1, <3>1
      <3>2. CASE n = 1
        BY <1>1, <2>1, <3>2
      <3>3. CASE n = 2
        BY <1>1, <2>1, <3>3
      <3>4. CASE n = 3
        BY <1>1, <2>1, <3>4
      <3> QED
        BY <2>2, <3>1, <3>2, <3>3, <3>4
    <2>4. g = [n \in 0 .. 3 |-> g[n]]
      BY <1>2
    <2>5. g = [n \in 0 .. 3 |-> IF n = 0 THEN Ready(e) ELSE Onwards(g[n - 1])]
      BY <2>3, <2>4
    <2> QED
      BY <2>5 DEF River
  <1>4. Eq(h)
    <2> HIDE DEF Eq
    <2> QED
      BY <1>3
  <1>5. h[0] = Ready(e) /\ h[1] = Onwards(h[0]) /\ h[2] = Onwards(h[1]) /\ h[3] = Onwards(h[2])
    <2> HIDE DEF h
    <2>1. \A n \in 0 .. 3 : h[n] = IF n = 0 THEN Ready(e) ELSE Onwards(h[n - 1])
      BY <1>4 DEF River
    <2> QED
      BY <2>1
  <1>6. AdvanceStreet(e) = h[River].e
    BY DEF AdvanceStreet, Ready, Onwards
  <1> HIDE DEF h
  <1> QED
    BY <1>5, <1>6 DEF River

\* How far the loop has got after n rounds.
RoundsOn(x, n, t) ==
  /\ Whole(x.e, t) /\ x = [e |-> x.e, status |-> x.status]
  /\ x.status # "runout" => InPlay(x.e, t)
  /\ x.status = "runout" /\ n > 0 => n <= x.e.street /\ x.e.street < River

\* One round more.
LEMMA OnwardsWhole ==
  ASSUME NEW t \in TableType, NEW n \in Nat, NEW x, RoundsOn(x, n, t)
  PROVE  RoundsOn(Onwards(x), n + 1, t)
  <1>1. CASE x.status # "runout"
    BY <1>1 DEF RoundsOn, Onwards
  <1>2. CASE x.status = "runout"
    <2>1. PICK r : r = StepStreet(x.e)
      OBVIOUS
    <2>2. /\ Whole(r.e, t) /\ r = [e |-> r.e, status |-> r.status]
          /\ r.status # "runout" => InPlay(r.e, t)
          /\ r.status = "runout" => x.e.street < r.e.street /\ r.e.street < River
      BY <2>1, StepWhole DEF RoundsOn
    <2>3. x.e.street \in 0 .. 3 /\ r.e.street \in 0 .. 3
      BY <2>2 DEF RoundsOn, Whole, EngineType, Preflop, River
    <2>4. r.status = "runout" => n + 1 <= r.e.street
      BY <1>2, <2>2, <2>3 DEF RoundsOn
    <2> QED
      BY <1>2, <2>1, <2>2, <2>4 DEF RoundsOn, Onwards
  <1> QED
    BY <1>1, <1>2

\* Streets are dealt until somebody can act or the hand is over.
LEMMA AdvanceWhole ==
  ASSUME NEW t \in TableType, NEW e, Whole(e, t)
  PROVE  InPlay(AdvanceStreet(e), t)
  <1>1. PICK a, b, c, d : a = Ready(e) /\ b = Onwards(a) /\ c = Onwards(b) /\ d = Onwards(c)
    OBVIOUS
  <1>2. RoundsOn(a, 0, t)
    BY <1>1 DEF Ready, RoundsOn
  <1>3. RoundsOn(b, 0 + 1, t)
    BY <1>1, <1>2, OnwardsWhole
  <1>4. RoundsOn(c, 1 + 1, t)
    <2>1. RoundsOn(b, 1, t)
      BY <1>3
    <2> QED
      BY <1>1, <2>1, OnwardsWhole
  <1>5. RoundsOn(d, 2 + 1, t)
    <2>1. RoundsOn(c, 2, t)
      BY <1>4
    <2> QED
      BY <1>1, <2>1, OnwardsWhole
  <1>6. d.status # "runout"
    <2>1. d.e.street \in Int
      BY <1>5 DEF RoundsOn, Whole, EngineType, Preflop, River
    <2> QED
      BY <1>5, <2>1 DEF RoundsOn, River
  <1> QED
    BY <1>1, <1>5, <1>6, AdvanceIs DEF RoundsOn

\* What an action settles: who is asked next can act.
LEMMA SettledWhole ==
  ASSUME NEW t \in TableType, NEW e, InPlay(e, t), NEW kind \in Kinds, NEW to \in Nat,
         NEW s, s = SettleAction(e, kind, to)
  PROVE  /\ Whole(s.e, t) /\ s.close \in {"none", "foldout", "advance"} /\ s = [e |-> s.e, close |-> s.close]
         /\ s.close = "none" => InPlay(s.e, t)
  <1>1. CASE e.toAct = NoOne \/ e.done
    BY <1>1 DEF SettleAction, InPlay
  <1>2. CASE ~(e.toAct = NoOne \/ e.done)
    <2>1. PICK f, p, q : f = Played(e, kind, to) /\ p = e.toAct /\ q = FirstAfter(CanAct(f) \ f.acted, p)
      OBVIOUS
    <2>2. Whole(f, t) /\ f.toAct = p
      BY <1>2, <2>1, PlayedWhole
    <2>3. s = Closing(f, q)
      BY <1>2, <2>1 DEF SettleAction, Asked
    <2>4. p \in Seats /\ f \in EngineType /\ CanAct(f) \in SUBSET Seats
      BY <1>2, <2>1, <2>2, LiveIn DEF InPlay, Whole, CanAct, Live, EngineType
    <2>5. q = NoOne \/ q \in CanAct(f)
      BY <2>1, <2>4, FirstAfterIn
    <2>6. CASE Cardinality(Live(f)) = 1
      BY <2>2, <2>3, <2>6 DEF Closing
    <2>7. CASE Cardinality(Live(f)) # 1 /\ q = NoOne
      BY <2>2, <2>3, <2>7 DEF Closing
    <2>8. CASE Cardinality(Live(f)) # 1 /\ q # NoOne
      <3>1. PICK h, bet, raise, A : h = [f EXCEPT !.toAct = q] /\ bet = f.currentBet /\ raise = f.minRaise /\ A = f.acted
        OBVIOUS
      <3>2. bet \in Nat /\ raise \in Nat /\ A \in SUBSET Seats /\ q \in Seats \cup {NoOne}
        BY <2>4, <2>5, <3>1 DEF EngineType
      <3>3. h = Control(f, bet, raise, A, q)
        BY ONLY <2>4, <3>1 DEF EngineType, Control
      <3>4. Whole(h, t) /\ Steered(f, h, bet, raise, A, q)
        BY <2>2, <3>2, <3>3, ControlWhole
      <3>5. InPlay(h, t)
        BY <2>5, <2>8, <3>4 DEF InPlay, Steered
      <3>6. s = [e |-> h, close |-> "none"]
        BY <2>3, <2>8, <3>1 DEF Closing
      <3> QED
        BY <3>4, <3>5, <3>6
    <2> QED
      BY <2>6, <2>7, <2>8
  <1> QED
    BY <1>1, <1>2

\* What an action leads to.
LEMMA ConcludedWhole ==
  ASSUME NEW t \in TableType, NEW e, InPlay(e, t), NEW kind \in Kinds, NEW to \in Nat
  PROVE  InPlay(ApplyAction(e, kind, to), t)
  <1>1. PICK s : s = SettleAction(e, kind, to)
    OBVIOUS
  <1>2. /\ Whole(s.e, t) /\ s.close \in {"none", "foldout", "advance"}
        /\ s.close = "none" => InPlay(s.e, t)
    BY <1>1, SettledWhole
  <1>3. ApplyAction(e, kind, to) = Concluded(s)
    BY <1>1 DEF ApplyAction
  <1>4. CASE s.close = "foldout"
    BY <1>2, <1>3, <1>4, FinishWhole DEF Concluded
  <1>5. CASE s.close = "advance"
    BY <1>2, <1>3, <1>5, ReturnWhole, AdvanceWhole DEF Concluded
  <1>6. CASE s.close = "none"
    BY <1>2, <1>3, <1>6 DEF Concluded
  <1> QED
    BY <1>2, <1>4, <1>5, <1>6

\* The recorded winners are put back.
LEMMA WonWhole ==
  ASSUME NEW t, NEW e, InPlay(e, t), NEW w, w \subseteq e.players, NEW w2, w2 \subseteq e.players,
         e.boards = 1 => w2 = Undecided
  PROVE  InPlay(WonBy(e, w, w2), t) /\ Bare(WonBy(e, w, w2)) = Bare(e)
  <1>1. PICK f, a, b : /\ f = WonBy(e, w, w2)
                       /\ a = (IF w = Undecided THEN e.winners ELSE w)
                       /\ b = (IF w2 = Undecided THEN e.winners2 ELSE w2)
    OBVIOUS
  <1>8. f = [e EXCEPT !.winners = a, !.winners2 = b]
    <2>1. e \in EngineType
      BY DEF InPlay, Whole
    <2>2. PICK g : g = (IF w = Undecided THEN e ELSE [e EXCEPT !.winners = w])
      OBVIOUS
    <2>3. g = [e EXCEPT !.winners = a]
      BY ONLY <1>1, <2>1, <2>2 DEF EngineType
    <2>4. f = IF w2 = Undecided THEN g ELSE [g EXCEPT !.winners2 = w2]
      BY <1>1, <2>2 DEF WonBy, SetWinners
    <2>5. CASE w2 = Undecided
      <3>1. f = [e EXCEPT !.winners = a] /\ b = e.winners2
        BY <1>1, <2>3, <2>4, <2>5
      <3> QED
        BY ONLY <2>1, <3>1 DEF EngineType
    <2>6. CASE w2 # Undecided
      <3>1. f = [[e EXCEPT !.winners = a] EXCEPT !.winners2 = b]
        BY <1>1, <2>3, <2>4, <2>6
      <3> QED
        BY ONLY <2>1, <3>1 DEF EngineType
    <2> QED
      BY <2>5, <2>6
  <1>2. e \in EngineType /\ Chips(e, t) /\ e.players \subseteq Seats
    BY DEF InPlay, Whole, EngineType
  <1>3. a \subseteq e.players /\ b \subseteq e.players
    BY <1>1, <1>2 DEF Chips
  <1>4. f \in EngineType /\ Bare(f) = Bare(e)
    BY <1>8, <1>2, <1>3 DEF EngineType, Bare
  <1>5. /\ f.players = e.players /\ f.ante = e.ante /\ f.boards = e.boards /\ f.stack = e.stack
        /\ f.total = e.total /\ f.committed = e.committed /\ f.pot = e.pot /\ f.allIn = e.allIn
        /\ f.winners = a /\ f.winners2 = b /\ f.toAct = e.toAct /\ f.foldedStreet = e.foldedStreet
    BY <1>8, <1>2 DEF EngineType
  <1>6. Chips(f, t)
    BY <1>2, <1>3, <1>5 DEF Chips
  <1>7. CanAct(f) = CanAct(e)
    BY <1>5 DEF CanAct, Live
  <1> QED
    BY <1>1, <1>4, <1>5, <1>6, <1>7 DEF InPlay, Whole

-----------------------------------------------------------------------------
(* Winners that are put on an engine change nothing that is played on it. *)

\* An engine with other winners.
With(e, w, w2) == [e EXCEPT !.winners = w, !.winners2 = w2]

\* What is the same then.
LEMMA WithSame ==
  ASSUME NEW e \in EngineType, NEW w, NEW w2, NEW f, f = With(e, w, w2)
  PROVE  /\ Live(f) = Live(e) /\ CanAct(f) = CanAct(e)
         /\ f.players = e.players /\ f.button = e.button /\ f.stack = e.stack /\ f.committed = e.committed
         /\ f.currentBet = e.currentBet /\ f.minRaise = e.minRaise /\ f.acted = e.acted /\ f.street = e.street
         /\ f.toAct = e.toAct /\ f.done = e.done /\ f.boards = e.boards
         /\ MaxTo(f) = MaxTo(e) /\ ToCall(f) = ToCall(e)
  <1>1. /\ f.players = e.players /\ f.button = e.button /\ f.stack = e.stack /\ f.committed = e.committed
        /\ f.currentBet = e.currentBet /\ f.minRaise = e.minRaise /\ f.acted = e.acted /\ f.street = e.street
        /\ f.toAct = e.toAct /\ f.done = e.done /\ f.allIn = e.allIn /\ f.foldedStreet = e.foldedStreet
        /\ f.boards = e.boards
    BY DEF With, EngineType
  <1> QED
    BY <1>1 DEF Live, CanAct, MaxTo, ToCall

\* Two engines that are one but for the winners.
LEMMA BareWith ==
  ASSUME NEW e \in EngineType, NEW f \in EngineType, Bare(e) = Bare(f)
  PROVE  e = With(f, e.winners, e.winners2)
  BY DEF With, Bare, EngineType

\* Winners are not seen in a bare engine.
LEMMA WithBare ==
  ASSUME NEW e \in EngineType, NEW w, NEW w2
  PROVE  Bare(With(e, w, w2)) = Bare(e)
  BY DEF With, Bare, EngineType

\* Chips that are put in.
LEMMA PutWith ==
  ASSUME NEW e \in EngineType, NEW w, NEW w2, NEW p \in Seats, NEW amount
  PROVE  Put(With(e, w, w2), p, amount) = With(Put(e, p, amount), w, w2)
  <1>1. ASSUME NEW put PROVE Moved(With(e, w, w2), p, put) = With(Moved(e, p, put), w, w2)
    BY ZenonT(60) DEF With, Moved, EngineType
  <1>2. With(e, w, w2).stack = e.stack
    BY WithSame
  <1> QED
    BY <1>1, <1>2 DEF Put

\* What is no chip.
LEMMA ControlWith ==
  ASSUME NEW e \in EngineType, NEW w, NEW w2, NEW bet, NEW raise, NEW A, NEW to
  PROVE  Control(With(e, w, w2), bet, raise, A, to) = With(Control(e, bet, raise, A, to), w, w2)
  BY DEF With, Control, EngineType

\* Who has acted.
LEMMA ActedWith ==
  ASSUME NEW e \in EngineType, NEW w, NEW w2, NEW p
  PROVE  Acted(With(e, w, w2), p) = With(Acted(e, p), w, w2)
  BY DEF With, Acted, EngineType

\* The least raise after a bet of so much more.
LeastRaise(a) == Max({BigBlind, a})
\* A bet or a raise puts chips in and steers.
LEMMA PushIs ==
  ASSUME NEW e \in EngineType, NEW p, e.toAct = p, NEW to \in Int, NEW a, a = to - e.committed[p],
         NEW f, f = Put(e, p, a), f \in EngineType, f.toAct = p
  PROVE  PushAggressive(e, to) = Control(f, f.committed[p], LeastRaise(a), {p} \cup (e.players \ CanAct(f)), p)
  <1>5. PICK bet, raise, A : bet = f.committed[p] /\ raise = LeastRaise(a) /\ A = {p} \cup (e.players \ CanAct(f))
    OBVIOUS
  <1>1. PICK g, h : g = [f EXCEPT !.currentBet = bet, !.minRaise = raise] /\ h = [g EXCEPT !.acted = A]
    OBVIOUS
  <1>3. CanAct(g) = CanAct(f)
    <2>1. g.players = f.players /\ g.allIn = f.allIn /\ g.foldedStreet = f.foldedStreet
      BY <1>1 DEF EngineType
    <2> QED
      BY <2>1 DEF CanAct, Live
  <1>2. PushAggressive(e, to) = h
    BY <1>1, <1>3, <1>5 DEF PushAggressive, BetIs, LeastRaise
  <1>4. h = Control(f, bet, raise, A, p)
    BY ONLY <1>1, f \in EngineType, f.toAct = p DEF EngineType, Control
  <1> QED
    BY <1>2, <1>4, <1>5

\* A bet or a raise.
LEMMA PushWith ==
  ASSUME NEW t \in TableType, NEW e, Whole(e, t), NEW p, p \in CanAct(e), e.toAct = p, NEW to \in Int, to >= 0,
         NEW w, NEW w2, Whole(With(e, w, w2), t)
  PROVE  PushAggressive(With(e, w, w2), to) = With(PushAggressive(e, to), w, w2)
  <1>1. PICK d : d = With(e, w, w2)
    OBVIOUS
  <1>2. e \in EngineType /\ d \in EngineType /\ p \in Seats /\ Whole(d, t)
    BY <1>1, ActorWhole DEF Whole
  <1>3. d.toAct = p /\ p \in CanAct(d) /\ d.committed = e.committed /\ d.players = e.players
    BY <1>1, <1>2, WithSame
  <1>4. PICK a, f, g : a = to - e.committed[p] /\ f = Put(e, p, a) /\ g = Put(d, p, a)
    OBVIOUS
  <1>5. f \in EngineType /\ f.toAct = p
    BY <1>4, PutWhole DEF Whole
  <1>6. g \in EngineType /\ g.toAct = p /\ a = to - d.committed[p]
    <2>1. g = Put(d, p, to - d.committed[p])
      BY <1>3, <1>4
    <2> QED
      BY <1>2, <1>3, <1>4, <2>1, PutWhole DEF Whole
  <1>7. g = With(f, w, w2)
    BY <1>1, <1>2, <1>4, PutWith
  <1>8. g.committed = f.committed /\ CanAct(g) = CanAct(f)
    BY <1>5, <1>7, WithSame
  <1>9. PICK bet, raise, A : bet = f.committed[p] /\ raise = LeastRaise(a) /\ A = {p} \cup (e.players \ CanAct(f))
    OBVIOUS
  <1>10. PushAggressive(e, to) = Control(f, bet, raise, A, p)
    <2>1. e \in EngineType /\ e.toAct = p /\ a = to - e.committed[p]
      BY <1>2, <1>4
    <2>2. f = Put(e, p, a) /\ f \in EngineType /\ f.toAct = p
      BY <1>4, <1>5
    <2> QED
      BY ONLY <1>9, <2>1, <2>2, PushIs, SMTT(30)
  <1>11. PushAggressive(d, to) = Control(g, bet, raise, A, p)
    <2>1. bet = g.committed[p] /\ raise = LeastRaise(a) /\ A = {p} \cup (d.players \ CanAct(g))
      BY <1>3, <1>8, <1>9
    <2>2. d \in EngineType /\ d.toAct = p /\ a = to - d.committed[p]
      BY <1>2, <1>3, <1>6
    <2>3. g = Put(d, p, a) /\ g \in EngineType /\ g.toAct = p
      BY <1>4, <1>6
    <2> QED
      BY ONLY <2>1, <2>2, <2>3, PushIs, SMTT(30)
  <1> QED
    BY <1>1, <1>5, <1>7, <1>10, <1>11, ControlWith

\* One action of a line.
LEMMA PlayedWith ==
  ASSUME NEW t \in TableType, NEW e, InPlay(e, t), e.toAct # NoOne, NEW kind \in Kinds, NEW to \in Nat,
         NEW w, NEW w2, Whole(With(e, w, w2), t)
  PROVE  Played(With(e, w, w2), kind, to) = With(Played(e, kind, to), w, w2)
  <1>1. PICK p : p = e.toAct /\ p \in CanAct(e) /\ Whole(e, t) /\ e \in EngineType
    BY DEF InPlay, Whole
  <1>2. /\ p \in Seats /\ e.stack[p] \in Nat /\ e.committed[p] \in Nat /\ e.currentBet \in Nat
    BY <1>1, ActorWhole
  <1>3. PICK d : d = With(e, w, w2)
    OBVIOUS
  <1>4. /\ d.toAct = p /\ d.committed = e.committed /\ d.stack = e.stack /\ d.currentBet = e.currentBet
        /\ d.street = e.street /\ MaxTo(d) = MaxTo(e) /\ ToCall(d) = ToCall(e)
    BY <1>1, <1>3, WithSame
  <1>5. MaxTo(e) \in Nat
    BY <1>1, <1>2 DEF MaxTo
  <1>6. ASSUME NEW n \in Nat PROVE PushAggressive(d, n) = With(PushAggressive(e, n), w, w2)
    BY <1>1, <1>3, PushWith
  <1>7. ASSUME NEW n \in Int, n >= 0, NEW a, a = n - e.committed[p]
        PROVE  Acted(Put(d, p, a), p) = With(Acted(Put(e, p, a), p), w, w2)
    <2>1. PICK g : g = Put(e, p, a) /\ g \in EngineType
      BY <1>1, <1>7, PutWhole DEF Whole
    <2>2. Put(d, p, a) = With(g, w, w2)
      BY <1>1, <1>2, <1>3, <2>1, PutWith
    <2> QED
      BY <2>1, <2>2, ActedWith
  <1>8. CASE kind = "fold"
    <2>1. PICK g, h : g = [e EXCEPT !.foldedStreet[p] = e.street] /\ h = [d EXCEPT !.foldedStreet[p] = e.street]
      OBVIOUS
    <2>2. Played(e, kind, to) = Acted(g, p) /\ Played(d, kind, to) = Acted(h, p)
      BY <1>1, <1>4, <1>8, <2>1 DEF Played
    <2>3. g \in EngineType
      BY <1>1, <2>1, FoldWhole DEF Whole
    <2>4. h = With(g, w, w2)
      <3>1. PICK F : F = [e.foldedStreet EXCEPT ![p] = e.street]
        OBVIOUS
      <3>2. d.foldedStreet = e.foldedStreet
        BY ONLY <1>1, <1>3 DEF With, EngineType
      <3>3. g = [e EXCEPT !.foldedStreet = F] /\ h = [d EXCEPT !.foldedStreet = F]
        BY <2>1, <3>1, <3>2
      <3> QED
        BY ONLY <1>1, <1>3, <3>3 DEF With, EngineType
    <2> QED
      BY <1>3, <2>2, <2>3, <2>4, ActedWith
  <1>9. CASE kind = "check"
    <2>1. Played(e, kind, to) = Acted(e, p) /\ Played(d, kind, to) = Acted(d, p)
      BY <1>1, <1>4, <1>9 DEF Played
    <2> QED
      BY <1>1, <1>3, <2>1, ActedWith
  <1>10. CASE kind = "call"
    <2>1. PICK a : a = e.currentBet - e.committed[p]
      OBVIOUS
    <2>2. Played(e, kind, to) = Acted(Put(e, p, a), p) /\ Played(d, kind, to) = Acted(Put(d, p, a), p)
      BY <1>1, <1>4, <1>10, <2>1 DEF Played, ToCall
    <2> QED
      BY <1>2, <1>3, <1>7, <2>1, <2>2
  <1>11. CASE kind = "bet"
    <2>1. PICK n \in Nat : n = Min({Max({to, e.committed[p] + BigBlind}), MaxTo(e)})
      <3>1. PICK m \in Nat : m = Max({to, e.committed[p] + BigBlind})
        <4>1. PICK c \in Nat : c = e.committed[p] + BigBlind
          BY <1>2, SeatNumbers
        <4>2. Max({to, c}) \in Nat
          BY MaxOf
        <4> QED
          BY <4>1, <4>2
      <3>2. Min({m, MaxTo(e)}) \in Nat
        BY <1>5, MinOf
      <3> QED
        BY <3>1, <3>2
    <2>2. Played(e, kind, to) = PushAggressive(e, n) /\ Played(d, kind, to) = PushAggressive(d, n)
      BY <1>1, <1>4, <1>11, <2>1 DEF Played
    <2> QED
      BY <1>3, <1>6, <2>2
  <1>12. CASE kind = "raise"
    <2>1. PICK n \in Nat : n = Min({to, MaxTo(e)})
      BY <1>5, MinOf
    <2>2. Played(e, kind, to) = PushAggressive(e, n) /\ Played(d, kind, to) = PushAggressive(d, n)
      BY <1>1, <1>4, <1>12, <2>1 DEF Played
    <2> QED
      BY <1>3, <1>6, <2>2
  <1>13. CASE kind = "allin" /\ MaxTo(e) > e.currentBet
    <2>1. PICK n \in Nat : n = MaxTo(e)
      BY <1>5
    <2>2. Played(e, kind, to) = PushAggressive(e, n) /\ Played(d, kind, to) = PushAggressive(d, n)
      BY <1>4, <1>13, <2>1 DEF Played
    <2> QED
      BY <1>3, <1>6, <2>2
  <1>14. CASE kind = "allin" /\ ~(MaxTo(e) > e.currentBet)
    <2>1. PICK n \in Nat, a \in Int : n = MaxTo(e) /\ a = e.stack[p] /\ a = n - e.committed[p]
      BY <1>1, <1>2 DEF MaxTo
    <2>2. Played(e, kind, to) = Acted(Put(e, p, a), p) /\ Played(d, kind, to) = Acted(Put(d, p, a), p)
      BY <1>1, <1>4, <1>14, <2>1 DEF Played
    <2> QED
      BY <1>3, <1>7, <2>1, <2>2
  <1> QED
    BY <1>8, <1>9, <1>10, <1>11, <1>12, <1>13, <1>14 DEF Kinds

\* What nobody called.
LEMMA ReturnWith ==
  ASSUME NEW e \in EngineType, NEW w, NEW w2
  PROVE  ReturnUncalled(With(e, w, w2)) = With(ReturnUncalled(e), w, w2)
  <1>1. PICK d, top, p, x :
          /\ d = With(e, w, w2)
          /\ top = {q \in Live(e) : \A r \in Live(e) : e.committed[q] >= e.committed[r]}
          /\ p = (CHOOSE q \in top : TRUE)
          /\ x = e.committed[p] - Max({0} \cup {e.committed[q] : q \in Live(e) \ {p}})
    OBVIOUS
  <1>2. Live(d) = Live(e) /\ d.committed = e.committed
    BY <1>1, WithSame
  <1>3. ReturnUncalled(e) = IF Cardinality(Live(e)) < 2 \/ Cardinality(top) # 1 THEN e ELSE Returned(e, p, x)
    BY <1>1 DEF ReturnUncalled, ReturnTo
  <1>4. ReturnUncalled(d) = IF Cardinality(Live(e)) < 2 \/ Cardinality(top) # 1 THEN d ELSE Returned(d, p, x)
    BY <1>1, <1>2 DEF ReturnUncalled, ReturnTo
  <1>5. Returned(d, p, x) = With(Returned(e, p, x), w, w2)
    <2>1. /\ d.committed = e.committed /\ d.stack = e.stack /\ d.total = e.total /\ d.allIn = e.allIn /\ d.pot = e.pot
      BY ONLY <1>1, e \in EngineType DEF With, EngineType
    <2>2. PICK C, S, T, A, P : /\ C = [e.committed EXCEPT ![p] = e.committed[p] - x]
                               /\ S = [e.stack EXCEPT ![p] = e.stack[p] + x]
                               /\ T = [e.total EXCEPT ![p] = e.total[p] - x]
                               /\ A = (IF e.stack[p] + x <= 0 THEN e.allIn \cup {p} ELSE e.allIn \ {p})
                               /\ P = e.pot - x
      OBVIOUS
    <2>3. PICK f, g : /\ f = [e EXCEPT !.committed = C, !.stack = S, !.total = T, !.allIn = A, !.pot = P]
                      /\ g = [d EXCEPT !.committed = C, !.stack = S, !.total = T, !.allIn = A, !.pot = P]
      OBVIOUS
    <2>4. Returned(e, p, x) = IF x <= 0 THEN e ELSE f
      BY ONLY <2>2, <2>3, e \in EngineType DEF Returned, EngineType
    <2>5. Returned(d, p, x) = IF x <= 0 THEN d ELSE g
      BY ONLY <2>1, <2>2, <2>3 DEF Returned
    <2>6. g = With(f, w, w2)
      BY ONLY <1>1, <2>3, e \in EngineType DEF With, EngineType
    <2> QED
      BY <1>1, <2>4, <2>5, <2>6
  <1> QED
    BY <1>1, <1>3, <1>4, <1>5

\* The end of a hand decides anew.
LEMMA FinishWith ==
  ASSUME NEW e \in EngineType, NEW w, NEW w2
  PROVE  FinishHand(With(e, w, w2)) = FinishHand(e)
  <1>1. Live(With(e, w, w2)) = Live(e)
    BY WithSame
  <1> QED
    BY <1>1 DEF With, FinishHand, EngineType

\* Two results that are one but for the winners.
TwinResults(r, s, w, w2) == s.status = r.status /\ (s.e = r.e \/ s.e = With(r.e, w, w2))

\* One street.
LEMMA StepWith ==
  ASSUME NEW t \in TableType, NEW e, Whole(e, t), NEW w, NEW w2
  PROVE  TwinResults(StepStreet(e), StepStreet(With(e, w, w2)), w, w2)
  <1>1. PICK d : d = With(e, w, w2) /\ e \in EngineType
    BY DEF Whole
  <1>2. d.street = e.street
    BY <1>1, WithSame
  <1>3. PICK f, n, g : f = Collected(e) /\ n = e.street + 1 /\ g = [f EXCEPT !.street = n]
    OBVIOUS
  <1>4. f \in EngineType
    <2>1. PICK s, C : /\ C = [p \in Seats |-> 0]
                      /\ f = [e EXCEPT !.allInStreet = s, !.committed = C, !.currentBet = 0,
                                       !.minRaise = BigBlind, !.acted = {}]
                      /\ (s = e.street \/ s = e.allInStreet)
      BY <1>3 DEF Collected
    <2>2. e.street \in Preflop .. River /\ e.allInStreet \in NoStreet .. River
      BY <1>1 DEF EngineType
    <2>3. s \in NoStreet .. River /\ C \in [Seats -> Nat] /\ BigBlind \in Nat
      BY <2>1, <2>2, SeatNumbers DEF Preflop, River, NoStreet
    <2> QED
      BY ONLY <1>1, <2>1, <2>3 DEF EngineType
  <1>5. Collected(d) = With(f, w, w2)
    <2>1. Live(d) = Live(e) /\ CanAct(d) = CanAct(e)
      BY <1>1, WithSame
    <2> QED
      BY ONLY <1>1, <1>3, <2>1 DEF Collected, With, EngineType
  <1>6. f.street = e.street
    BY <1>1, <1>3 DEF Collected, EngineType
  <1>7. CASE e.street >= River
    BY <1>1, <1>2, <1>3, <1>4, <1>5, <1>7, FinishWith DEF StepStreet, TwinResults
  <1>8. CASE ~(e.street >= River)
    <2>1. [With(f, w, w2) EXCEPT !.street = n] = With(g, w, w2)
      BY ONLY <1>3, <1>4 DEF With, EngineType
    <2>2. g \in EngineType
      <3>1. n \in Preflop .. River
        BY <1>1, <1>3, <1>8 DEF EngineType, Preflop, River
      <3> QED
        BY ONLY <1>3, <1>4, <3>1 DEF EngineType
    <2>3. With(f, w, w2).street = f.street
      BY <1>4, WithSame
    <2>4. PICK h : h = With(g, w, w2)
      OBVIOUS
    <2>5. StepStreet(e) = Dealt(g) /\ StepStreet(d) = Dealt(h)
      BY <1>2, <1>3, <1>5, <1>6, <1>8, <2>1, <2>3, <2>4 DEF StepStreet
    <2>6. CanAct(h) = CanAct(g) /\ h.street = g.street /\ h.button = g.button
      BY <2>2, <2>4, WithSame
    <2>7. CASE Cardinality(CanAct(g)) >= 2
      <3>1. PICK p : p = FirstAfter(CanAct(g), g.button)
        OBVIOUS
      <3>2. /\ Dealt(g) = [e |-> [g EXCEPT !.toAct = p], status |-> "betting"]
            /\ Dealt(h) = [e |-> [h EXCEPT !.toAct = p], status |-> "betting"]
        BY <2>6, <2>7, <3>1 DEF Dealt
      <3>3. [h EXCEPT !.toAct = p] = With([g EXCEPT !.toAct = p], w, w2)
        BY ONLY <2>2, <2>4 DEF With, EngineType
      <3> QED
        BY <1>1, <2>5, <3>2, <3>3 DEF TwinResults
    <2>8. CASE ~(Cardinality(CanAct(g)) >= 2) /\ g.street >= River
      <3>1. FinishHand(h) = FinishHand(g)
        BY <2>2, <2>4, FinishWith
      <3> QED
        BY <1>1, <2>5, <2>6, <2>8, <3>1 DEF Dealt, TwinResults
    <2>9. CASE ~(Cardinality(CanAct(g)) >= 2) /\ ~(g.street >= River)
      BY <1>1, <2>4, <2>5, <2>6, <2>9 DEF Dealt, TwinResults
    <2> QED
      BY <2>7, <2>8, <2>9
  <1> QED
    BY <1>7, <1>8

\* All streets.
LEMMA AdvanceWith ==
  ASSUME NEW t \in TableType, NEW e, Whole(e, t), NEW w, NEW w2
  PROVE  \/ AdvanceStreet(With(e, w, w2)) = AdvanceStreet(e)
         \/ AdvanceStreet(With(e, w, w2)) = With(AdvanceStreet(e), w, w2)
  <1>1. PICK d : d = With(e, w, w2)
    OBVIOUS
  <1>2. ASSUME NEW r, NEW s, Whole(r.e, t), TwinResults(r, s, w, w2)
        PROVE  TwinResults(Onwards(r), Onwards(s), w, w2)
    <2>1. CASE r.status # "runout"
      BY <1>2, <2>1 DEF TwinResults, Onwards
    <2>2. CASE r.status = "runout" /\ s.e = r.e
      BY <1>2, <2>2 DEF TwinResults, Onwards
    <2>3. CASE r.status = "runout" /\ s.e = With(r.e, w, w2)
      <3>1. TwinResults(StepStreet(r.e), StepStreet(s.e), w, w2)
        BY <1>2, <2>3, StepWith
      <3> QED
        BY <1>2, <2>3, <3>1 DEF TwinResults, Onwards
    <2> QED
      BY <1>2, <2>1, <2>2, <2>3 DEF TwinResults
  <1>3. ASSUME NEW r, Whole(r.e, t) PROVE Whole(Onwards(r).e, t)
    <2>1. CASE r.status # "runout"
      BY <1>3, <2>1 DEF Onwards
    <2>2. CASE r.status = "runout"
      BY <1>3, <2>2, StepWhole DEF Onwards
    <2> QED
      BY <2>1, <2>2
  <1>4. PICK a, b, c : a = Ready(e) /\ b = Onwards(a) /\ c = Onwards(b)
    OBVIOUS
  <1>5. PICK x, y, z : x = Ready(d) /\ y = Onwards(x) /\ z = Onwards(y)
    OBVIOUS
  <1>6. Whole(a.e, t) /\ TwinResults(a, x, w, w2)
    BY <1>1, <1>4, <1>5 DEF Ready, TwinResults
  <1>7. Whole(b.e, t) /\ TwinResults(b, y, w, w2)
    BY <1>2, <1>3, <1>4, <1>5, <1>6
  <1>8. Whole(c.e, t) /\ TwinResults(c, z, w, w2)
    BY <1>2, <1>3, <1>4, <1>5, <1>7
  <1>9. TwinResults(Onwards(c), Onwards(z), w, w2)
    BY <1>2, <1>8
  <1>10. AdvanceStreet(e) = Onwards(c).e /\ AdvanceStreet(d) = Onwards(z).e
    BY <1>4, <1>5, AdvanceIs
  <1> QED
    BY <1>1, <1>9, <1>10 DEF TwinResults

\* What an action settles.
LEMMA SettleWith ==
  ASSUME NEW t \in TableType, NEW e, InPlay(e, t), NEW kind \in Kinds, NEW to \in Nat,
         NEW w, NEW w2, Whole(With(e, w, w2), t), NEW s, s = SettleAction(e, kind, to)
  PROVE  SettleAction(With(e, w, w2), kind, to) = [e |-> With(s.e, w, w2), close |-> s.close]
  <1>1. PICK d : d = With(e, w, w2) /\ e \in EngineType
    BY DEF InPlay, Whole
  <1>2. d.toAct = e.toAct /\ d.done = e.done
    BY <1>1, WithSame
  <1>3. CASE e.toAct = NoOne \/ e.done
    BY <1>1, <1>2, <1>3 DEF SettleAction
  <1>4. CASE ~(e.toAct = NoOne \/ e.done)
    <2>1. PICK f, g, p, q : /\ f = Played(e, kind, to) /\ g = Played(d, kind, to) /\ p = e.toAct
                            /\ q = FirstAfter(CanAct(f) \ f.acted, p)
      OBVIOUS
    <2>2. f \in EngineType
      BY <1>4, <2>1, PlayedWhole DEF Whole
    <2>3. g = With(f, w, w2)
      BY <1>1, <1>4, <2>1, PlayedWith
    <2>4. Live(g) = Live(f) /\ CanAct(g) = CanAct(f) /\ g.acted = f.acted
      BY <2>2, <2>3, WithSame
    <2>5. s = Closing(f, q) /\ SettleAction(d, kind, to) = Closing(g, q)
      BY <1>2, <1>4, <2>1, <2>4 DEF SettleAction, Asked
    <2>6. [g EXCEPT !.toAct = q] = With([f EXCEPT !.toAct = q], w, w2)
      BY ONLY <2>2, <2>3 DEF With, EngineType
    <2>7. CASE Cardinality(Live(f)) = 1
      BY <1>1, <2>3, <2>4, <2>5, <2>7 DEF Closing
    <2>8. CASE Cardinality(Live(f)) # 1 /\ q # NoOne
      <3>1. s = [e |-> [f EXCEPT !.toAct = q], close |-> "none"] /\ Closing(g, q) = [e |-> [g EXCEPT !.toAct = q], close |-> "none"]
        BY <2>4, <2>5, <2>8 DEF Closing
      <3> QED
        BY <1>1, <2>5, <2>6, <3>1
    <2>9. CASE Cardinality(Live(f)) # 1 /\ q = NoOne
      BY <1>1, <2>3, <2>4, <2>5, <2>9 DEF Closing
    <2> QED
      BY <2>7, <2>8, <2>9
  <1> QED
    BY <1>3, <1>4

\* Two engines that are one but for the winners go on alike, and record alike.
LEMMA ApplyAlike ==
  ASSUME NEW t \in TableType, NEW e, InPlay(e, t), NEW d, InPlay(d, t), Bare(d) = Bare(e),
         NEW kind \in Kinds, NEW to \in Nat
  PROVE  /\ d.toAct = e.toAct /\ d.done = e.done
         /\ Bare(ApplyAction(d, kind, to)) = Bare(ApplyAction(e, kind, to))
         /\ e.toAct # NoOne => Recorded(d, kind, to) = Recorded(e, kind, to)
  <1>1. PICK w, w2 : d = With(e, w, w2) /\ e \in EngineType /\ d \in EngineType /\ Whole(d, t)
    BY BareWith DEF InPlay, Whole
  <1>2. d.toAct = e.toAct /\ d.done = e.done /\ d.currentBet = e.currentBet /\ MaxTo(d) = MaxTo(e)
    BY <1>1, WithSame
  <1>3. PICK r, s : r = SettleAction(d, kind, to) /\ s = SettleAction(e, kind, to)
    OBVIOUS
  <1>4. r = [e |-> With(s.e, w, w2), close |-> s.close]
    BY <1>1, <1>3, SettleWith
  <1>5. Whole(s.e, t) /\ s.close \in {"none", "foldout", "advance"} /\ s.e \in EngineType
    BY <1>3, SettledWhole DEF Whole
  <1>6. Concluded(r) = Concluded(s) \/ Concluded(r) = With(Concluded(s), w, w2)
    <2>1. CASE s.close = "foldout"
      BY <1>4, <1>5, <2>1, FinishWith DEF Concluded
    <2>2. CASE s.close = "advance"
      <3>1. PICK f : f = ReturnUncalled(s.e) /\ Whole(f, t)
        BY <1>5, ReturnWhole
      <3>2. ReturnUncalled(r.e) = With(f, w, w2)
        BY <1>4, <1>5, <3>1, ReturnWith
      <3> QED
        BY <1>4, <2>2, <3>1, <3>2, AdvanceWith DEF Concluded
    <2>3. CASE s.close = "none"
      BY <1>4, <2>3 DEF Concluded
    <2> QED
      BY <1>5, <2>1, <2>2, <2>3
  <1>7. Concluded(s) \in EngineType
    <2>1. Concluded(s) = ApplyAction(e, kind, to)
      BY <1>3 DEF ApplyAction
    <2> QED
      BY <2>1, ConcludedWhole DEF InPlay, Whole
  <1>8. Bare(Concluded(r)) = Bare(Concluded(s))
    BY <1>6, <1>7, WithBare
  <1>9. ASSUME e.toAct # NoOne PROVE Recorded(d, kind, to) = Recorded(e, kind, to)
    <2>1. Played(d, kind, to) = With(Played(e, kind, to), w, w2)
      BY <1>1, <1>9, PlayedWith
    <2>2. Played(e, kind, to) \in EngineType
      BY <1>9, PlayedWhole DEF Whole
    <2>3. Played(d, kind, to).committed = Played(e, kind, to).committed
      BY <2>1, <2>2, WithSame
    <2> QED
      BY <1>2, <2>3 DEF Recorded
  <1> QED
    BY <1>2, <1>3, <1>8, <1>9 DEF ApplyAction

-----------------------------------------------------------------------------
(* What is recorded plays as what was done. *)

\* The lesser and the greater again.
LEMMA LesserOf == ASSUME NEW a \in Int, NEW b \in Int
                  PROVE  /\ Min({a, b}) = Lesser(a, b) /\ Max({a, b}) = (IF a >= b THEN a ELSE b)
                         /\ Lesser(a, b) \in Int
  <1>1. Min({a, b}) = (IF a <= b THEN a ELSE b)
    BY MinOf
  <1>2. Max({a, b}) = (IF a >= b THEN a ELSE b)
    BY MaxOf
  <1> QED
    BY <1>1, <1>2 DEF Lesser

\* A recorded action played again does the same, and is recorded as it was.
LEMMA RecordedAgain ==
  ASSUME NEW t \in TableType, NEW e, InPlay(e, t), e.toAct # NoOne, NEW kind \in Kinds, NEW to \in Nat,
         NEW r, r = Recorded(e, kind, to)
  PROVE  /\ r \in Move /\ Played(e, r.kind, r.to) = Played(e, kind, to)
         /\ Recorded(e, r.kind, r.to) = r
         /\ ApplyAction(e, r.kind, r.to) = ApplyAction(e, kind, to)
  <1>1. PICK p : p = e.toAct /\ p \in CanAct(e) /\ Whole(e, t) /\ e \in EngineType
    BY DEF InPlay, Whole
  <1>2. /\ p \in Seats /\ e.stack[p] \in Nat /\ e.committed[p] \in Nat /\ e.currentBet \in Nat
    BY <1>1, ActorWhole
  <1>3. PICK m \in Nat : m = MaxTo(e) /\ m = e.committed[p] + e.stack[p]
    BY <1>1, <1>2 DEF MaxTo
  <1>4. PICK c \in Nat : c = e.committed[p] + BigBlind
    BY <1>2, SeatNumbers
  <1>5. PICK f : f = Played(e, kind, to) /\ f.committed[e.toAct] \in Nat
    BY PlayedWhole
  <1>6. ASSUME NEW n \in Nat, f = PushAggressive(e, n), n <= m PROVE f.committed[e.toAct] = n
    <2>1. PushAggressive(e, n).committed[p] = Lesser(n, MaxTo(e))
      BY <1>1, <1>6, PushWhole
    <2> QED
      BY <1>1, <1>3, <1>6, <2>1 DEF Lesser
  <1>7. SUFFICES /\ r \in Move /\ Played(e, r.kind, r.to) = f
                 /\ Recorded(e, r.kind, r.to) = r
    BY <1>5, <1>7 DEF ApplyAction, SettleAction
  <1>8. ASSUME kind \in {"fold", "check", "call"}
        PROVE  /\ r \in Move /\ Played(e, r.kind, r.to) = f /\ Recorded(e, r.kind, r.to) = r
    <2>1. r = [kind |-> kind, to |-> 0]
      BY <1>8 DEF Recorded
    <2>2. Played(e, r.kind, r.to) = f
      BY <1>5, <1>8, <2>1 DEF Played
    <2>3. r \in Move
      BY <1>8, <2>1 DEF Move, Kinds
    <2>4. Recorded(e, r.kind, r.to) = [kind |-> kind, to |-> 0]
      BY <1>8, <2>1 DEF Recorded
    <2> QED
      BY <2>1, <2>2, <2>3, <2>4
  <1>9. ASSUME NEW k \in {"bet", "raise"}, NEW n \in Nat, r = [kind |-> k, to |-> n],
               Played(e, k, n) = f, f.committed[e.toAct] = n
        PROVE  /\ r \in Move /\ Played(e, r.kind, r.to) = f /\ Recorded(e, r.kind, r.to) = r
    <2>1. r \in Move /\ r.kind = k /\ r.to = n
      BY <1>9 DEF Move, Kinds
    <2>2. Recorded(e, k, n) = [kind |-> k, to |-> n]
      BY <1>9 DEF Recorded
    <2> QED
      BY <1>9, <2>1, <2>2
  <1>10. ASSUME NEW n \in Nat PROVE /\ Played(e, "raise", n) = PushAggressive(e, Lesser(n, m))
                                    /\ Played(e, "bet", n) = PushAggressive(e, Lesser(IF n >= c THEN n ELSE c, m))
    <2>1. Min({n, m}) = Lesser(n, m) /\ Max({n, c}) = (IF n >= c THEN n ELSE c)
      BY LesserOf
    <2>2. PICK x \in Nat : x = IF n >= c THEN n ELSE c
      OBVIOUS
    <2>3. Min({x, m}) = Lesser(x, m)
      BY LesserOf
    <2>4. Played(e, "raise", n) = PushAggressive(e, Min({n, MaxTo(e)}))
      BY DEF Played
    <2>5. Played(e, "bet", n) = PushAggressive(e, Min({Max({n, e.committed[p] + BigBlind}), MaxTo(e)}))
      BY <1>1 DEF Played
    <2>6. Played(e, "raise", n) = PushAggressive(e, Lesser(n, m))
      BY <1>3, <2>1, <2>4
    <2>7. Played(e, "bet", n) = PushAggressive(e, Min({x, m}))
      BY <1>3, <1>4, <2>1, <2>2, <2>5
    <2> QED
      BY <2>2, <2>3, <2>6, <2>7
  <1>11. CASE kind = "bet"
    <2>1. PICK n \in Nat : n = Lesser(IF to >= c THEN to ELSE c, m) /\ n <= m /\ n = Lesser(IF n >= c THEN n ELSE c, m)
      <3>1. PICK n \in Nat : n = Lesser(IF to >= c THEN to ELSE c, m)
        BY DEF Lesser
      <3> QED
        BY <3>1 DEF Lesser
    <2>2. f = PushAggressive(e, n) /\ Played(e, "bet", n) = PushAggressive(e, n)
      BY <1>5, <1>10, <1>11, <2>1
    <2>3. f.committed[e.toAct] = n
      BY <1>6, <2>1, <2>2
    <2>4. r = [kind |-> "bet", to |-> n]
      BY <1>5, <1>11, <2>3 DEF Recorded
    <2> QED
      BY <1>9, <2>2, <2>3, <2>4
  <1>12. CASE kind = "raise"
    <2>1. PICK n \in Nat : n = Lesser(to, m) /\ n <= m /\ n = Lesser(n, m)
      <3>1. PICK n \in Nat : n = Lesser(to, m)
        BY DEF Lesser
      <3> QED
        BY <3>1 DEF Lesser
    <2>2. f = PushAggressive(e, n) /\ Played(e, "raise", n) = PushAggressive(e, n)
      BY <1>5, <1>10, <1>12, <2>1
    <2>3. f.committed[e.toAct] = n
      BY <1>6, <2>1, <2>2
    <2>4. r = [kind |-> "raise", to |-> n]
      BY <1>5, <1>12, <2>3 DEF Recorded
    <2> QED
      BY <1>9, <2>2, <2>3, <2>4
  <1>13. CASE kind = "allin" /\ m > e.currentBet
    <2>1. f = PushAggressive(e, m)
      BY <1>3, <1>5, <1>13 DEF Played
    <2>2. f.committed[e.toAct] = m
      BY <1>6, <2>1
    <2>3. m = Lesser(m, m) /\ m = Lesser(IF m >= c THEN m ELSE c, m)
      BY DEF Lesser
    <2>4. Played(e, "bet", m) = f /\ Played(e, "raise", m) = f
      BY <1>10, <2>1, <2>3
    <2>5. PICK k \in {"bet", "raise"} : k = IF e.currentBet = 0 THEN "bet" ELSE "raise"
      OBVIOUS
    <2>8. kind = "allin" /\ MaxTo(e) > e.currentBet /\ ~(MaxTo(e) <= e.currentBet)
      BY <1>2, <1>3, <1>13
    <2>6. r = [kind |-> k, to |-> m]
      <3>1. CASE e.currentBet = 0
        <4>1. Recorded(e, kind, to) = [kind |-> "bet", to |-> Played(e, kind, to).committed[e.toAct]]
          BY ONLY <2>8, <3>1 DEF Recorded
        <4> QED
          BY <1>5, <2>2, <2>5, <3>1, <4>1
      <3>2. CASE e.currentBet # 0
        <4>1. Recorded(e, kind, to) = [kind |-> "raise", to |-> Played(e, kind, to).committed[e.toAct]]
          BY ONLY <2>8, <3>2 DEF Recorded
        <4> QED
          BY <1>5, <2>2, <2>5, <3>2, <4>1
      <3> QED
        BY <3>1, <3>2
    <2>7. Played(e, k, m) = f
      BY <2>4, <2>5
    <2> QED
      BY <1>9, <2>2, <2>6, <2>7
  <1>14. CASE kind = "allin" /\ ~(m > e.currentBet)
    <2>9. ~(MaxTo(e) > e.currentBet) /\ MaxTo(e) <= e.currentBet
      BY <1>2, <1>3, <1>14
    <2>1. r = [kind |-> "call", to |-> 0]
      <3>1. Recorded(e, kind, to) = [kind |-> "call", to |-> 0]
        BY ONLY <1>14, <2>9 DEF Recorded
      <3> QED
        BY <3>1
    <2>2. f = Acted(Put(e, p, e.stack[p]), p)
      BY ONLY <1>1, <1>5, <1>14, <2>9 DEF Played
    <2>3. Played(e, r.kind, r.to) = Acted(Put(e, p, ToCall(e)), p)
      BY <1>1, <2>1 DEF Played
    <2>4. PICK x \in Int : x = ToCall(e) /\ x >= e.stack[p]
      <3>1. ToCall(e) = e.currentBet - e.committed[p]
        BY <1>1 DEF ToCall
      <3>2. e.currentBet - e.committed[p] \in Int /\ e.currentBet - e.committed[p] >= e.stack[p]
        BY ONLY <1>2, <1>3, <1>14
      <3> QED
        BY <3>1, <3>2
    <2>5. Min({x, e.stack[p]}) = e.stack[p] /\ Min({e.stack[p], e.stack[p]}) = e.stack[p]
      <3>1. PICK y \in Nat : y = e.stack[p]
        BY <1>2
      <3>2. Min({x, y}) = Lesser(x, y) /\ Min({y, y}) = Lesser(y, y)
        BY LesserOf
      <3> QED
        BY <2>4, <3>1, <3>2 DEF Lesser
    <2>6. Put(e, p, e.stack[p]) = Put(e, p, x)
      BY <2>5 DEF Put
    <2>7. Recorded(e, r.kind, r.to) = [kind |-> "call", to |-> 0]
      BY <2>1 DEF Recorded
    <2>8. r \in Move
      BY <2>1 DEF Move, Kinds
    <2> QED
      BY <2>1, <2>2, <2>3, <2>4, <2>6, <2>7, <2>8
  <1> QED
    BY <1>8, <1>11, <1>12, <1>13, <1>14 DEF Kinds

-----------------------------------------------------------------------------
(* The frames of a line. *)

\* A frame of the recorder: an engine and the line that led to it.
FrameType == [e : EngineType, line : Seq(Move)]
\* Those that are played at a table.
Frames(t) == {f \in FrameType : InPlay(f.e, t)}
\* An action, as the panel or a line says it.
Action == [kind : Kinds, to : Nat]

\* A blank hand, and the hand that was just dealt.
LEMMA DealtFits ==
  ASSUME NEW t \in TableType
  PROVE  /\ Frame(BuildEngine(t), <<>>) \in Frames(t)
         /\ InPlay(EmptyEngine(t), t)
  <1>1. <<>> \in Seq(Move)
    OBVIOUS
  <1>2. EngineInv(BuildEngine(t), t)
    BY BuildFits
  <1>3. EmptyEngine(t) \in EngineType /\ Chips(EmptyEngine(t), t)
    BY EmptyFits
  <1>4. EmptyEngine(t).winners2 = Undecided /\ EmptyEngine(t).toAct = NoOne
    BY DEF EmptyEngine
  <1>5. BuildEngine(t).winners2 = Undecided /\ ~BuildEngine(t).done
    BY BuildFits
  <1>6. BuildEngine(t).toAct = NoOne \/ BuildEngine(t).toAct \in CanAct(BuildEngine(t))
    BY <1>2, <1>5 DEF EngineInv, Waits
  <1> QED
    BY <1>1, <1>2, <1>3, <1>4, <1>5, <1>6 DEF Frame, Frames, FrameType, InPlay, Whole, EngineInv

\* One action on a frame (act, rebuildFrames).
LEMMA SteppedFits ==
  ASSUME NEW t \in TableType, NEW f \in Frames(t), NEW a \in Action
  PROVE  Stepped(f, a) \in Frames(t)
  <1>1. f.e \in EngineType /\ f.line \in Seq(Move) /\ InPlay(f.e, t) /\ a.kind \in Kinds /\ a.to \in Nat
    BY DEF Frames, FrameType, Action
  <1>2. CASE f.e.toAct = NoOne \/ f.e.done
    BY <1>2 DEF Stepped
  <1>3. CASE ~(f.e.toAct = NoOne \/ f.e.done)
    <2>1. PICK g, r : g = ApplyAction(f.e, a.kind, a.to) /\ r = Recorded(f.e, a.kind, a.to)
      OBVIOUS
    <2>2. InPlay(g, t) /\ g \in EngineType
      BY <1>1, <2>1, ConcludedWhole DEF InPlay, Whole
    <2>3. r \in Move
      BY <1>1, <1>3, <2>1, RecordedAgain
    <2>4. Append(f.line, r) \in Seq(Move)
      BY <1>1, <2>3
    <2>5. Stepped(f, a) = [e |-> g, line |-> Append(f.line, r)]
      BY <1>3, <2>1 DEF Stepped, Frame
    <2> QED
      BY <2>2, <2>4, <2>5 DEF Frames, FrameType
  <1> QED
    BY <1>2, <1>3

\* The frames that a line makes, one after the other.
FramesOf(fs, t, l) ==
  /\ fs \in Seq(Frames(t)) /\ Len(fs) = Len(l) + 1
  /\ fs[1] = Frame(BuildEngine(t), <<>>)
  /\ \A k \in 1 .. Len(l) : fs[k + 1] = Stepped(fs[k], l[k])

\* A move of a line is an action.
LEMMA MoveActs == Move \subseteq Action
  BY DEF Move, Action, Kinds

\* rebuildFrames makes them.
LEMMA RebuildIs ==
  ASSUME NEW t \in TableType, NEW l \in Seq(Move)
  PROVE  FramesOf(RebuildFrames(t, l), t, l)
  <1> DEFINE N == Len(l)
             S == Frames(t)
             A == {s \in Seq(S) : Len(s) > 0}
             start == <<Frame(BuildEngine(t), <<>>)>>
             F == [x \in (1 .. N) \X A |-> NextFrame(x[2], l[x[1]])]
             Eq(g) == g = [n \in 0 .. N |->
                             IF n = 0 THEN <<Frame(BuildEngine(t), <<>>)>> ELSE NextFrame(g[n - 1], l[n])]
             h == CHOOSE g : Eq(g)
  <1>1. N \in Nat /\ \A n \in 1 .. N : l[n] \in Move
    OBVIOUS
  <1>2. start \in A /\ Len(start) = 1 /\ start[1] = Frame(BuildEngine(t), <<>>)
    BY DealtFits
  <1>3. ASSUME NEW n \in 1 .. N, NEW s \in A
        PROVE  /\ NextFrame(s, l[n]) \in A /\ Len(NextFrame(s, l[n])) = Len(s) + 1
               /\ NextFrame(s, l[n])[Len(s) + 1] = Stepped(s[Len(s)], l[n])
               /\ \A i \in 1 .. Len(s) : NextFrame(s, l[n])[i] = s[i]
    <2>1. s \in Seq(S) /\ Len(s) \in Nat /\ s[Len(s)] \in S /\ l[n] \in Action
      BY <1>1, MoveActs
    <2>2. PICK x : x = Stepped(s[Len(s)], l[n]) /\ x \in S
      BY <2>1, SteppedFits
    <2>3. NextFrame(s, l[n]) = Append(s, x)
      BY <2>2 DEF NextFrame, Last
    <2> HIDE DEF S
    <2> QED
      BY <2>1, <2>2, <2>3
  <1>4. F \in [(1 .. N) \X A -> A]
    <2> HIDE DEF A, N
    <2> QED
      BY <1>3
  <1> HIDE DEF A, start
  <1>5. PICK g : g \in [0 .. N -> A] /\ Steps(g, N, start, F)
    <2> HIDE DEF F, N
    <2> QED
      BY <1>1, <1>2, <1>4, StepsExist
  <1>6. Eq(g)
    <2>1. \A n \in 0 .. N : g[n] = IF n = 0 THEN start ELSE NextFrame(g[n - 1], l[n])
      <3> TAKE n \in 0 .. N
      <3>1. CASE n = 0
        BY <1>5, <3>1 DEF Steps
      <3>2. CASE n # 0
        <4>1. n \in 1 .. N /\ g[n - 1] \in A
          BY <1>1, <1>5, <3>2
        <4>2. g[n] = F[<<n, g[n - 1]>>]
          BY <1>5, <3>2 DEF Steps
        <4> QED
          BY <4>1, <4>2, <3>2
      <3> QED
        BY <3>1, <3>2
    <2> QED
      BY <1>5, <2>1 DEF start
  <1>7. Eq(h)
    <2> HIDE DEF Eq
    <2> QED
      BY <1>6
  <1>8. RebuildFrames(t, l) = h[N]
    BY DEF RebuildFrames
  <1> HIDE DEF h, N
  <1>9. h[0] = start /\ \A n \in 1 .. N : h[n] = NextFrame(h[n - 1], l[n])
    <2>1. \A n \in 0 .. N : h[n] = IF n = 0 THEN start ELSE NextFrame(h[n - 1], l[n])
      BY <1>7 DEF start
    <2>2. 0 \in 0 .. N /\ \A n \in 1 .. N : n \in 0 .. N /\ n # 0
      BY <1>1
    <2> QED
      BY <2>1, <2>2
  <1> DEFINE Made(s, n) == /\ s \in A /\ Len(s) = n + 1 /\ s[1] = Frame(BuildEngine(t), <<>>)
                           /\ \A k \in 1 .. n : s[k + 1] = Stepped(s[k], l[k])
             P == {n \in Nat : n <= N => Made(h[n], n)}
  <1>10. 0 \in P
    BY <1>2, <1>9
  <1>11. ASSUME NEW n \in Nat, n \in P PROVE n + 1 \in P
    <2> SUFFICES ASSUME n + 1 <= N PROVE Made(h[n + 1], n + 1)
      OBVIOUS
    <2>1. Made(h[n], n) /\ n + 1 \in 1 .. N /\ (n + 1) - 1 = n
      BY <1>1, <1>11
    <2>2. PICK s, u : s = h[n] /\ u = h[n + 1]
      OBVIOUS
    <2>3. u = NextFrame(s, l[n + 1])
      BY <1>9, <2>1, <2>2
    <2>4. /\ u \in A /\ Len(u) = n + 2 /\ u[n + 2] = Stepped(s[n + 1], l[n + 1])
          /\ \A i \in 1 .. n + 1 : u[i] = s[i]
      <3>1. s \in A /\ Len(s) = n + 1 /\ Len(s) + 1 = n + 2
        BY <2>1, <2>2
      <3>2. PICK k : k = n + 1 /\ k \in 1 .. N
        BY <2>1
      <3>3. /\ NextFrame(s, l[k]) \in A /\ Len(NextFrame(s, l[k])) = Len(s) + 1
            /\ NextFrame(s, l[k])[Len(s) + 1] = Stepped(s[Len(s)], l[k])
            /\ \A i \in 1 .. Len(s) : NextFrame(s, l[k])[i] = s[i]
        BY <1>3, <3>1, <3>2
      <3> QED
        BY <2>3, <3>1, <3>2, <3>3
    <2>5. ASSUME NEW k \in 1 .. n + 1 PROVE u[k + 1] = Stepped(u[k], l[k])
      <3>1. CASE k = n + 1
        BY <2>4, <3>1
      <3>2. CASE k # n + 1
        <4>1. k \in 1 .. n /\ k + 1 \in 1 .. n + 1
          BY <3>2
        <4>2. s[k + 1] = Stepped(s[k], l[k])
          BY <2>1, <2>2, <4>1
        <4> QED
          BY <2>4, <4>1, <4>2
      <3> QED
        BY <3>1, <3>2
    <2> QED
      BY <2>1, <2>2, <2>4, <2>5
  <1>12. \A n \in Nat : n \in P
    <2> HIDE DEF P
    <2> QED
      BY <1>10, <1>11, NatInd
  <1>13. Made(h[N], N)
    BY <1>1, <1>12
  <1>14. h[N] \in Seq(S)
    BY <1>13 DEF A
  <1> QED
    BY <1>8, <1>13, <1>14 DEF FramesOf, N

\* Lines that begin alike make the same frames as long as they do.
LEMMA FramesAgree ==
  ASSUME NEW t, NEW l, NEW m, NEW fs, NEW gs, FramesOf(fs, t, l), FramesOf(gs, t, m),
         NEW n \in Nat, n <= Len(l), n <= Len(m), Len(l) \in Nat, Len(m) \in Nat, \A k \in 1 .. n : l[k] = m[k]
  PROVE  \A k \in 1 .. n + 1 : fs[k] = gs[k]
  <1> DEFINE P == {k \in Nat : k <= n => fs[k + 1] = gs[k + 1]}
  <1>1. 0 \in P
    BY DEF FramesOf
  <1>2. ASSUME NEW k \in Nat, k \in P PROVE k + 1 \in P
    <2> SUFFICES ASSUME k + 1 <= n PROVE fs[k + 2] = gs[k + 2]
      OBVIOUS
    <2>1. k + 1 \in 1 .. Len(l) /\ k + 1 \in 1 .. Len(m) /\ k + 1 \in 1 .. n /\ (k + 1) + 1 = k + 2
      OBVIOUS
    <2>2. fs[k + 1] = gs[k + 1]
      BY <1>2
    <2>3. fs[k + 2] = Stepped(fs[k + 1], l[k + 1]) /\ gs[k + 2] = Stepped(gs[k + 1], m[k + 1])
      BY <2>1 DEF FramesOf
    <2>4. l[k + 1] = m[k + 1]
      BY <2>1
    <2> QED
      BY <2>2, <2>3, <2>4
  <1>3. \A k \in Nat : k \in P
    <2> HIDE DEF P
    <2> QED
      BY <1>1, <1>2, NatInd
  <1>4. ASSUME NEW k \in 1 .. n + 1 PROVE fs[k] = gs[k]
    <2>1. k - 1 \in Nat /\ k - 1 <= n /\ (k - 1) + 1 = k
      OBVIOUS
    <2>2. k - 1 \in P
      BY <1>3, <2>1
    <2> QED
      BY <2>1, <2>2
  <1> QED
    BY <1>4

\* A line makes, on the way, what its beginnings make.
LEMMA RebuiltOnTheWay ==
  ASSUME NEW t \in TableType, NEW l \in Seq(Move), NEW m \in Seq(Move), NEW fs, FramesOf(fs, t, l),
         Len(m) <= Len(l), \A k \in 1 .. Len(m) : l[k] = m[k]
  PROVE  Rebuilt(t, m) = fs[Len(m) + 1] /\ Rebuilt(t, m) \in Frames(t)
  <1>1. PICK gs : gs = RebuildFrames(t, m) /\ FramesOf(gs, t, m)
    BY RebuildIs
  <1>2. Len(m) \in Nat /\ Len(l) \in Nat
    OBVIOUS
  <1>3. Rebuilt(t, m) = gs[Len(m) + 1] /\ Len(gs) = Len(m) + 1
    BY <1>1 DEF Rebuilt, Last, FramesOf
  <1>4. \A k \in 1 .. Len(m) + 1 : fs[k] = gs[k]
    BY <1>1, <1>2, FramesAgree
  <1>5. gs[Len(m) + 1] \in Frames(t)
    <2>1. gs \in Seq(Frames(t)) /\ Len(m) + 1 \in 1 .. Len(gs)
      BY <1>1, <1>2, <1>3 DEF FramesOf
    <2> QED
      BY <2>1
  <1> QED
    BY <1>2, <1>3, <1>4, <1>5

\* One more action on a line.
LEMMA RebuiltNext ==
  ASSUME NEW t \in TableType, NEW l \in Seq(Move), NEW a \in Move
  PROVE  Rebuilt(t, Append(l, a)) = Stepped(Rebuilt(t, l), a)
  <1>0. PICK m : m = Append(l, a)
    OBVIOUS
  <1>1. m = Append(l, a) /\ m \in Seq(Move)
    BY <1>0
  <1>2. Len(m) = Len(l) + 1 /\ Len(l) \in Nat /\ m[Len(l) + 1] = a /\ \A k \in 1 .. Len(l) : m[k] = l[k]
    BY <1>1
  <1>3. PICK fs : FramesOf(fs, t, m)
    BY <1>1, RebuildIs
  <1>4. Rebuilt(t, m) = fs[Len(l) + 2]
    <2>1. Len(m) <= Len(m) /\ Len(m) + 1 = Len(l) + 2 /\ \A k \in 1 .. Len(m) : m[k] = m[k]
      BY <1>2
    <2> QED
      BY <1>1, <1>3, <2>1, RebuiltOnTheWay, ZenonT(60)
  <1>5. Rebuilt(t, l) = fs[Len(l) + 1]
    <2>1. Len(l) <= Len(m)
      BY <1>2
    <2> QED
      BY <1>1, <1>2, <1>3, <2>1, RebuiltOnTheWay, ZenonT(60)
  <1>6. fs[Len(l) + 2] = Stepped(fs[Len(l) + 1], m[Len(l) + 1])
    <2>1. Len(l) + 1 \in 1 .. Len(m) /\ (Len(l) + 1) + 1 = Len(l) + 2
      BY <1>2
    <2> QED
      BY <1>3, <2>1 DEF FramesOf
  <1> QED
    BY <1>1, <1>2, <1>4, <1>5, <1>6

\* What is rebuilt of a frame's own line.
Told(t, f) == f \in Frames(t) /\ Rebuilt(t, f.line) = f

\* The hand that was just dealt tells itself.
LEMMA DealtTold ==
  ASSUME NEW t \in TableType
  PROVE  Told(t, Frame(BuildEngine(t), <<>>))
  <1>0. PICK m : m = <<>>
    OBVIOUS
  <1>1. m = <<>> /\ m \in Seq(Move)
    BY <1>0
  <1>2. PICK fs : fs = RebuildFrames(t, m) /\ FramesOf(fs, t, m)
    BY <1>1, RebuildIs
  <1>3. Len(m) = 0
    BY <1>1
  <1>4. Rebuilt(t, m) = Frame(BuildEngine(t), <<>>)
    BY <1>2, <1>3 DEF Rebuilt, Last, FramesOf
  <1> QED
    BY <1>1, <1>4, DealtFits DEF Told, Frame

\* And so does every frame after it.
LEMMA SteppedTold ==
  ASSUME NEW t \in TableType, NEW f, Told(t, f), NEW a \in Action
  PROVE  /\ Told(t, Stepped(f, a)) /\ Len(f.line) <= Len(Stepped(f, a).line)
         /\ \A k \in 1 .. Len(f.line) : Stepped(f, a).line[k] = f.line[k]
  <1>1. /\ f \in Frames(t) /\ f.e \in EngineType /\ f.line \in Seq(Move) /\ InPlay(f.e, t)
        /\ a.kind \in Kinds /\ a.to \in Nat /\ Rebuilt(t, f.line) = f
    BY DEF Told, Frames, FrameType, Action
  <1>2. CASE f.e.toAct = NoOne \/ f.e.done
    BY <1>1, <1>2 DEF Stepped
  <1>3. CASE ~(f.e.toAct = NoOne \/ f.e.done)
    <2>1. PICK g, r, m : g = ApplyAction(f.e, a.kind, a.to) /\ r = Recorded(f.e, a.kind, a.to) /\ m = Append(f.line, r)
      OBVIOUS
    <2>2. /\ r \in Move /\ Recorded(f.e, r.kind, r.to) = r
          /\ ApplyAction(f.e, r.kind, r.to) = g
      BY <1>1, <1>3, <2>1, RecordedAgain
    <2>3. Stepped(f, a) = Frame(g, m) /\ Stepped(f, r) = Frame(g, m)
      BY <1>3, <2>1, <2>2 DEF Stepped
    <2>4. Rebuilt(t, m) = Stepped(f, r)
      BY <1>1, <2>1, <2>2, RebuiltNext
    <2>5. Frame(g, m).line = m
      BY DEF Frame
    <2>6. Len(f.line) <= Len(m) /\ \A k \in 1 .. Len(f.line) : m[k] = f.line[k]
      BY <1>1, <2>1, <2>2
    <2> QED
      BY <1>1, <2>3, <2>4, <2>5, <2>6, SteppedFits DEF Told
  <1> QED
    BY <1>2, <1>3

\* One line is the beginning of another.
Begins(l, m) == Len(l) <= Len(m) /\ \A k \in 1 .. Len(l) : m[k] = l[k]

\* The frames of a line are one story.
LEMMA RebuildTold ==
  ASSUME NEW t \in TableType, NEW l \in Seq(Move), NEW fs, FramesOf(fs, t, l)
  PROVE  /\ \A i \in 1 .. Len(fs) : Told(t, fs[i])
         /\ \A i, j \in 1 .. Len(fs) : i <= j => Begins(fs[i].line, fs[j].line)
  <1>1. Len(l) \in Nat /\ Len(fs) = Len(l) + 1 /\ \A k \in 1 .. Len(l) : l[k] \in Action
    BY MoveActs DEF FramesOf
  <1> DEFINE P == {n \in Nat : n + 1 <= Len(fs) =>
                     /\ Told(t, fs[n + 1])
                     /\ \A i \in 1 .. n + 1 : Begins(fs[i].line, fs[n + 1].line)}
  <1>2. ASSUME NEW f, Told(t, f) PROVE f.line \in Seq(Move) /\ Begins(f.line, f.line)
    BY <1>2 DEF Told, Frames, FrameType, Begins
  <1>3. 0 \in P
    <2>1. Told(t, fs[1])
      BY DealtTold DEF FramesOf
    <2> QED
      BY <1>2, <2>1
  <1>4. ASSUME NEW n \in Nat, n \in P PROVE n + 1 \in P
    <2> SUFFICES ASSUME n + 2 <= Len(fs)
                 PROVE  Told(t, fs[n + 2]) /\ \A i \in 1 .. n + 2 : Begins(fs[i].line, fs[n + 2].line)
      OBVIOUS
    <2>1. PICK f, g : f = fs[n + 1] /\ g = fs[n + 2]
      OBVIOUS
    <2>2. Told(t, f) /\ \A i \in 1 .. n + 1 : Begins(fs[i].line, f.line)
      BY <1>1, <1>4, <2>1
    <2>3. g = Stepped(f, l[n + 1]) /\ l[n + 1] \in Action
      BY <1>1, <2>1 DEF FramesOf
    <2>4. Told(t, g) /\ Begins(f.line, g.line)
      BY <2>2, <2>3, SteppedTold DEF Begins
    <2>5. ASSUME NEW i \in 1 .. n + 1 PROVE Begins(fs[i].line, g.line)
      <3>1. Begins(fs[i].line, f.line)
        BY <2>2
      <3>2. PICK x, y, z : x = Len(fs[i].line) /\ y = Len(f.line) /\ z = Len(g.line)
        OBVIOUS
      <3>3. y \in Nat /\ z \in Nat
        BY <1>2, <2>2, <2>4, <3>2
      <3>4. x \in Nat
        <4>1. fs[i] \in Frames(t)
          BY <1>1 DEF FramesOf
        <4> QED
          BY <3>2, <4>1 DEF Frames, FrameType
      <3> QED
        BY <2>4, <3>1, <3>2, <3>3, <3>4 DEF Begins
    <2>6. ASSUME NEW i \in 1 .. n + 2 PROVE Begins(fs[i].line, g.line)
      <3>1. CASE i \in 1 .. n + 1
        BY <2>5, <3>1
      <3>2. CASE i = n + 2
        BY <1>2, <2>1, <2>4, <3>2
      <3> QED
        BY <3>1, <3>2
    <2> QED
      BY <2>1, <2>4, <2>6
  <1>5. \A n \in Nat : n \in P
    <2> HIDE DEF P
    <2> QED
      BY <1>3, <1>4, NatInd
  <1>6. ASSUME NEW j \in 1 .. Len(fs)
        PROVE  Told(t, fs[j]) /\ \A i \in 1 .. j : Begins(fs[i].line, fs[j].line)
    <2>1. j - 1 \in Nat /\ (j - 1) + 1 = j
      BY <1>1
    <2>2. j - 1 \in P
      BY <1>5, <2>1
    <2> QED
      BY <2>1, <2>2
  <1> QED
    BY <1>1, <1>6

-----------------------------------------------------------------------------
(* The frames of the stacks are one story. *)

\* What is rebuilt of any line tells itself.
LEMMA RebuiltTold ==
  ASSUME NEW t \in TableType, NEW l \in Seq(Move)
  PROVE  Told(t, Rebuilt(t, l)) /\ Len(RebuildFrames(t, l)) = Len(l) + 1 /\ Len(l) \in Nat
  <1>1. PICK fs : fs = RebuildFrames(t, l) /\ FramesOf(fs, t, l)
    BY RebuildIs
  <1>2. Len(l) \in Nat /\ Len(fs) = Len(l) + 1 /\ Len(fs) \in 1 .. Len(fs)
    BY <1>1 DEF FramesOf
  <1>3. Told(t, fs[Len(fs)])
    BY <1>1, <1>2, RebuildTold
  <1> QED
    BY <1>1, <1>2, <1>3 DEF Rebuilt, Last

\* A frame follows from its line, but for the winners.
Follower(t, f) ==
  /\ f \in Frames(t) /\ Rebuilt(t, f.line).line = f.line
  /\ Bare(f.e) = Bare(Rebuilt(t, f.line).e)

\* What tells itself follows.
LEMMA ToldFollows ==
  ASSUME NEW t, NEW f, Told(t, f)
  PROVE  Follower(t, f)
  BY DEF Told, Follower

\* A frame's line is a line.
LEMMA LineOf ==
  ASSUME NEW t, NEW f, f \in Frames(t)
  PROVE  /\ f.line \in Seq(Move) /\ Len(f.line) \in Nat /\ Begins(f.line, f.line)
         /\ f.e \in EngineType /\ InPlay(f.e, t) /\ f = Frame(f.e, f.line) /\ f \in FrameType
  <1>1. f.line \in Seq(Move) /\ f.e \in EngineType /\ InPlay(f.e, t) /\ f = [e |-> f.e, line |-> f.line] /\ f \in FrameType
    BY DEF Frames, FrameType
  <1> QED
    BY <1>1 DEF Begins, Frame

\* Beginnings of beginnings.
LEMMA BeginsOn ==
  ASSUME NEW l, NEW m, NEW n, Len(l) \in Nat, Len(m) \in Nat, Len(n) \in Nat, Begins(l, m), Begins(m, n)
  PROVE  Begins(l, n)
  BY DEF Begins

\* An action on a frame that follows makes one that follows.
LEMMA SteppedFollows ==
  ASSUME NEW t \in TableType, NEW f, Follower(t, f), NEW a \in Action
  PROVE  Follower(t, Stepped(f, a)) /\ Begins(f.line, Stepped(f, a).line)
  <1>1. /\ f \in Frames(t) /\ f.e \in EngineType /\ f.line \in Seq(Move) /\ InPlay(f.e, t)
        /\ a.kind \in Kinds /\ a.to \in Nat
    BY DEF Follower, Frames, FrameType, Action
  <1>2. PICK g : g = Rebuilt(t, f.line) /\ Told(t, g) /\ g.line = f.line /\ Bare(f.e) = Bare(g.e)
    BY <1>1, RebuiltTold DEF Follower
  <1>3. g \in Frames(t) /\ InPlay(g.e, t)
    BY <1>2 DEF Told, Frames
  <1>4. /\ f.e.toAct = g.e.toAct /\ f.e.done = g.e.done
        /\ Bare(ApplyAction(f.e, a.kind, a.to)) = Bare(ApplyAction(g.e, a.kind, a.to))
        /\ g.e.toAct # NoOne => Recorded(f.e, a.kind, a.to) = Recorded(g.e, a.kind, a.to)
    BY <1>1, <1>2, <1>3, ApplyAlike
  <1>5. PICK F, G : F = Stepped(f, a) /\ G = Stepped(g, a)
    OBVIOUS
  <1>6. F.line = G.line /\ Bare(F.e) = Bare(G.e)
    <2>1. CASE f.e.toAct = NoOne \/ f.e.done
      BY <1>2, <1>4, <1>5, <2>1 DEF Stepped
    <2>2. CASE ~(f.e.toAct = NoOne \/ f.e.done)
      BY <1>2, <1>4, <1>5, <2>2 DEF Stepped, Frame
    <2> QED
      BY <2>1, <2>2
  <1>7. Told(t, G) /\ Begins(g.line, G.line)
    BY <1>2, <1>5, SteppedTold DEF Begins
  <1>8. F \in Frames(t)
    BY <1>1, <1>5, SteppedFits
  <1>9. Rebuilt(t, F.line) = G
    BY <1>6, <1>7 DEF Told
  <1> QED
    BY <1>2, <1>5, <1>6, <1>7, <1>8, <1>9 DEF Follower

\* The undo stack, the frame that is shown and the redo stack.
InStory(t, h, f, r) ==
  /\ h \in Seq(FrameType) /\ r \in Seq(FrameType) /\ Follower(t, f)
  /\ \A i \in 1 .. Len(h) : /\ Follower(t, h[i]) /\ Begins(h[i].line, f.line)
                            /\ \A j \in i .. Len(h) : Begins(h[i].line, h[j].line)
  /\ \A i \in 1 .. Len(r) : /\ Follower(t, r[i]) /\ Begins(f.line, r[i].line)
                            /\ \A j \in i .. Len(r) : Begins(r[j].line, r[i].line)

\* What follows is a frame with a line.
LEMMA FollowerLine ==
  ASSUME NEW t, NEW f, Follower(t, f)
  PROVE  /\ f \in Frames(t) /\ f \in FrameType /\ f.line \in Seq(Move) /\ Len(f.line) \in Nat
         /\ Begins(f.line, f.line) /\ InPlay(f.e, t) /\ f = Frame(f.e, f.line)
  BY LineOf DEF Follower

\* The frame that is shown goes on top of the undo stack, another one follows.
LEMMA StoryPushed ==
  ASSUME NEW t, NEW h, NEW f, NEW r, InStory(t, h, f, r), NEW g, Follower(t, g), Begins(f.line, g.line),
         NEW s \in Seq(FrameType),
         \A i \in 1 .. Len(s) : /\ Follower(t, s[i]) /\ Begins(g.line, s[i].line)
                                /\ \A j \in i .. Len(s) : Begins(s[j].line, s[i].line)
  PROVE  InStory(t, Append(h, f), g, s)
  <1>1. /\ h \in Seq(FrameType) /\ f \in FrameType /\ Follower(t, f) /\ Len(h) \in Nat
        /\ Len(f.line) \in Nat /\ Len(g.line) \in Nat /\ Begins(f.line, f.line)
    BY FollowerLine DEF InStory
  <1>2. PICK k : k = Append(h, f)
    OBVIOUS
  <1>3. k \in Seq(FrameType) /\ Len(k) = Len(h) + 1 /\ k[Len(h) + 1] = f /\ \A i \in 1 .. Len(h) : k[i] = h[i]
    BY <1>1, <1>2
  <1>4. ASSUME NEW i \in 1 .. Len(k)
        PROVE  /\ Follower(t, k[i]) /\ Begins(k[i].line, g.line)
               /\ \A j \in i .. Len(k) : Begins(k[i].line, k[j].line)
    <2>1. CASE i = Len(h) + 1
      BY <1>1, <1>3, <2>1
    <2>2. CASE i # Len(h) + 1
      <3>1. i \in 1 .. Len(h) /\ k[i] = h[i]
        BY <1>1, <1>3, <2>2
      <3>2. Follower(t, h[i]) /\ Begins(h[i].line, f.line) /\ \A j \in i .. Len(h) : Begins(h[i].line, h[j].line)
        BY <3>1 DEF InStory
      <3>3. Begins(h[i].line, g.line)
        BY <1>1, <3>2, FollowerLine, BeginsOn
      <3>4. ASSUME NEW j \in i .. Len(k) PROVE Begins(h[i].line, k[j].line)
        <4>1. CASE j = Len(h) + 1
          BY <1>3, <3>2, <4>1
        <4>2. CASE j # Len(h) + 1
          <5>1. j \in i .. Len(h) /\ j \in 1 .. Len(h)
            BY <1>1, <1>3, <3>1, <4>2
          <5> QED
            BY <1>3, <3>2, <5>1
        <4> QED
          BY <4>1, <4>2
      <3> QED
        BY <3>1, <3>2, <3>3, <3>4
    <2> QED
      BY <2>1, <2>2
  <1> QED
    BY <1>2, <1>3, <1>4 DEF InStory

\* An action of the panel drops what was undone.
LEMMA StoryActs ==
  ASSUME NEW t \in TableType, NEW h, NEW f, NEW r, InStory(t, h, f, r), NEW a \in Action
  PROVE  InStory(t, Append(h, f), Stepped(f, a), <<>>)
  <1>1. Follower(t, Stepped(f, a)) /\ Begins(f.line, Stepped(f, a).line)
    BY SteppedFollows DEF InStory
  <1>2. PICK s : s = <<>>
    OBVIOUS
  <1>3. s \in Seq(FrameType) /\ Len(s) = 0
    BY <1>2
  <1>4. InStory(t, Append(h, f), Stepped(f, a), s)
    <2>1. PICK g : g = Stepped(f, a)
      OBVIOUS
    <2>2. \A i \in 1 .. Len(s) : /\ Follower(t, s[i]) /\ Begins(g.line, s[i].line)
                                 /\ \A j \in i .. Len(s) : Begins(s[j].line, s[i].line)
      BY <1>3
    <2>3. InStory(t, Append(h, f), g, s)
      BY <1>1, <1>3, <2>1, <2>2, StoryPushed
    <2> QED
      BY <2>1, <2>3
  <1> QED
    BY <1>2, <1>4

\* The first frames of a stack, and the last.
LEMMA FrontIs ==
  ASSUME NEW S, NEW s \in Seq(S), s # <<>>
  PROVE  /\ Front(s) \in Seq(S) /\ Len(Front(s)) = Len(s) - 1 /\ Len(s) \in Nat /\ Len(s) > 0
         /\ Last(s) = s[Len(s)] /\ Last(s) \in S /\ \A i \in 1 .. Len(s) - 1 : Front(s)[i] = s[i]
  <1>1. Len(s) \in Nat /\ Len(s) > 0 /\ \A i \in 1 .. Len(s) : s[i] \in S
    OBVIOUS
  <1>2. PICK n : n = Len(s) - 1 /\ n \in Int /\ \A i \in 1 .. n : s[i] \in S
    BY <1>1
  <1>3. /\ SubSeq(s, 1, n) \in Seq(S) /\ Len(SubSeq(s, 1, n)) = (IF 1 <= n THEN n - 1 + 1 ELSE 0)
        /\ \A i \in 1 .. n - 1 + 1 : SubSeq(s, 1, n)[i] = s[1 + i - 1]
    BY <1>2, SubSeqProperties
  <1>4. Front(s) = SubSeq(s, 1, n)
    BY <1>2 DEF Front
  <1>5. n - 1 + 1 = n /\ \A i \in 1 .. n : 1 + i - 1 = i
    BY <1>2
  <1>6. Len(SubSeq(s, 1, n)) = n
    BY <1>1, <1>2, <1>3
  <1>7. \A i \in 1 .. n : SubSeq(s, 1, n)[i] = s[i]
    BY <1>3, <1>5
  <1>8. Last(s) = s[Len(s)] /\ Last(s) \in S
    BY <1>1 DEF Last
  <1> QED
    BY <1>1, <1>2, <1>3, <1>4, <1>6, <1>7, <1>8

\* Undo.
LEMMA StoryUndone ==
  ASSUME NEW t, NEW h, h # <<>>, NEW f, NEW r, InStory(t, h, f, r)
  PROVE  InStory(t, Front(h), Last(h), Append(r, f))
  <1>1. /\ h \in Seq(FrameType) /\ r \in Seq(FrameType) /\ f \in FrameType /\ Follower(t, f)
        /\ Len(f.line) \in Nat /\ Begins(f.line, f.line) /\ Len(r) \in Nat
    BY FollowerLine DEF InStory
  <1>2. PICK k, g : k = Front(h) /\ g = Last(h)
    OBVIOUS
  <1>3. /\ k \in Seq(FrameType) /\ Len(k) = Len(h) - 1 /\ Len(h) \in Nat /\ Len(h) > 0
        /\ g = h[Len(h)] /\ \A i \in 1 .. Len(h) - 1 : k[i] = h[i]
    BY <1>1, <1>2, FrontIs
  <1>4. Follower(t, g) /\ Begins(g.line, f.line) /\ Len(g.line) \in Nat
    <2>1. Len(h) \in 1 .. Len(h)
      BY <1>3
    <2> QED
      BY <1>3, <2>1, FollowerLine DEF InStory
  <1>5. ASSUME NEW i \in 1 .. Len(k)
        PROVE  /\ Follower(t, k[i]) /\ Begins(k[i].line, g.line)
               /\ \A j \in i .. Len(k) : Begins(k[i].line, k[j].line)
    <2>1. i \in 1 .. Len(h) /\ k[i] = h[i] /\ Len(h) \in i .. Len(h)
      BY <1>3
    <2>2. Follower(t, h[i]) /\ \A j \in i .. Len(h) : Begins(h[i].line, h[j].line)
      BY <2>1 DEF InStory
    <2>3. \A j \in i .. Len(k) : j \in i .. Len(h) /\ k[j] = h[j]
      BY <1>3
    <2> QED
      BY <1>3, <2>1, <2>2, <2>3
  <1>6. PICK s : s = Append(r, f)
    OBVIOUS
  <1>7. s \in Seq(FrameType) /\ Len(s) = Len(r) + 1 /\ s[Len(r) + 1] = f /\ \A i \in 1 .. Len(r) : s[i] = r[i]
    BY <1>1, <1>6
  <1>8. ASSUME NEW i \in 1 .. Len(s)
        PROVE  /\ Follower(t, s[i]) /\ Begins(g.line, s[i].line)
               /\ \A j \in i .. Len(s) : Begins(s[j].line, s[i].line)
    <2>1. CASE i = Len(r) + 1
      BY <1>1, <1>4, <1>7, <2>1
    <2>2. CASE i # Len(r) + 1
      <3>1. i \in 1 .. Len(r) /\ s[i] = r[i]
        BY <1>1, <1>7, <2>2
      <3>2. Follower(t, r[i]) /\ Begins(f.line, r[i].line) /\ \A j \in i .. Len(r) : Begins(r[j].line, r[i].line)
        BY <3>1 DEF InStory
      <3>3. Begins(g.line, r[i].line)
        BY <1>1, <1>4, <3>2, FollowerLine, BeginsOn
      <3>4. ASSUME NEW j \in i .. Len(s) PROVE Begins(s[j].line, r[i].line)
        <4>1. CASE j = Len(r) + 1
          BY <1>7, <3>2, <4>1
        <4>2. CASE j # Len(r) + 1
          <5>1. j \in i .. Len(r) /\ j \in 1 .. Len(r)
            BY <1>1, <1>7, <3>1, <4>2
          <5> QED
            BY <1>7, <3>2, <5>1
        <4> QED
          BY <4>1, <4>2
      <3> QED
        BY <3>1, <3>2, <3>3, <3>4
    <2> QED
      BY <2>1, <2>2
  <1> QED
    BY <1>2, <1>3, <1>4, <1>5, <1>6, <1>7, <1>8 DEF InStory

\* Redo.
LEMMA StoryRedone ==
  ASSUME NEW t, NEW h, NEW f, NEW r, r # <<>>, InStory(t, h, f, r)
  PROVE  InStory(t, Append(h, f), Last(r), Front(r))
  <1>1. r \in Seq(FrameType)
    BY DEF InStory
  <1>2. PICK s, g : s = Front(r) /\ g = Last(r)
    OBVIOUS
  <1>3. /\ s \in Seq(FrameType) /\ Len(s) = Len(r) - 1 /\ Len(r) \in Nat /\ Len(r) > 0
        /\ g = r[Len(r)] /\ \A i \in 1 .. Len(r) - 1 : s[i] = r[i]
    BY <1>1, <1>2, FrontIs
  <1>4. Follower(t, g) /\ Begins(f.line, g.line)
    <2>1. Len(r) \in 1 .. Len(r)
      BY <1>3
    <2> QED
      BY <1>3, <2>1 DEF InStory
  <1>5. ASSUME NEW i \in 1 .. Len(s)
        PROVE  /\ Follower(t, s[i]) /\ Begins(g.line, s[i].line)
               /\ \A j \in i .. Len(s) : Begins(s[j].line, s[i].line)
    <2>1. i \in 1 .. Len(r) /\ s[i] = r[i] /\ Len(r) \in i .. Len(r)
      BY <1>3
    <2>2. Follower(t, r[i]) /\ \A j \in i .. Len(r) : Begins(r[j].line, r[i].line)
      BY <2>1 DEF InStory
    <2>3. \A j \in i .. Len(s) : j \in i .. Len(r) /\ s[j] = r[j]
      BY <1>3
    <2> QED
      BY <1>3, <2>1, <2>2, <2>3
  <1>6. InStory(t, Append(h, f), g, s)
    BY <1>3, <1>4, <1>5, StoryPushed
  <1> QED
    BY <1>2, <1>6

\* The winners are decided, or put back.
LEMMA StoryDecided ==
  ASSUME NEW t, NEW h, NEW f, NEW r, InStory(t, h, f, r), NEW e, InPlay(e, t), Bare(e) = Bare(f.e)
  PROVE  InStory(t, h, Frame(e, f.line), r)
  <1>1. PICK g : g = Frame(e, f.line)
    OBVIOUS
  <1>2. g.e = e /\ g.line = f.line /\ f.line \in Seq(Move) /\ Follower(t, f)
    BY <1>1, FollowerLine DEF Frame, InStory
  <1>3. g \in Frames(t)
    BY <1>1, <1>2 DEF Frame, Frames, FrameType, InPlay, Whole
  <1>4. Follower(t, g)
    BY <1>2, <1>3 DEF Follower
  <1> QED
    BY <1>1, <1>2, <1>4 DEF InStory

\* The winners on a frame.
LEMMA WonFrame ==
  ASSUME NEW t \in TableType, NEW f \in Frames(t), NEW w, NEW w2, w \subseteq t.active, w2 \subseteq t.active,
         t.boards = 1 => w2 = Undecided
  PROVE  InPlay(WonBy(f.e, w, w2), t) /\ Bare(WonBy(f.e, w, w2)) = Bare(f.e)
  <1>1. InPlay(f.e, t) /\ f.e.players = t.active /\ f.e.boards = t.boards
    BY DEF Frames, InPlay, Whole, Chips
  <1> QED
    BY <1>1, WonWhole

\* The frames of a line with the winners at the end, as after a seat edit.
LEMMA StoryRebuilt ==
  ASSUME NEW t \in TableType, NEW l \in Seq(Move), NEW fs, fs = RebuildFrames(t, l),
         NEW w, NEW w2, w \subseteq t.active, w2 \subseteq t.active, t.boards = 1 => w2 = Undecided
  PROVE  InStory(t, Front(fs), EndOf(Last(fs), w, w2), <<>>) /\ Front(fs) \in Seq(FrameType)
  <1>1. FramesOf(fs, t, l) /\ fs \in Seq(Frames(t)) /\ Len(fs) = Len(l) + 1 /\ Len(l) \in Nat
    BY RebuildIs DEF FramesOf
  <1>2. fs # <<>>
    BY <1>1
  <1>3. PICK h, f : h = Front(fs) /\ f = Last(fs)
    OBVIOUS
  <1>4. /\ h \in Seq(Frames(t)) /\ Len(h) = Len(fs) - 1 /\ f = fs[Len(fs)] /\ f \in Frames(t)
        /\ \A i \in 1 .. Len(fs) - 1 : h[i] = fs[i]
    BY <1>1, <1>2, <1>3, FrontIs
  <1>5. h \in Seq(FrameType)
    <2>1. Frames(t) \subseteq FrameType
      BY DEF Frames
    <2> QED
      BY <1>4, <2>1, SeqMonotonic
  <1>6. /\ \A i \in 1 .. Len(fs) : Told(t, fs[i])
        /\ \A i, j \in 1 .. Len(fs) : i <= j => Begins(fs[i].line, fs[j].line)
    BY <1>1, RebuildTold
  <1>7. Follower(t, f)
    <2>1. Len(fs) \in 1 .. Len(fs)
      BY <1>1
    <2> QED
      BY <1>4, <1>6, <2>1, ToldFollows
  <1>8. ASSUME NEW i \in 1 .. Len(h)
        PROVE  /\ Follower(t, h[i]) /\ Begins(h[i].line, f.line)
               /\ \A j \in i .. Len(h) : Begins(h[i].line, h[j].line)
    <2>1. i \in 1 .. Len(fs) /\ h[i] = fs[i] /\ Len(fs) \in 1 .. Len(fs) /\ i <= Len(fs)
      BY <1>1, <1>4
    <2>2. \A j \in i .. Len(h) : j \in 1 .. Len(fs) /\ h[j] = fs[j] /\ i <= j
      BY <1>1, <1>4
    <2> QED
      BY <1>4, <1>6, <2>1, <2>2, ToldFollows
  <1>9. PICK r : r = <<>>
    OBVIOUS
  <1>10. r \in Seq(FrameType) /\ Len(r) = 0
    BY <1>9
  <1>11. InStory(t, h, f, r)
    BY <1>5, <1>7, <1>8, <1>10 DEF InStory
  <1>12. InPlay(WonBy(f.e, w, w2), t) /\ Bare(WonBy(f.e, w, w2)) = Bare(f.e)
    <2>1. f \in Frames(t)
      BY <1>4
    <2> QED
      BY <2>1, WonFrame
  <1>13. InStory(t, h, Frame(WonBy(f.e, w, w2), f.line), r)
    BY <1>11, <1>12, StoryDecided
  <1> QED
    BY <1>3, <1>5, <1>9, <1>13 DEF EndOf

-----------------------------------------------------------------------------
(* The replayer. *)

\* Before a closed street is dealt, card by card.
AtClose(s) == [es |-> <<s.e>>, from |-> ReturnUncalled(s.e), status |-> "runout"]

\* The replayer's loop is three rounds too.
LEMMA ShowsIs ==
  ASSUME NEW s, s.close = "advance"
  PROVE  Shows(s) = Onward(Onward(Onward(AtClose(s)))).es
  <1> DEFINE Eq(g) == g = [n \in 0 .. River |->
                              IF n = 0 THEN AtClose(s) ELSE Onward(g[n - 1])]
             h == CHOOSE g : Eq(g)
  <1>1. PICK a, b, c, d : a = AtClose(s) /\ b = Onward(a) /\ c = Onward(b) /\ d = Onward(c)
    OBVIOUS
  <1>2. PICK g : g = [n \in 0 .. 3 |-> IF n = 0 THEN a ELSE IF n = 1 THEN b ELSE IF n = 2 THEN c ELSE d]
    OBVIOUS
  <1>3. Eq(g)
    <2>1. g[0] = a /\ g[1] = b /\ g[2] = c /\ g[3] = d
      BY <1>2
    <2>2. \A n \in 0 .. 3 : n = 0 \/ n = 1 \/ n = 2 \/ n = 3
      OBVIOUS
    <2>3. \A n \in 0 .. 3 : g[n] = IF n = 0 THEN AtClose(s) ELSE Onward(g[n - 1])
      <3> TAKE n \in 0 .. 3
      <3>1. CASE n = 0
        BY <1>1, <2>1, <3>1
      <3>2. CASE n = 1
        BY <1>1, <2>1, <3>2
      <3>3. CASE n = 2
        BY <1>1, <2>1, <3>3
      <3>4. CASE n = 3
        BY <1>1, <2>1, <3>4
      <3> QED
        BY <2>2, <3>1, <3>2, <3>3, <3>4
    <2>4. g = [n \in 0 .. 3 |-> g[n]]
      BY <1>2
    <2>5. g = [n \in 0 .. 3 |-> IF n = 0 THEN AtClose(s) ELSE Onward(g[n - 1])]
      BY <2>3, <2>4
    <2> QED
      BY <2>5 DEF River
  <1>4. Eq(h)
    <2> HIDE DEF Eq
    <2> QED
      BY <1>3
  <1>5. h[0] = AtClose(s) /\ h[1] = Onward(h[0]) /\ h[2] = Onward(h[1]) /\ h[3] = Onward(h[2])
    <2> HIDE DEF h
    <2>1. \A n \in 0 .. 3 : h[n] = IF n = 0 THEN AtClose(s) ELSE Onward(h[n - 1])
      BY <1>4 DEF River
    <2> QED
      BY <2>1
  <1>6. Shows(s) = h[River].es
    BY DEF Shows, AtClose
  <1> HIDE DEF h
  <1> QED
    BY <1>5, <1>6 DEF River

\* What the replayer may show.
Engines(t) == {e \in EngineType : Whole(e, t)}
\* So far d is shown, and the engine's own loop is at x.
Alongside(d, x, t) ==
  /\ d.es \in Seq(Engines(t)) /\ Len(d.es) > 0 /\ d.from = x.e /\ d.status = x.status
  /\ d.status = "runout" \/ d.es[Len(d.es)] = d.from

\* One round more.
LEMMA OnwardAlong ==
  ASSUME NEW t \in TableType, NEW n \in Nat, NEW d, NEW x, Alongside(d, x, t), RoundsOn(x, n, t)
  PROVE  Alongside(Onward(d), Onwards(x), t) /\ RoundsOn(Onwards(x), n + 1, t)
         /\ Onward(d).es[Len(Onward(d).es)] = Onwards(x).e
  <1>1. RoundsOn(Onwards(x), n + 1, t)
    BY OnwardsWhole
  <1>2. CASE d.status # "runout"
    BY <1>1, <1>2 DEF Alongside, Onward, Onwards
  <1>3. CASE d.status = "runout"
    <2>1. PICK r, es : r = StepStreet(x.e) /\ es = Append(d.es, r.e)
      OBVIOUS
    <2>2. Onwards(x) = r /\ Onward(d) = [es |-> es, from |-> r.e, status |-> r.status]
      BY <1>3, <2>1 DEF Alongside, Onward, Onwards, OneMore
    <2>3. r.e \in Engines(t)
      BY <1>1, <2>2 DEF RoundsOn, Whole, Engines
    <2>4. d.es \in Seq(Engines(t)) /\ Len(d.es) \in Nat
      BY DEF Alongside
    <2>5. es \in Seq(Engines(t)) /\ Len(es) = Len(d.es) + 1 /\ es[Len(es)] = r.e
      BY <2>1, <2>3, <2>4
    <2> QED
      BY <1>1, <2>2, <2>4, <2>5 DEF Alongside
  <1> QED
    BY <1>2, <1>3

\* A settled action is shown, and last of all what it leads to.
LEMMA ShowsEnds ==
  ASSUME NEW t \in TableType, NEW e, InPlay(e, t), NEW kind \in Kinds, NEW to \in Nat,
         NEW s, s = SettleAction(e, kind, to)
  PROVE  /\ Shows(s) \in Seq(Engines(t)) /\ Len(Shows(s)) > 0
         /\ Shows(s)[Len(Shows(s))] = ApplyAction(e, kind, to)
  <1>1. /\ Whole(s.e, t) /\ s.close \in {"none", "foldout", "advance"}
    BY SettledWhole
  <1>2. ApplyAction(e, kind, to) = Concluded(s) /\ s.e \in Engines(t)
    BY <1>1 DEF ApplyAction, Engines, Whole
  <1>3. CASE s.close = "none"
    <2>1. PICK x : x = s.e /\ Shows(s) = <<x>> /\ Concluded(s) = x
      BY <1>3 DEF Shows, Concluded
    <2> QED
      BY <1>2, <2>1
  <1>4. CASE s.close = "foldout"
    <2>1. PICK x, y : x = s.e /\ y = FinishHand(x)
      OBVIOUS
    <2>2. Shows(s) = <<x, y>> /\ Concluded(s) = y
      BY <1>4, <2>1 DEF Shows, Concluded
    <2>3. y \in Engines(t)
      BY <1>1, <2>1, FinishWhole DEF Engines, InPlay, Whole
    <2> QED
      BY <1>2, <2>1, <2>2, <2>3
  <1>5. CASE s.close = "advance"
    <2>1. PICK r, x0, x1, x2, x3 : /\ r = ReturnUncalled(s.e) /\ x0 = Ready(r) /\ x1 = Onwards(x0)
                                   /\ x2 = Onwards(x1) /\ x3 = Onwards(x2)
      OBVIOUS
    <2>2. PICK d0, d1, d2, d3 : /\ d0 = AtClose(s) /\ d1 = Onward(d0)
                                /\ d2 = Onward(d1) /\ d3 = Onward(d2)
      OBVIOUS
    <2>3. Concluded(s) = x3.e /\ Shows(s) = d3.es
      BY <1>5, <2>1, <2>2, AdvanceIs, ShowsIs DEF Concluded
    <2>4. RoundsOn(x0, 0, t)
      BY <1>1, <2>1, ReturnWhole DEF Ready, RoundsOn
    <2>5. Alongside(d0, x0, t)
      <3>1. PICK z : z = <<s.e>>
        OBVIOUS
      <3>2. z \in Seq(Engines(t)) /\ Len(z) > 0
        BY <1>2, <3>1
      <3>3. d0.es = z /\ d0.from = r /\ d0.status = "runout" /\ x0.e = r /\ x0.status = "runout"
        BY <2>1, <2>2, <3>1 DEF AtClose, Ready
      <3> QED
        BY <3>2, <3>3 DEF Alongside
    <2>6. Alongside(d1, x1, t) /\ RoundsOn(x1, 0 + 1, t)
      BY <2>1, <2>2, <2>4, <2>5, OnwardAlong
    <2>7. Alongside(d2, x2, t) /\ RoundsOn(x2, (0 + 1) + 1, t)
      BY <2>1, <2>2, <2>6, OnwardAlong
    <2>8. Alongside(d3, x3, t) /\ d3.es[Len(d3.es)] = x3.e
      BY <2>1, <2>2, <2>7, OnwardAlong
    <2> QED
      BY <1>2, <2>3, <2>8 DEF Alongside
  <1> QED
    BY <1>1, <1>3, <1>4, <1>5

\* An action on a frame is the engine's, also when it is ignored.
LEMMA SteppedIs ==
  ASSUME NEW t, NEW f, f \in Frames(t), NEW a
  PROVE  Stepped(f, a).e = ApplyAction(f.e, a.kind, a.to)
  <1>1. CASE f.e.toAct = NoOne \/ f.e.done
    <2>1. SettleAction(f.e, a.kind, a.to) = [e |-> f.e, close |-> "none"]
      BY <1>1 DEF SettleAction
    <2> QED
      BY <1>1, <2>1 DEF Stepped, ApplyAction, Concluded
  <1>2. CASE ~(f.e.toAct = NoOne \/ f.e.done)
    BY <1>2 DEF Stepped, Frame
  <1> QED
    BY <1>1, <1>2

\* What has been shown of a line after n actions.
ShownOf(s, t, fs, n) ==
  /\ s \in Seq(Engines(t)) /\ Len(s) > 0 /\ s[Len(s)] = fs[n + 1].e
  /\ \A k \in 1 .. n + 1 : \E j \in 1 .. Len(s) : s[j] = fs[k].e

\* The action n + 1 is shown.
LEMMA ShownOn ==
  ASSUME NEW t \in TableType, NEW l \in Seq(Move), NEW fs, FramesOf(fs, t, l), NEW n \in Nat, n < Len(l),
         NEW s, ShownOf(s, t, fs, n)
  PROVE  ShownOf(ReplayStep(s, l[n + 1]), t, fs, n + 1)
  <1>1. /\ Len(l) \in Nat /\ n + 1 \in 1 .. Len(l) /\ l[n + 1] \in Action /\ Len(fs) = Len(l) + 1
        /\ fs \in Seq(Frames(t)) /\ n + 1 \in 1 .. Len(fs) /\ (n + 1) + 1 = n + 2
    BY MoveActs DEF FramesOf
  <1>2. PICK a, f, g, e : a = l[n + 1] /\ f = fs[n + 1] /\ g = fs[n + 2] /\ e = f.e
    OBVIOUS
  <1>3. f \in Frames(t) /\ InPlay(e, t) /\ a.kind \in Kinds /\ a.to \in Nat
    <2>1. f \in Frames(t)
      BY <1>1, <1>2
    <2> QED
      BY <1>1, <1>2, <2>1 DEF Frames, Action
  <1>4. g = Stepped(f, a) /\ g.e = ApplyAction(e, a.kind, a.to)
    <2>1. fs[(n + 1) + 1] = Stepped(fs[n + 1], l[n + 1])
      BY <1>1 DEF FramesOf
    <2>2. g = Stepped(f, a)
      BY <1>1, <1>2, <2>1
    <2> QED
      BY <1>2, <1>3, <2>2, SteppedIs
  <1>5. /\ s \in Seq(Engines(t)) /\ Len(s) \in Nat /\ Len(s) > 0 /\ s[Len(s)] = e
        /\ \A k \in 1 .. n + 1 : \E j \in 1 .. Len(s) : s[j] = fs[k].e
    <2>1. s \in Seq(Engines(t)) /\ Len(s) > 0 /\ s[Len(s)] = fs[n + 1].e
      BY DEF ShownOf
    <2>2. Len(s) \in Nat
      BY <2>1
    <2>3. s[Len(s)] = e
      BY <1>2, <2>1
    <2>4. \A k \in 1 .. n + 1 : \E j \in 1 .. Len(s) : s[j] = fs[k].e
      BY DEF ShownOf
    <2> QED
      BY <2>1, <2>2, <2>3, <2>4
  <1>6. PICK z : z = Shows(SettleAction(e, a.kind, a.to))
    OBVIOUS
  <1>7. z \in Seq(Engines(t)) /\ Len(z) > 0 /\ z[Len(z)] = g.e /\ Len(z) \in Nat
    <2>1. z \in Seq(Engines(t)) /\ Len(z) > 0 /\ z[Len(z)] = ApplyAction(e, a.kind, a.to)
      BY <1>3, <1>6, ShowsEnds
    <2> QED
      BY <1>4, <2>1
  <1>8. PICK u : u = s \o z
    OBVIOUS
  <1>9. ReplayStep(s, a) = u
    BY <1>5, <1>6, <1>8 DEF ReplayStep, Last
  <1>10. /\ u \in Seq(Engines(t)) /\ Len(u) = Len(s) + Len(z)
         /\ \A i \in 1 .. Len(s) + Len(z) : u[i] = IF i <= Len(s) THEN s[i] ELSE z[i - Len(s)]
    BY <1>5, <1>7, <1>8, ConcatProperties
  <1>11. u[Len(u)] = g.e /\ Len(u) > 0 /\ Len(u) \in 1 .. Len(u)
    <2>1. Len(u) \in 1 .. Len(s) + Len(z) /\ ~(Len(u) <= Len(s)) /\ Len(u) - Len(s) = Len(z)
      BY <1>5, <1>7, <1>10
    <2> QED
      BY <1>7, <1>10, <2>1
  <1>12. ASSUME NEW k \in 1 .. n + 2 PROVE \E j \in 1 .. Len(u) : u[j] = fs[k].e
    <2>1. CASE k = n + 2
      BY <1>2, <1>11, <2>1
    <2>2. CASE k # n + 2
      <3>1. k \in 1 .. n + 1
        BY <2>2
      <3>2. PICK j \in 1 .. Len(s) : s[j] = fs[k].e
        BY <1>5, <3>1
      <3>3. j \in 1 .. Len(u) /\ u[j] = s[j]
        BY <1>5, <1>7, <1>10
      <3> QED
        BY <3>2, <3>3
    <2> QED
      BY <2>1, <2>2
  <1> QED
    BY <1>1, <1>2, <1>9, <1>10, <1>11, <1>12 DEF ShownOf

\* What reconstructFrames shows of a line, before the winners.
LEMMA ReplayShows ==
  ASSUME NEW t \in TableType, NEW l \in Seq(Move), NEW fs, FramesOf(fs, t, l),
         NEW d, d.setup = t, d.line = l
  PROVE  \E es : ShownOf(es, t, fs, Len(l)) /\ ReconstructFrames(d) = Replayed(d, es)
  <1> DEFINE N == Len(l)
             A == {s \in Seq(Engines(t)) : Len(s) > 0 /\ InPlay(s[Len(s)], t)}
             start == <<BuildEngine(t)>>
             F == [x \in (1 .. N) \X A |-> ReplayStep(x[2], l[x[1]])]
             Eq(g) == g = [n \in 0 .. Len(d.line) |->
                             IF n = 0 THEN <<BuildEngine(d.setup)>> ELSE ReplayStep(g[n - 1], d.line[n])]
             h == CHOOSE g : Eq(g)
  <1>1. N \in Nat /\ \A n \in 1 .. N : l[n] \in Action
    BY MoveActs
  <1>2. start \in A /\ Len(start) = 1 /\ start[1] = BuildEngine(t)
    <2>1. PICK b : b = BuildEngine(t)
      OBVIOUS
    <2>2. InPlay(b, t) /\ b \in Engines(t)
      BY <2>1, DealtFits DEF Frames, Frame, Engines, InPlay, Whole
    <2> QED
      BY <2>1, <2>2
  <1>3. ASSUME NEW n \in 1 .. N, NEW s \in A
        PROVE  ReplayStep(s, l[n]) \in A
    <2>1. PICK e, a, z : e = s[Len(s)] /\ a = l[n] /\ z = Shows(SettleAction(e, a.kind, a.to))
      OBVIOUS
    <2>2. InPlay(e, t) /\ a.kind \in Kinds /\ a.to \in Nat /\ s \in Seq(Engines(t)) /\ Len(s) \in Nat
      BY <1>1, <2>1 DEF Action
    <2>3. z \in Seq(Engines(t)) /\ Len(z) > 0 /\ z[Len(z)] = ApplyAction(e, a.kind, a.to)
      BY <2>1, <2>2, ShowsEnds
    <2>4. InPlay(ApplyAction(e, a.kind, a.to), t) /\ Len(z) \in Nat
      BY <2>2, <2>3, ConcludedWhole
    <2>5. PICK u : u = s \o z
      OBVIOUS
    <2>6. ReplayStep(s, l[n]) = u
      BY <2>1, <2>5 DEF ReplayStep, Last
    <2>7. /\ u \in Seq(Engines(t)) /\ Len(u) = Len(s) + Len(z)
          /\ \A i \in 1 .. Len(s) + Len(z) : u[i] = IF i <= Len(s) THEN s[i] ELSE z[i - Len(s)]
      BY <2>2, <2>3, <2>5, ConcatProperties
    <2>8. Len(u) \in 1 .. Len(s) + Len(z) /\ ~(Len(u) <= Len(s)) /\ Len(u) - Len(s) = Len(z) /\ Len(u) > 0
      BY <2>2, <2>3, <2>4, <2>7
    <2>9. u[Len(u)] = z[Len(z)]
      BY <2>7, <2>8
    <2> QED
      BY <2>3, <2>4, <2>6, <2>7, <2>8, <2>9
  <1>4. F \in [(1 .. N) \X A -> A]
    <2> HIDE DEF A, N
    <2> QED
      BY <1>3
  <1> HIDE DEF A, start
  <1>5. PICK g : g \in [0 .. N -> A] /\ Steps(g, N, start, F)
    <2> HIDE DEF F, N
    <2> QED
      BY <1>1, <1>2, <1>4, StepsExist
  <1>6. Eq(g)
    <2>1. \A n \in 0 .. N : g[n] = IF n = 0 THEN start ELSE ReplayStep(g[n - 1], l[n])
      <3> TAKE n \in 0 .. N
      <3>1. CASE n = 0
        BY <1>5, <3>1 DEF Steps
      <3>2. CASE n # 0
        <4>1. n \in 1 .. N /\ g[n - 1] \in A
          BY <1>1, <1>5, <3>2
        <4>2. g[n] = F[<<n, g[n - 1]>>]
          BY <1>5, <3>2 DEF Steps
        <4> QED
          BY <4>1, <4>2, <3>2
      <3> QED
        BY <3>1, <3>2
    <2> QED
      BY <1>5, <2>1 DEF start
  <1>7. Eq(h)
    <2> HIDE DEF Eq
    <2> QED
      BY <1>6
  <1>8. ReconstructFrames(d) = Replayed(d, h[N])
    BY DEF ReconstructFrames
  <1> HIDE DEF h, N
  <1>9. h[0] = start /\ \A n \in 1 .. N : h[n] = ReplayStep(h[n - 1], l[n])
    <2>1. \A n \in 0 .. N : h[n] = IF n = 0 THEN start ELSE ReplayStep(h[n - 1], l[n])
      BY <1>7 DEF start, N
    <2>2. 0 \in 0 .. N /\ \A n \in 1 .. N : n \in 0 .. N /\ n # 0
      BY <1>1
    <2> QED
      BY <2>1, <2>2
  <1> DEFINE P == {n \in Nat : n <= N => ShownOf(h[n], t, fs, n)}
  <1>10. 0 \in P
    <2>1. fs[1].e = BuildEngine(t)
      BY DEF FramesOf, Frame
    <2>2. h[0] \in Seq(Engines(t)) /\ Len(h[0]) = 1 /\ h[0][1] = fs[1].e
      BY <1>2, <1>9, <2>1 DEF A
    <2> QED
      BY <2>2 DEF ShownOf
  <1>11. ASSUME NEW n \in Nat, n \in P PROVE n + 1 \in P
    <2> SUFFICES ASSUME n + 1 <= N PROVE ShownOf(h[n + 1], t, fs, n + 1)
      OBVIOUS
    <2>1. n < Len(l) /\ n + 1 \in 1 .. N /\ (n + 1) - 1 = n /\ ShownOf(h[n], t, fs, n)
      BY <1>1, <1>11 DEF N
    <2>2. h[n + 1] = ReplayStep(h[n], l[n + 1])
      BY <1>9, <2>1
    <2> QED
      BY <2>1, <2>2, ShownOn
  <1>12. \A n \in Nat : n \in P
    <2> HIDE DEF P
    <2> QED
      BY <1>10, <1>11, NatInd
  <1>13. ShownOf(h[N], t, fs, N)
    BY <1>1, <1>12
  <1> QED
    BY <1>8, <1>13 DEF N

-----------------------------------------------------------------------------
(* What the editor promises of a story. *)

\* A beginning is a prefix.
LEMMA BeginsPrefix ==
  ASSUME NEW l \in Seq(Move), NEW m \in Seq(Move), Begins(l, m)
  PROVE  IsPrefix(l, m)
  <1>1. Len(l) \in Nat /\ Len(m) \in Nat /\ Len(l) <= Len(m) /\ \A k \in 1 .. Len(l) : m[k] = l[k]
    BY DEF Begins
  <1>2. PICK n : n = Len(l) /\ n \in Int /\ \A i \in 1 .. n : m[i] \in Move
    BY <1>1
  <1>3. /\ SubSeq(m, 1, n) \in Seq(Move) /\ Len(SubSeq(m, 1, n)) = (IF 1 <= n THEN n - 1 + 1 ELSE 0)
        /\ \A i \in 1 .. n - 1 + 1 : SubSeq(m, 1, n)[i] = m[1 + i - 1]
    BY <1>2, SubSeqProperties
  <1>4. PICK s : s = SubSeq(m, 1, n)
    OBVIOUS
  <1>5. n - 1 + 1 = n /\ \A i \in 1 .. n : 1 + i - 1 = i
    BY <1>2
  <1>6. s \in Seq(Move) /\ Len(s) = Len(l)
    BY <1>1, <1>2, <1>3, <1>4
  <1>7. \A i \in 1 .. Len(s) : s[i] = l[i]
    BY <1>1, <1>2, <1>3, <1>4, <1>5, <1>6
  <1>8. s = l
    BY <1>6, <1>7, SeqEqual
  <1>9. SubSeq(l, 1, Len(l)) = l
    BY SubSeqFull
  <1> QED
    BY <1>1, <1>2, <1>4, <1>8, <1>9 DEF IsPrefix

\* All frames, from the oldest to the one that was undone first.
LEMMA StoryFollows ==
  ASSUME NEW t, NEW h, NEW f, NEW r, InStory(t, h, f, r),
         NEW all, all = Append(h, f) \o Reverse(r)
  PROVE  /\ DOMAIN all = 1 .. Len(all) /\ Len(all) \in Nat
         /\ \A i \in DOMAIN all : Follower(t, all[i])
         /\ \A i \in 1 .. Len(all) - 1 : IsPrefix(all[i].line, all[i + 1].line)
  <1>1. /\ h \in Seq(FrameType) /\ r \in Seq(FrameType) /\ f \in FrameType /\ Follower(t, f)
        /\ Len(h) \in Nat /\ Len(r) \in Nat
    BY FollowerLine DEF InStory
  <1>2. PICK a, b : a = Append(h, f) /\ b = Reverse(r)
    OBVIOUS
  <1>3. a \in Seq(FrameType) /\ Len(a) = Len(h) + 1 /\ a[Len(h) + 1] = f /\ \A i \in 1 .. Len(h) : a[i] = h[i]
    BY <1>1, <1>2
  <1>4. b \in Seq(FrameType) /\ Len(b) = Len(r) /\ \A i \in 1 .. Len(r) : b[i] = r[(Len(r) - i) + 1]
    <2>1. b = [i \in 1 .. Len(r) |-> r[(Len(r) - i) + 1]]
      BY <1>2 DEF Reverse
    <2>2. \A i \in 1 .. Len(r) : (Len(r) - i) + 1 \in 1 .. Len(r)
      BY <1>1
    <2>3. \A i \in 1 .. Len(r) : r[(Len(r) - i) + 1] \in FrameType
      BY <1>1, <2>2
    <2> QED
      BY <1>1, <2>1, <2>3
  <1>5. /\ all \in Seq(FrameType) /\ Len(all) = Len(a) + Len(b)
        /\ \A i \in 1 .. Len(a) + Len(b) : all[i] = IF i <= Len(a) THEN a[i] ELSE b[i - Len(a)]
    <2>1. all = a \o b /\ a \in Seq(FrameType) /\ b \in Seq(FrameType)
      BY <1>2, <1>3, <1>4
    <2> QED
      BY <2>1, ConcatProperties
  <1>6. DOMAIN all = 1 .. Len(all) /\ Len(all) \in Nat /\ Len(all) = Len(h) + 1 + Len(r)
    <2>1. DOMAIN all = 1 .. Len(all) /\ Len(all) \in Nat
      BY <1>5, LenProperties
    <2> QED
      BY <1>1, <1>3, <1>4, <1>5, <2>1
  <1>7. /\ \A i \in 1 .. Len(h) : all[i] = h[i]
        /\ all[Len(h) + 1] = f
    BY <1>1, <1>3, <1>4, <1>5
  <1>8. ASSUME NEW i \in 1 .. Len(r) PROVE all[Len(h) + 1 + i] = r[(Len(r) - i) + 1]
    <2>1. /\ Len(h) + 1 + i \in 1 .. Len(a) + Len(b) /\ ~(Len(h) + 1 + i <= Len(a))
          /\ (Len(h) + 1 + i) - Len(a) = i
      BY <1>1, <1>3, <1>4
    <2> QED
      BY <1>4, <1>5, <2>1
  <1>9. ASSUME NEW i \in 1 .. Len(all)
        PROVE  /\ Follower(t, all[i])
               /\ i < Len(all) => Begins(all[i].line, all[i + 1].line)
    <2>1. CASE i <= Len(h)
      <3>1. i \in 1 .. Len(h) /\ all[i] = h[i]
        BY <1>1, <1>7, <2>1
      <3>2. Follower(t, h[i]) /\ Begins(h[i].line, f.line) /\ \A j \in i .. Len(h) : Begins(h[i].line, h[j].line)
        BY <3>1 DEF InStory
      <3>3. CASE i = Len(h)
        BY <1>7, <3>1, <3>2, <3>3
      <3>4. CASE i # Len(h)
        <4>1. i + 1 \in 1 .. Len(h) /\ i + 1 \in i .. Len(h) /\ all[i + 1] = h[i + 1]
          BY <1>1, <1>7, <3>1, <3>4
        <4> QED
          BY <3>1, <3>2, <4>1
      <3> QED
        BY <3>3, <3>4
    <2>2. CASE i = Len(h) + 1
      <3>1. ASSUME i < Len(all) PROVE Begins(f.line, all[i + 1].line)
        <4>1. PICK k : k = Len(r) /\ k \in 1 .. Len(r) /\ 1 \in 1 .. Len(r) /\ (Len(r) - 1) + 1 = k /\ Len(h) + 1 + 1 = i + 1
          BY <1>1, <1>6, <2>2, <3>1
        <4>2. all[i + 1] = r[k]
          BY <1>8, <4>1
        <4> QED
          BY <4>1, <4>2 DEF InStory
      <3> QED
        BY <1>1, <1>7, <2>2, <3>1
    <2>3. CASE i > Len(h) + 1
      <3>1. PICK k : k = i - Len(h) - 1 /\ k \in 1 .. Len(r) /\ Len(h) + 1 + k = i
        BY <1>1, <1>6, <2>3
      <3>0. PICK n : n = (Len(r) - k) + 1
        OBVIOUS
      <3>2. n = (Len(r) - k) + 1 /\ n \in 1 .. Len(r) /\ all[i] = r[n]
        <4>1. n \in 1 .. Len(r)
          BY <1>1, <3>0, <3>1
        <4> QED
          BY <1>8, <3>0, <3>1, <4>1
      <3>3. Follower(t, r[n])
        BY <3>2 DEF InStory
      <3>4. ASSUME i < Len(all) PROVE Begins(r[n].line, all[i + 1].line)
        <4>1. k + 1 \in 1 .. Len(r) /\ Len(h) + 1 + (k + 1) = i + 1 /\ (Len(r) - (k + 1)) + 1 = n - 1
              /\ n - 1 \in 1 .. Len(r) /\ n \in n - 1 .. Len(r)
          <5>1. k < Len(r) /\ k \in Nat /\ k > 0
            BY <1>1, <1>6, <3>1, <3>4
          <5>2. k + 1 \in 1 .. Len(r) /\ n - 1 \in 1 .. Len(r) /\ n \in n - 1 .. Len(r)
            BY <1>1, <3>2, <5>1
          <5>3. Len(h) + 1 + (k + 1) = i + 1 /\ (Len(r) - (k + 1)) + 1 = n - 1
            BY <1>1, <3>1, <3>2, <5>1
          <5> QED
            BY <5>2, <5>3
        <4>2. all[i + 1] = r[n - 1]
          BY <1>8, <4>1
        <4>3. \A j \in n - 1 .. Len(r) : Begins(r[j].line, r[n - 1].line)
          BY <4>1 DEF InStory
        <4> QED
          BY <4>1, <4>2, <4>3
      <3> QED
        BY <3>2, <3>3, <3>4
    <2> QED
      BY <1>1, <2>1, <2>2, <2>3
  <1>10. ASSUME NEW i \in 1 .. Len(all) - 1 PROVE IsPrefix(all[i].line, all[i + 1].line)
    <2>1. i \in 1 .. Len(all) /\ i + 1 \in 1 .. Len(all) /\ i < Len(all)
      BY <1>6
    <2>2. Follower(t, all[i]) /\ Follower(t, all[i + 1]) /\ Begins(all[i].line, all[i + 1].line)
      BY <1>9, <2>1
    <2> QED
      BY <2>2, FollowerLine, BeginsPrefix
  <1> QED
    BY <1>6, <1>9, <1>10

\* The winners that were decided are put back as they were.
LEMMA WonBack ==
  ASSUME NEW t, NEW e, NEW d, InPlay(e, t), InPlay(d, t), Bare(e) = Bare(d), Resolved(e),
         NEW w2, w2 = IF t.boards = 2 THEN e.winners2 ELSE Undecided
  PROVE  WonBy(d, e.winners, w2) = e
  <1>1. /\ e \in EngineType /\ d \in EngineType /\ e.boards = t.boards /\ d.boards = t.boards /\ e.boards \in 1 .. 2
        /\ (e.boards = 1 => e.winners2 = Undecided) /\ (d.boards = 1 => d.winners2 = Undecided)
    BY DEF InPlay, Whole, Chips, EngineType
  <1>2. PICK w, v : w = e.winners /\ v = e.winners2 /\ w # Undecided
    BY DEF Resolved
  <1>3. e = With(d, w, v)
    BY <1>1, <1>2, BareWith
  <1>4. CASE t.boards = 2
    <2>1. w2 = v /\ v # Undecided
      BY <1>1, <1>2, <1>4 DEF Resolved
    <2>2. PICK one : one = [d EXCEPT !.winners = w]
      OBVIOUS
    <2>3. WonBy(d, w, w2) = [one EXCEPT !.winners2 = v]
      <3>1. SetWinners(d, w, 1) = one /\ SetWinners(one, v, 2) = [one EXCEPT !.winners2 = v]
        BY <2>2 DEF SetWinners
      <3> QED
        BY <1>2, <2>1, <3>1 DEF WonBy
    <2>4. [one EXCEPT !.winners2 = v] = With(d, w, v)
      BY <1>1, <2>2 DEF With, EngineType
    <2> QED
      BY <1>2, <1>3, <2>3, <2>4
  <1>5. CASE t.boards # 2
    <2>1. w2 = Undecided /\ v = Undecided /\ d.winners2 = Undecided
      BY <1>1, <1>2, <1>5
    <2>2. WonBy(d, w, w2) = [d EXCEPT !.winners = w]
      BY <1>2, <2>1 DEF WonBy, SetWinners
    <2>3. [d EXCEPT !.winners = w] = With(d, w, d.winners2)
      BY <1>1 DEF With, EngineType
    <2> QED
      BY <1>2, <1>3, <2>1, <2>2, <2>3
  <1> QED
    BY <1>4, <1>5

\* The payload of a resolved hand rebuilds the frame that is shown, the replayer ends there,
\* and it has shown every frame of the undo stack.
LEMMA StoryReplays ==
  ASSUME NEW t \in TableType, NEW h, NEW f, NEW r, InStory(t, h, f, r), Resolved(f.e),
         NEW d, d.setup = t, d.line = f.line, d.winners = f.e.winners, d.winners2 = f.e.winners2
  PROVE  /\ Resolution(d) = f
         /\ Last(ReconstructFrames(d)) = f.e
         /\ \A i \in DOMAIN h : \E j \in DOMAIN ReconstructFrames(d) :
               Bare(ReconstructFrames(d)[j]) = Bare(h[i].e)
  <1>1. /\ Follower(t, f) /\ f.line \in Seq(Move) /\ InPlay(f.e, t) /\ f = Frame(f.e, f.line)
        /\ Len(f.line) \in Nat
    BY FollowerLine DEF InStory
  <1>2. PICK l, g, N : l = f.line /\ g = Rebuilt(t, l) /\ N = Len(l)
    OBVIOUS
  <1>3. g \in Frames(t) /\ g.line = l /\ Bare(f.e) = Bare(g.e) /\ InPlay(g.e, t) /\ l \in Seq(Move) /\ N \in Nat
    <2>1. Told(t, g) /\ l \in Seq(Move)
      BY <1>1, <1>2, RebuiltTold
    <2>2. g \in Frames(t)
      BY <2>1 DEF Told
    <2> QED
      BY <1>1, <1>2, <2>1, <2>2 DEF Follower, Frames
  <1>4. PICK w2 : w2 = Resolved2(d) /\ w2 = IF t.boards = 2 THEN f.e.winners2 ELSE Undecided
    BY DEF Resolved2
  <1>5. WonBy(g.e, f.e.winners, w2) = f.e
    BY <1>1, <1>3, <1>4, WonBack
  <1>6. Resolution(d) = f
    BY <1>1, <1>2, <1>3, <1>4, <1>5 DEF Resolution, EndOf
  <1>7. PICK fs : FramesOf(fs, t, l)
    BY <1>3, RebuildIs
  <1>8. PICK es : ShownOf(es, t, fs, N) /\ ReconstructFrames(d) = Replayed(d, es)
    BY <1>2, <1>3, <1>7, ReplayShows
  <1>9. es \in Seq(Engines(t)) /\ Len(es) > 0 /\ Len(es) \in Nat /\ es # <<>> /\ es[Len(es)] = fs[N + 1].e
    BY <1>8 DEF ShownOf
  <1>10. fs[N + 1] = g
    <2>1. Len(l) <= Len(l) /\ \A k \in 1 .. Len(l) : l[k] = l[k]
      BY <1>2, <1>3
    <2> QED
      BY <1>2, <1>3, <1>7, <2>1, RebuiltOnTheWay
  <1>11. PICK u, s : u = Front(es) /\ s = Append(u, f.e)
    OBVIOUS
  <1>12. /\ u \in Seq(Engines(t)) /\ Len(u) = Len(es) - 1 /\ Last(es) = es[Len(es)]
         /\ \A i \in 1 .. Len(es) - 1 : u[i] = es[i]
    BY <1>9, <1>11, FrontIs
  <1>13. Replayed(d, es) = s
    BY <1>4, <1>5, <1>9, <1>10, <1>11, <1>12 DEF Replayed
  <1>14. f.e \in Engines(t)
    BY <1>1 DEF Engines, InPlay, Whole
  <1>15. /\ s \in Seq(Engines(t)) /\ Len(s) = Len(es) /\ s[Len(es)] = f.e
         /\ \A i \in 1 .. Len(es) - 1 : s[i] = es[i]
    <2>1. Len(u) + 1 = Len(es)
      BY <1>9, <1>12
    <2> QED
      BY <1>9, <1>11, <1>12, <1>14, <2>1
  <1>16. Last(s) = f.e /\ DOMAIN s = 1 .. Len(es)
    BY <1>15, LenProperties DEF Last
  <1>17. ASSUME NEW i \in DOMAIN h PROVE \E j \in DOMAIN s : Bare(s[j]) = Bare(h[i].e)
    <2>1. h \in Seq(FrameType) /\ i \in 1 .. Len(h)
      BY LenProperties DEF InStory
    <2>2. PICK x, m : x = h[i] /\ m = x.line
      OBVIOUS
    <2>3. Follower(t, x) /\ Begins(m, l) /\ m \in Seq(Move)
      BY <1>2, <2>1, <2>2, FollowerLine DEF InStory
    <2>4. PICK k : k = Len(m) + 1
      OBVIOUS
    <2>5. Rebuilt(t, m) = fs[k] /\ k \in 1 .. N + 1
      <3>1. Len(m) \in Nat /\ Len(m) <= Len(l) /\ \A q \in 1 .. Len(m) : l[q] = m[q]
        BY <2>3 DEF Begins
      <3> QED
        BY <1>2, <1>3, <1>7, <2>3, <2>4, <3>1, RebuiltOnTheWay
    <2>6. PICK j \in 1 .. Len(es) : es[j] = fs[k].e
      BY <1>8, <2>5 DEF ShownOf
    <2>7. Bare(es[j]) = Bare(x.e)
      BY <2>2, <2>3, <2>5, <2>6 DEF Follower
    <2>8. Bare(s[j]) = Bare(es[j])
      <3>1. CASE j = Len(es)
        BY <1>3, <1>9, <1>10, <1>15, <3>1
      <3>2. CASE j # Len(es)
        <4>1. j \in 1 .. Len(es) - 1
          BY <1>9, <3>2
        <4> QED
          BY <1>15, <4>1
      <3> QED
        BY <3>1, <3>2
    <2> QED
      BY <1>16, <2>2, <2>7, <2>8
  <1> QED
    BY <1>6, <1>8, <1>13, <1>16, <1>17

-----------------------------------------------------------------------------
(* The invariant of the editor. *)

\* The hand that was just dealt, with nothing undone.
LEMMA StoryBegins ==
  ASSUME NEW t \in TableType
  PROVE  InStory(t, <<>>, Frame(BuildEngine(t), <<>>), <<>>)
  <1>1. PICK f, h : f = Frame(BuildEngine(t), <<>>) /\ h = <<>>
    OBVIOUS
  <1>2. Follower(t, f)
    BY <1>1, DealtTold, ToldFollows
  <1>3. h \in Seq(FrameType) /\ Len(h) = 0
    BY <1>1
  <1>4. InStory(t, h, f, h)
    BY <1>2, <1>3 DEF InStory
  <1> QED
    BY <1>1, <1>4

\* A payload that was saved.
DataOK(d) ==
  /\ d.setup \in TableType /\ d.line \in Seq(Move)
  /\ d.winners \subseteq d.setup.active /\ d.winners2 \subseteq d.setup.active /\ CardsOK(d.cards)

\* Where the edit mode opens is one step back from the end.
LEMMA StoryOpened ==
  ASSUME NEW d, DataOK(d), NEW t, t = d.setup, NEW h, h = Front(RebuildFrames(t, d.line)), NEW f, f = Resolution(d)
  PROVE  /\ h = <<>> => InStory(t, <<>>, f, <<>>)
         /\ h # <<>> => InStory(t, Front(h), Last(h), <<f>>)
  <1>1. PICK l, fs, w, w2 : l = d.line /\ fs = RebuildFrames(t, l) /\ w = d.winners /\ w2 = Resolved2(d)
    OBVIOUS
  <1>2. t \in TableType /\ l \in Seq(Move) /\ w \subseteq t.active
    BY <1>1 DEF DataOK
  <1>3. w2 \subseteq t.active /\ (t.boards = 1 => w2 = Undecided)
    BY <1>1 DEF DataOK, Resolved2, Undecided
  <1>4. f = EndOf(Last(fs), w, w2) /\ h = Front(fs)
    BY <1>1 DEF Resolution, Rebuilt
  <1>5. PICK r : r = <<>>
    OBVIOUS
  <1>6. InStory(t, h, f, r)
    BY <1>1, <1>2, <1>3, <1>4, <1>5, StoryRebuilt
  <1>7. ASSUME h # <<>> PROVE InStory(t, Front(h), Last(h), <<f>>)
    <2>1. InStory(t, Front(h), Last(h), Append(r, f))
      BY <1>6, <1>7, StoryUndone
    <2>2. Append(r, f) = <<f>>
      BY <1>5
    <2> QED
      BY <2>1, <2>2
  <1> QED
    BY <1>5, <1>6, <1>7

\* While a hand is played.
Acting(t, h, f, r) == t \in TableType /\ InStory(t, h, f, r) /\ Len(r) <= MaxUndone
\* While the table is set up.
SettingUp(t, h, f, r) ==
  /\ t \in TableType /\ f \in Frames(t) /\ h \in Seq(FrameType) /\ r \in Seq(FrameType) /\ Len(r) <= MaxUndone
\* What the phases share.
EditorRest ==
  /\ hands \in 1 .. MaxHands /\ edits \in 0 .. MaxEdits /\ CardsOK(cards)
  /\ saved = {} \/ \E d : saved = {d} /\ DataOK(d)
\* A hand is played out of a story; a table that is set up has frames nobody shows any more.
EditorInv ==
  /\ EditorRest
  /\ \/ phase = "action" /\ Acting(setup, history, Current, redo)
     \/ phase = "setup" /\ SettingUp(setup, history, Current, redo)

\* A hand that is played is one that could be set up.
LEMMA ActingSetsUp ==
  ASSUME NEW t, NEW h, NEW f, NEW r, Acting(t, h, f, r)
  PROVE  SettingUp(t, h, f, r)
  BY FollowerLine DEF Acting, SettingUp, InStory

\* The buttons of the panel.
LEMMA AllowedActs ==
  ASSUME NEW t \in TableType, InPlay(engine, t), ToAct
  PROVE  Allowed \subseteq Action
  <1>1. engine.toAct \in CanAct(engine) /\ Whole(engine, t) /\ engine \in EngineType
    BY DEF ToAct, InPlay, Whole
  <1>2. PICK p : p = engine.toAct
    OBVIOUS
  <1>3. engine.stack[p] \in Nat /\ engine.committed[p] \in Nat /\ engine.currentBet \in Nat /\ engine.minRaise \in Nat
    BY <1>1, <1>2, ActorWhole DEF EngineType
  <1>4. MaxTo(engine) \in Nat
    BY <1>2, <1>3 DEF MaxTo
  <1>5. MinRaiseTo(engine) \in Nat
    <2>1. PICK a : a = engine.currentBet + (IF engine.currentBet = 0 THEN BigBlind ELSE engine.minRaise)
      OBVIOUS
    <2>2. a \in Nat /\ a \in Int /\ MaxTo(engine) \in Int
      BY <1>3, <1>4, <2>1, SeatNumbers
    <2>3. Min({a, MaxTo(engine)}) = Lesser(a, MaxTo(engine))
      BY <2>2, LesserOf
    <2> QED
      BY <1>4, <2>1, <2>2, <2>3 DEF MinRaiseTo, Lesser
  <1>6. Sizes \subseteq Nat
    BY <1>4, <1>5 DEF Sizes
  <1> QED
    BY <1>6 DEF Allowed, Action, Kinds

\* The seat editor.
LEMMA StraddleSetFits ==
  ASSUME NEW t \in TableType, NEW p \in Seats, NEW amount \in Nat, NEW u, u = StraddleSet(t, p, amount)
  PROVE  u \in TableType /\ u.active = t.active /\ u.boards = t.boards
  <1>1. PICK utg, prior, posted :
          /\ utg = (IF t.utg = 0 THEN NoOne ELSE Clockwise(t.active, BigBlindOf(t)))
          /\ prior = PinnedElsewhere(t.straddles, utg)
          /\ posted = [seat |-> p, amount |-> amount]
    OBVIOUS
  <1>2. posted \in Straddle
    BY <1>1 DEF Straddle
  <1>3. prior \in Seq(Straddle)
    BY <1>1, TableFits, PinnedElsewhereFits
  <1>4. ASSUME NEW a \in Nat, NEW s \in Seq(Straddle), u = [t EXCEPT !.utg = a, !.straddles = s]
        PROVE  u \in TableType /\ u.active = t.active /\ u.boards = t.boards
    BY <1>4 DEF TableType, Straddle
  <1>5. ASSUME NEW s \in Seq(Straddle), u = [t EXCEPT !.straddles = s]
        PROVE  u \in TableType /\ u.active = t.active /\ u.boards = t.boards
    BY <1>5 DEF TableType, Straddle
  <1>6. CASE p = utg
    <2>1. u = [t EXCEPT !.utg = amount, !.straddles = prior]
      BY <1>1, <1>6 DEF StraddleSet
    <2> QED
      BY <1>3, <1>4, <2>1
  <1>7. CASE p # utg /\ amount = 0
    <2>1. u = [t EXCEPT !.straddles = PinnedElsewhere(prior, p)]
      BY <1>1, <1>7 DEF StraddleSet
    <2>2. PinnedElsewhere(prior, p) \in Seq(Straddle)
      BY <1>3, PinnedElsewhereFits
    <2> QED
      BY <1>5, <2>1, <2>2
  <1>8. CASE p # utg /\ amount # 0 /\ \E i \in DOMAIN prior : prior[i].seat = p
    <2>1. PICK s : s = [i \in DOMAIN prior |-> IF prior[i].seat = p THEN posted ELSE prior[i]]
      OBVIOUS
    <2>2. u = [t EXCEPT !.straddles = s]
      BY <1>1, <1>8, <2>1 DEF StraddleSet
    <2>3. s \in Seq(Straddle)
      <3>1. DOMAIN prior = 1 .. Len(prior) /\ Len(prior) \in Nat /\ \A i \in 1 .. Len(prior) : prior[i] \in Straddle
        BY <1>3, LenProperties
      <3>2. s = [i \in 1 .. Len(prior) |-> IF prior[i].seat = p THEN posted ELSE prior[i]]
        BY <2>1, <3>1
      <3> QED
        BY <1>2, <3>1, <3>2
    <2> QED
      BY <1>5, <2>2, <2>3
  <1>9. CASE p # utg /\ amount # 0 /\ ~(\E i \in DOMAIN prior : prior[i].seat = p)
    <2>1. u = [t EXCEPT !.straddles = Append(prior, posted)]
      BY <1>1, <1>9 DEF StraddleSet
    <2>2. Append(prior, posted) \in Seq(Straddle)
      BY <1>2, <1>3
    <2> QED
      BY <1>5, <2>1, <2>2
  <1> QED
    BY <1>6, <1>7, <1>8, <1>9

\* A seat that is edited leaves a table that can be played.
LEMMA EditedFits ==
  ASSUME setup \in TableType, NEW t \in EditedTables
  PROVE  t \in TableType /\ t.active = setup.active /\ t.boards = setup.boards
  <1>1. PICK p \in setup.active \cap EditedSeats :
           \/ \E n \in Stacks : t = [setup EXCEPT !.stack[p] = n]
           \/ t = [setup EXCEPT !.button = p]
           \/ \E amount \in {0, 2 * BigBlind} : t = StraddleSet(setup, p, amount)
    BY DEF EditedTables
  <1>2. p \in Seats /\ p \in setup.active /\ setup.stack \in [Seats -> Nat]
    BY TableFits
  <1>3. ASSUME NEW n \in Stacks, t = [setup EXCEPT !.stack[p] = n]
        PROVE  t \in TableType /\ t.active = setup.active /\ t.boards = setup.boards
    <2>1. n \in Nat /\ n > 0
      BY EditorAssumption
    <2>2. PICK S : S = [setup.stack EXCEPT ![p] = n]
      OBVIOUS
    <2>3. S \in [Seats -> Nat] /\ \A q \in setup.active : S[q] > 0
      BY <1>2, <2>1, <2>2, TableFits
    <2>4. t = [setup EXCEPT !.stack = S]
      BY <1>3, <2>2
    <2> QED
      BY <2>3, <2>4 DEF TableType
  <1>4. ASSUME t = [setup EXCEPT !.button = p]
        PROVE  t \in TableType /\ t.active = setup.active /\ t.boards = setup.boards
    BY <1>2, <1>4 DEF TableType
  <1>5. ASSUME NEW amount \in {0, 2 * BigBlind}, t = StraddleSet(setup, p, amount)
        PROVE  t \in TableType /\ t.active = setup.active /\ t.boards = setup.boards
    <2>1. amount \in Nat
      BY SeatNumbers
    <2> QED
      BY <1>2, <1>5, <2>1, StraddleSetFits
  <1> QED
    BY <1>1, <1>3, <1>4, <1>5

-----------------------------------------------------------------------------
(* The steps of the editor. *)

\* The parts of a frame.
LEMMA FrameParts == \A e, l : Frame(e, l).e = e /\ Frame(e, l).line = l
  BY DEF Frame

\* A blank hand of a table.
LEMMA BlankFits ==
  ASSUME NEW t \in TableType, NEW l \in Seq(Move)
  PROVE  Frame(EmptyEngine(t), l) \in Frames(t)
  <1>1. InPlay(EmptyEngine(t), t)
    BY DealtFits
  <1> QED
    BY <1>1 DEF Frame, Frames, FrameType, InPlay, Whole

\* The recorder opens on a table that is set up.
LEMMA EditorInvInit == EditorInit => EditorInv
  <1> SUFFICES ASSUME EditorInit PROVE EditorInv
    OBVIOUS
  <1>1. setup \in TableType /\ hands \in 1 .. MaxHands /\ edits \in 0 .. MaxEdits /\ CardsOK(cards) /\ saved = {}
    BY TableAssumption, EngineAssumption, EditorAssumption DEF EditorInit, CardsOK, NoCards
  <1>2. PICK s : s = <<>>
    OBVIOUS
  <1>3. s \in Seq(Move) /\ s \in Seq(FrameType) /\ Len(s) <= MaxUndone
    BY <1>2, EditorAssumption
  <1>4. Current \in Frames(setup) /\ history = s /\ redo = s
    BY <1>1, <1>2, <1>3, BlankFits DEF EditorInit, Current
  <1>5. SettingUp(setup, history, Current, redo)
    BY <1>1, <1>3, <1>4 DEF SettingUp
  <1> QED
    BY <1>1, <1>5 DEF EditorInv, EditorRest, EditorInit

\* What most steps leave alone.
LEMMA RestSame ==
  ASSUME EditorRest, UNCHANGED <<hands, edits, cards, saved>>
  PROVE  EditorRest'
  BY DEF EditorRest, DataOK, CardsOK

\* The next frame and stacks, while a hand is played.
LEMMA ActingNext ==
  ASSUME EditorRest', phase' = "action", NEW t, NEW h, NEW f, NEW r, Acting(t, h, f, r),
         setup' = t, history' = h, engine' = f.e, line' = f.line, redo' = r
  PROVE  EditorInv'
  <1>1. f = Frame(f.e, f.line)
    BY FollowerLine DEF Acting, InStory
  <1>2. Current' = f
    BY <1>1 DEF Current
  <1> QED
    BY <1>2 DEF EditorInv

\* And while the table is set up.
LEMMA SettingNext ==
  ASSUME EditorRest', phase' = "setup", NEW t, NEW h, NEW f, NEW r, SettingUp(t, h, f, r),
         setup' = t, history' = h, engine' = f.e, line' = f.line, redo' = r
  PROVE  EditorInv'
  <1>1. f = Frame(f.e, f.line)
    BY LineOf DEF SettingUp
  <1>2. Current' = f
    BY <1>1 DEF Current
  <1> QED
    BY <1>2 DEF EditorInv

\* Nothing undone.
LEMMA NoneUndone == <<>> \in Seq(FrameType) /\ Len(<<>>) <= MaxUndone /\ <<>> \in Seq(Move)
  <1>1. PICK s : s = <<>>
    OBVIOUS
  <1>2. s \in Seq(FrameType) /\ s \in Seq(Move) /\ Len(s) <= MaxUndone
    BY <1>1, EditorAssumption
  <1> QED
    BY <1>1, <1>2

\* The hand is dealt.
LEMMA StartInv == EditorInv /\ Start => EditorInv'
  <1> SUFFICES ASSUME EditorInv, Start PROVE EditorInv'
    OBVIOUS
  <1>1. EditorRest' /\ phase' = "action" /\ setup' = setup /\ setup \in TableType
    BY RestSame DEF EditorInv, Start, Acting, SettingUp
  <1>2. PICK f, s : f = Frame(BuildEngine(setup), <<>>) /\ s = <<>>
    OBVIOUS
  <1>3. Acting(setup, s, f, s)
    BY <1>1, <1>2, StoryBegins, NoneUndone DEF Acting
  <1>4. history' = s /\ redo' = s /\ engine' = f.e /\ line' = f.line
    BY <1>2 DEF Start, Show
  <1> QED
    BY <1>1, <1>3, <1>4, ActingNext

\* An action is recorded, and what was undone is dropped.
LEMMA ActInv == EditorInv /\ Act => EditorInv'
  <1> SUFFICES ASSUME EditorInv, Act PROVE EditorInv'
    OBVIOUS
  <1>1. EditorRest' /\ phase' = "action" /\ setup' = setup
    BY RestSame DEF EditorInv, Act
  <1>2. Acting(setup, history, Current, redo)
    BY DEF EditorInv, Act
  <1>3. PICK a \in Allowed : Show(Stepped(Current, a))
    BY DEF Act
  <1>4. setup \in TableType /\ InStory(setup, history, Current, redo)
    BY <1>2 DEF Acting
  <1>5. InPlay(engine, setup)
    BY <1>4, FollowerLine DEF InStory, Current, Frame
  <1>6. a \in Action
    BY <1>3, <1>4, <1>5, AllowedActs DEF Act
  <1>7. PICK f, h, s : f = Stepped(Current, a) /\ h = Append(history, Current) /\ s = <<>>
    OBVIOUS
  <1>8. InStory(setup, h, f, s)
    BY <1>4, <1>6, <1>7, StoryActs
  <1>9. Acting(setup, h, f, s)
    BY <1>4, <1>7, <1>8, NoneUndone DEF Acting
  <1>10. history' = h /\ redo' = s /\ engine' = f.e /\ line' = f.line
    BY <1>3, <1>7 DEF Act, Show
  <1> QED
    BY <1>1, <1>9, <1>10, ActingNext

\* The frame before is shown, and this one can be redone.
LEMMA UndoInv == EditorInv /\ Undo => EditorInv'
  <1> SUFFICES ASSUME EditorInv, Undo PROVE EditorInv'
    OBVIOUS
  <1>1. EditorRest' /\ phase' = "action" /\ setup' = setup
    BY RestSame DEF EditorInv, Undo
  <1>2. setup \in TableType /\ InStory(setup, history, Current, redo) /\ history # <<>> /\ Len(redo) < MaxUndone
    BY DEF EditorInv, Undo, Acting
  <1>3. PICK f, h, r : f = Last(history) /\ h = Front(history) /\ r = Append(redo, Current)
    OBVIOUS
  <1>4. InStory(setup, h, f, r)
    BY <1>2, <1>3, StoryUndone
  <1>5. Len(r) <= MaxUndone
    <2>1. redo \in Seq(FrameType) /\ Current \in FrameType
      BY <1>2, FollowerLine DEF InStory
    <2>2. Len(r) = Len(redo) + 1 /\ Len(redo) \in Nat
      BY <1>3, <2>1
    <2> QED
      BY <1>2, <2>2, EditorAssumption
  <1>6. Acting(setup, h, f, r)
    BY <1>2, <1>4, <1>5 DEF Acting
  <1>7. history' = h /\ redo' = r /\ engine' = f.e /\ line' = f.line
    BY <1>3 DEF Undo, Show
  <1> QED
    BY <1>1, <1>6, <1>7, ActingNext

\* The frame that was undone last is shown again.
LEMMA RedoInv == EditorInv /\ Redo => EditorInv'
  <1> SUFFICES ASSUME EditorInv, Redo PROVE EditorInv'
    OBVIOUS
  <1>1. EditorRest' /\ phase' = "action" /\ setup' = setup
    BY RestSame DEF EditorInv, Redo
  <1>2. setup \in TableType /\ InStory(setup, history, Current, redo) /\ redo # <<>> /\ Len(redo) <= MaxUndone
    BY DEF EditorInv, Redo, Acting
  <1>3. PICK f, h, r : f = Last(redo) /\ h = Append(history, Current) /\ r = Front(redo)
    OBVIOUS
  <1>4. InStory(setup, h, f, r)
    BY <1>2, <1>3, StoryRedone
  <1>5. Len(r) <= MaxUndone
    <2>1. redo \in Seq(FrameType)
      BY <1>2 DEF InStory
    <2>2. Len(r) = Len(redo) - 1 /\ Len(redo) \in Nat
      BY <1>2, <1>3, <2>1, FrontIs
    <2> QED
      BY <1>2, <2>2, EditorAssumption
  <1>6. Acting(setup, h, f, r)
    BY <1>2, <1>4, <1>5 DEF Acting
  <1>7. history' = h /\ redo' = r /\ engine' = f.e /\ line' = f.line
    BY <1>3 DEF Redo, Show
  <1> QED
    BY <1>1, <1>6, <1>7, ActingNext

\* A frame of the engine, as the stacks hold it.
LEMMA CurrentIs ==
  ASSUME Current \in Frames(setup)
  PROVE  /\ InPlay(engine, setup) /\ engine \in EngineType /\ line \in Seq(Move) /\ Chips(engine, setup)
         /\ engine.players = setup.active /\ engine.boards = setup.boards
         /\ engine.winners \subseteq setup.active /\ engine.winners2 \subseteq setup.active
         /\ (setup.boards = 1 => engine.winners2 = Undecided)
  <1>1. InPlay(engine, setup) /\ line \in Seq(Move)
    BY LineOf, FrameParts DEF Current
  <1> QED
    BY <1>1 DEF InPlay, Whole, Chips

\* In either phase the frames are frames of the table.
LEMMA CurrentFits == EditorInv => setup \in TableType /\ Current \in Frames(setup) /\ redo \in Seq(FrameType) /\ history \in Seq(FrameType)
                                  /\ Len(redo) <= MaxUndone
  BY ActingSetsUp DEF EditorInv, SettingUp

\* A seat is edited: while a hand is played, its line is played again at the new table.
LEMMA EditSeatInv == EditorInv /\ EditSeat => EditorInv'
  <1> SUFFICES ASSUME EditorInv, EditSeat PROVE EditorInv'
    OBVIOUS
  <1>1. setup \in TableType /\ Current \in Frames(setup) /\ redo \in Seq(FrameType) /\ history \in Seq(FrameType)
        /\ Len(redo) <= MaxUndone
    BY CurrentFits
  <1>2. PICK t \in EditedTables \ {setup} :
          /\ setup' = t
          /\ IF phase = "action" THEN Replaced(t)
             ELSE engine' = EmptyEngine(t) /\ UNCHANGED <<line, history, redo>>
    BY DEF EditSeat
  <1>3. t \in TableType /\ t.active = setup.active /\ t.boards = setup.boards
    BY <1>1, EditedFits
  <1>4. EditorRest'
    <2>1. edits \in 0 .. MaxEdits /\ edits < MaxEdits /\ edits' = edits + 1
      BY DEF EditorInv, EditorRest, EditSeat
    <2>2. edits' \in 0 .. MaxEdits
      BY <2>1, EditorAssumption
    <2> QED
      BY <2>2 DEF EditorInv, EditorRest, EditSeat, DataOK, CardsOK
  <1>5. line \in Seq(Move) /\ engine.winners \subseteq t.active /\ engine.winners2 \subseteq t.active
        /\ (t.boards = 1 => engine.winners2 = Undecided)
    BY <1>1, <1>3, CurrentIs
  <1>6. CASE phase = "action"
    <2>1. PICK fs : /\ fs = RebuildFrames(t, line)
                    /\ Show(EndOf(Last(fs), engine.winners, engine.winners2))
                    /\ history' = Front(fs) /\ redo' = <<>>
      BY <1>2, <1>6 DEF Replaced
    <2>2. PICK h, f, s : h = Front(fs) /\ f = EndOf(Last(fs), engine.winners, engine.winners2) /\ s = <<>>
      OBVIOUS
    <2>3. InStory(t, h, f, s)
      BY <1>3, <1>5, <2>1, <2>2, StoryRebuilt
    <2>4. Acting(t, h, f, s)
      BY <1>3, <2>2, <2>3, NoneUndone DEF Acting
    <2>5. phase' = "action" /\ setup' = t /\ history' = h /\ redo' = s /\ engine' = f.e /\ line' = f.line
      BY <1>2, <1>6, <2>1, <2>2 DEF EditSeat, Show
    <2> QED
      BY <1>4, <2>4, <2>5, ActingNext
  <1>7. CASE phase # "action"
    <2>1. PICK f : f = Frame(EmptyEngine(t), line)
      OBVIOUS
    <2>2. SettingUp(t, history, f, redo)
      BY <1>1, <1>3, <1>5, <2>1, BlankFits DEF SettingUp
    <2>3. /\ phase' = "setup" /\ setup' = t /\ history' = history /\ redo' = redo
          /\ engine' = f.e /\ line' = f.line
      BY <1>2, <1>7, <2>1, FrameParts DEF EditSeat, EditorInv
    <2> QED
      BY <1>4, <2>2, <2>3, SettingNext
  <1> QED
    BY <1>6, <1>7

\* The winners are set on the frame that is shown.
LEMMA DecideInv == EditorInv /\ Decide => EditorInv'
  <1> SUFFICES ASSUME EditorInv, Decide PROVE EditorInv'
    OBVIOUS
  <1>1. setup \in TableType /\ Current \in Frames(setup)
    BY CurrentFits
  <1>2. /\ InPlay(engine, setup) /\ engine \in EngineType /\ engine.players = setup.active
        /\ engine.boards = setup.boards /\ engine.boards \in 1 .. 2
    BY <1>1, CurrentIs DEF EngineType
  <1>3. PICK c \in Shown, W \in (SUBSET Live(engine)) \ {{}}, W2 \in (SUBSET Live(engine)) \ {{}} :
          /\ engine' = IF engine.boards = 2
                       THEN SetWinners(SetWinners(engine, W, 1), W2, 2)
                       ELSE SetWinners(engine, W, 1)
          /\ cards' = c
    BY DEF Decide
  <1>4. PICK w2 : w2 = IF engine.boards = 2 THEN W2 ELSE Undecided
    OBVIOUS
  <1>5. /\ W # Undecided /\ W \subseteq engine.players /\ w2 \subseteq engine.players
        /\ W2 # Undecided /\ (engine.boards = 1 => w2 = Undecided)
    <2>1. Live(engine) \subseteq engine.players
      BY <1>2, LiveIn
    <2>2. W \subseteq Live(engine) /\ W2 \subseteq Live(engine) /\ W # Undecided /\ W2 # Undecided
      BY <1>3 DEF Undecided
    <2>3. w2 \subseteq engine.players
      <3>1. w2 = W2 \/ w2 = {}
        BY <1>4 DEF Undecided
      <3> QED
        BY <2>1, <2>2, <3>1
    <2>4. engine.boards = 1 => w2 = Undecided
      BY <1>4
    <2> QED
      BY <2>1, <2>2, <2>3, <2>4
  <1>6. engine' = WonBy(engine, W, w2)
    <2>1. CASE engine.boards = 2
      BY <1>3, <1>4, <1>5, <2>1 DEF WonBy
    <2>2. CASE engine.boards # 2
      BY <1>3, <1>4, <1>5, <2>2 DEF WonBy
    <2> QED
      BY <2>1, <2>2
  <1>7. InPlay(engine', setup) /\ Bare(engine') = Bare(engine)
    BY <1>2, <1>5, <1>6, WonWhole
  <1>8. EditorRest'
    <2>1. CardsOK(cards')
      BY <1>3, EditorAssumption DEF Shown, CardsOK
    <2> QED
      BY <2>1 DEF EditorInv, EditorRest, Decide, DataOK
  <1>9. PICK e, f : e = engine' /\ f = Frame(e, line)
    OBVIOUS
  <1>10. InStory(setup, history, Current, redo) /\ Len(redo) <= MaxUndone /\ phase = "action"
    BY DEF EditorInv, Decide, Acting
  <1>11. InStory(setup, history, f, redo)
    BY <1>7, <1>9, <1>10, StoryDecided, FrameParts DEF Current
  <1>12. Acting(setup, history, f, redo)
    BY <1>1, <1>10, <1>11 DEF Acting
  <1>13. /\ phase' = "action" /\ setup' = setup /\ history' = history /\ redo' = redo
         /\ engine' = f.e /\ line' = f.line
    BY <1>9, <1>10, FrameParts DEF Decide
  <1> QED
    BY <1>8, <1>12, <1>13, ActingNext

\* Cards are edited after the hand was decided.
LEMMA EditCardsInv == EditorInv /\ EditCards => EditorInv'
  <1> SUFFICES ASSUME EditorInv, EditCards PROVE EditorInv'
    OBVIOUS
  <1>1. EditorRest'
    <2>1. edits \in 0 .. MaxEdits /\ edits < MaxEdits /\ edits' = edits + 1
      BY DEF EditorInv, EditorRest, EditCards
    <2>2. edits' \in 0 .. MaxEdits
      BY <2>1, EditorAssumption
    <2>3. CardsOK(cards')
      BY EditorAssumption DEF EditCards, Shown, CardsOK
    <2> QED
      BY <2>2, <2>3 DEF EditorInv, EditorRest, EditCards, DataOK
  <1>2. phase = "action" /\ Acting(setup, history, Current, redo)
    BY DEF EditorInv, EditCards
  <1>3. /\ phase' = "action" /\ setup' = setup /\ history' = history /\ redo' = redo
        /\ engine' = Current.e /\ line' = Current.line
    BY <1>2, FrameParts DEF EditCards, Current
  <1> QED
    BY <1>1, <1>2, <1>3, ActingNext

\* The table is set up again.
LEMMA BackToSetupInv == EditorInv /\ BackToSetup => EditorInv'
  <1> SUFFICES ASSUME EditorInv, BackToSetup PROVE EditorInv'
    OBVIOUS
  <1>1. EditorRest' /\ phase' = "setup" /\ setup' = setup
    BY RestSame DEF EditorInv, BackToSetup
  <1>2. setup \in TableType /\ history \in Seq(FrameType)
    BY CurrentFits
  <1>3. PICK f, s : f = Frame(EmptyEngine(setup), <<>>) /\ s = <<>>
    OBVIOUS
  <1>4. SettingUp(setup, history, f, s)
    BY <1>2, <1>3, BlankFits, NoneUndone DEF SettingUp
  <1>5. history' = history /\ redo' = s /\ engine' = f.e /\ line' = f.line
    BY <1>3, FrameParts DEF BackToSetup
  <1> QED
    BY <1>1, <1>4, <1>5, SettingNext

\* A saved hand is opened.
LEMMA OpenAtInv ==
  ASSUME NEW d, DataOK(d), OpenAt(d), EditorRest', phase' = "action"
  PROVE  EditorInv'
  <1>1. PICK t, h, f : t = d.setup /\ h = Front(RebuildFrames(t, d.line)) /\ f = Resolution(d)
    OBVIOUS
  <1>2. OpenBefore(h, f) /\ setup' = t /\ t \in TableType
    BY <1>1 DEF OpenAt, DataOK
  <1>3. /\ h = <<>> => InStory(t, <<>>, f, <<>>)
        /\ h # <<>> => InStory(t, Front(h), Last(h), <<f>>)
    BY <1>1, StoryOpened
  <1>4. CASE h = <<>>
    <2>1. PICK s : s = <<>>
      OBVIOUS
    <2>2. Acting(t, s, f, s)
      BY <1>2, <1>3, <1>4, <2>1, NoneUndone DEF Acting
    <2>3. history' = s /\ redo' = s /\ engine' = f.e /\ line' = f.line
      BY <1>2, <1>4, <2>1 DEF OpenBefore, Show
    <2> QED
      BY <1>2, <2>2, <2>3, ActingNext
  <1>5. CASE h # <<>>
    <2>1. PICK g, k, r : g = Last(h) /\ k = Front(h) /\ r = <<f>>
      OBVIOUS
    <2>2. Len(r) <= MaxUndone
      <3>1. Len(r) = 1
        BY <2>1
      <3> QED
        BY <3>1, EditorAssumption
    <2>3. Acting(t, k, g, r)
      BY <1>2, <1>3, <1>5, <2>1, <2>2 DEF Acting
    <2>4. history' = k /\ redo' = r /\ engine' = g.e /\ line' = g.line
      BY <1>2, <1>5, <2>1 DEF OpenBefore, Show
    <2> QED
      BY <1>2, <2>3, <2>4, ActingNext
  <1> QED
    BY <1>4, <1>5

\* The saved hand is opened where its payload says.
LEMMA EditSavedInv == EditorInv /\ EditSaved => EditorInv'
  <1> SUFFICES ASSUME EditorInv, EditSaved PROVE EditorInv'
    OBVIOUS
  <1>1. setup \in TableType /\ Current \in Frames(setup) /\ CardsOK(cards)
    BY CurrentFits DEF EditorInv, EditorRest
  <1>2. PICK d : d = Payload
    OBVIOUS
  <1>3. DataOK(d)
    BY <1>1, <1>2, CurrentIs DEF DataOK, Payload
  <1>4. OpenAt(d) /\ phase' = "action" /\ saved' = {d}
    BY <1>2 DEF EditSaved
  <1>5. EditorRest'
    <2>1. saved' = {d} /\ DataOK(d)
      BY <1>3, <1>4
    <2>2. hands' = hands /\ edits' = edits /\ cards' = cards
      BY DEF EditSaved
    <2> QED
      BY <2>1, <2>2 DEF EditorInv, EditorRest, CardsOK
  <1> QED
    BY <1>3, <1>4, <1>5, OpenAtInv

\* The original is opened again.
LEMMA RestoreInv == EditorInv /\ Restore => EditorInv'
  <1> SUFFICES ASSUME EditorInv, Restore PROVE EditorInv'
    OBVIOUS
  <1>1. PICK d \in saved : OpenAt(d) /\ cards' = d.cards
    BY DEF Restore
  <1>2. DataOK(d) /\ saved' = {d} /\ phase' = "action"
    BY <1>1 DEF EditorInv, EditorRest, Restore
  <1>3. EditorRest'
    <2>1. hands' = hands /\ edits' = edits /\ CardsOK(cards')
      BY <1>1, <1>2 DEF Restore, DataOK
    <2> QED
      BY <1>2, <2>1 DEF EditorInv, EditorRest
  <1> QED
    BY <1>1, <1>2, <1>3, OpenAtInv

\* The next hand is set up from the results of this one.
LEMMA AnotherInv == EditorInv /\ Another => EditorInv'
  <1> SUFFICES ASSUME EditorInv, Another PROVE EditorInv'
    OBVIOUS
  <1>1. setup \in TableType /\ Current \in Frames(setup) /\ CardsOK(cards)
    BY CurrentFits DEF EditorInv, EditorRest
  <1>2. engine \in EngineType /\ Chips(engine, setup)
    BY <1>1, CurrentIs
  <1>3. PICK t : t = NextTable(setup, engine, cards)
    OBVIOUS
  <1>4. t \in TableType
    BY <1>1, <1>2, <1>3, NextTableFits DEF Another
  <1>5. EditorRest'
    <2>1. /\ hands \in 1 .. MaxHands /\ hands < MaxHands /\ hands' = hands + 1
          /\ edits \in 0 .. MaxEdits /\ edits < MaxEdits /\ edits' = edits + 1
      BY DEF EditorInv, EditorRest, Another
    <2>2. hands' \in 1 .. MaxHands /\ edits' \in 0 .. MaxEdits
      BY <2>1, EditorAssumption, EngineAssumption
    <2>3. CardsOK(cards') /\ saved' = saved
      BY DEF Another, CardsOK, NoCards
    <2> QED
      BY <2>2, <2>3 DEF EditorInv, EditorRest, DataOK
  <1>6. PICK f, s : f = Frame(EmptyEngine(t), <<>>) /\ s = <<>>
    OBVIOUS
  <1>7. SettingUp(t, s, f, s)
    BY <1>4, <1>6, BlankFits, NoneUndone DEF SettingUp
  <1>8. phase' = "setup" /\ setup' = t /\ history' = s /\ redo' = s /\ engine' = f.e /\ line' = f.line
    BY <1>3, <1>6, FrameParts DEF Another
  <1> QED
    BY <1>5, <1>7, <1>8, SettingNext

\* Every step of the editor keeps the invariant.
LEMMA EditorInvStep == EditorInv /\ [EditorNext]_editorVars => EditorInv'
  <1>1. EditorInv /\ UNCHANGED editorVars => EditorInv'
    BY DEF editorVars, vars, EditorInv, EditorRest, Acting, SettingUp, Current, Frame, DataOK, CardsOK
  <1> QED
    BY <1>1, StartInv, ActInv, UndoInv, RedoInv, EditSeatInv, DecideInv, EditCardsInv,
       BackToSetupInv, EditSavedInv, RestoreInv, AnotherInv DEF EditorNext

\* The invariant holds of the editor (CreateHandHistory.tsx, replay.ts).
LEMMA EditorInvHolds == EditorSpec => []EditorInv
  BY EditorInvInit, EditorInvStep, PTL DEF EditorSpec

\* Its types.
LEMMA EditorInvTyped == EditorInv => EditorTypeOK
  <1> SUFFICES ASSUME EditorInv PROVE EditorTypeOK
    OBVIOUS
  <1>1. setup \in TableType /\ Current \in Frames(setup) /\ redo \in Seq(FrameType) /\ history \in Seq(FrameType)
        /\ Len(redo) <= MaxUndone
    BY CurrentFits
  <1>2. engine \in EngineType /\ Chips(engine, setup) /\ line \in Seq(Move)
    BY <1>1, CurrentIs
  <1>3. hands \in 1 .. MaxHands /\ edits <= MaxEdits /\ phase \in {"setup", "action"}
    BY EditorAssumption DEF EditorInv, EditorRest
  <1>4. TypeOK
    <2>1. engine.pot \in Nat
      <3>1. IsFiniteSet(engine.players) /\ engine.players \subseteq Seats
        BY <1>2, LiveIn, SeatsFinite
      <3>2. \A p \in engine.players : engine.total[p] \in Nat
        BY <1>2, <3>1 DEF EngineType
      <3>3. Totalled(engine.total, engine.players) \in Nat
        BY <3>1, <3>2, TotalNat
      <3> QED
        BY <1>2, <3>3 DEF Chips, EngineType
    <2>2. engine.winners \subseteq engine.players /\ engine.winners2 \subseteq engine.players
      BY <1>2 DEF Chips
    <2> QED
      BY <1>2, <1>3, <2>1, <2>2 DEF TypeOK, EngineType
  <1>5. Range(line) \subseteq [kind : {"fold", "check", "call", "bet", "raise"}, to : Nat]
    <2>1. Move \subseteq [kind : {"fold", "check", "call", "bet", "raise"}, to : Nat]
      BY DEF Move, Kinds
    <2>2. Range(line) \subseteq Move
      BY <1>2, LenProperties DEF Range
    <2> QED
      BY <2>1, <2>2
  <1>6. ASSUME NEW f \in Range(history) \cup Range(redo) \cup {Current}
        PROVE  f.e.stack \in [Seats -> Nat] /\ f.e.committed \in [Seats -> Nat]
    <2>1. Range(history) \subseteq FrameType /\ Range(redo) \subseteq FrameType
      BY <1>1, LenProperties DEF Range
    <2>2. Current \in FrameType
      BY <1>1, LineOf
    <2>3. f \in FrameType
      BY <2>1, <2>2
    <2> QED
      BY <2>3 DEF FrameType, EngineType
  <1>7. Cardinality(saved) <= 1
    <2>1. saved = {} \/ \E d : saved = {d}
      BY DEF EditorInv, EditorRest
    <2>2. Cardinality({}) = 0 /\ \A d : Cardinality({d}) = 1
      BY FS_EmptySet, FS_Singleton
    <2> QED
      BY <2>1, <2>2
  <1> QED
    BY <1>1, <1>3, <1>4, <1>5, <1>6, <1>7 DEF EditorTypeOK

\* A story is told by its table and followed by the replayer.
LEMMA EditorInvFaithful == EditorInv => FramesFaithful
  <1> SUFFICES ASSUME EditorInv PROVE FramesFaithful
    OBVIOUS
  <1>1. ASSUME phase = "action" PROVE setup \in TableType /\ InStory(setup, history, Current, redo)
    BY <1>1 DEF EditorInv, Acting
  <1>2. FramesFollow
    <2> SUFFICES ASSUME phase = "action"
                 PROVE  LET all == Append(history, Current) \o Reverse(redo) IN
                        /\ \A i \in DOMAIN all : Follows(all[i])
                        /\ \A i \in 1 .. Len(all) - 1 : IsPrefix(all[i].line, all[i + 1].line)
      BY DEF FramesFollow
    <2>1. PICK all : all = Append(history, Current) \o Reverse(redo)
      OBVIOUS
    <2>2. /\ \A i \in DOMAIN all : Follower(setup, all[i])
          /\ \A i \in 1 .. Len(all) - 1 : IsPrefix(all[i].line, all[i + 1].line)
      BY <1>1, <2>1, StoryFollows
    <2>3. \A i \in DOMAIN all : Follows(all[i])
      BY <2>2 DEF Follower, Follows
    <2> QED
      BY <2>1, <2>2, <2>3
  <1>3. ReplayFaithful
    <2> SUFFICES ASSUME phase = "action", Resolved(engine)
                 PROVE  \A d \in {Payload} : \A shown \in {ReconstructFrames(d)} :
                          /\ Resolution(d) = Current
                          /\ Last(shown) = engine
                          /\ \A i \in DOMAIN history : \E j \in DOMAIN shown : Bare(shown[j]) = Bare(history[i].e)
      BY DEF ReplayFaithful
    <2>1. PICK d : d = Payload
      OBVIOUS
    <2>2. /\ d.setup = setup /\ d.line = Current.line /\ Current.e = engine
          /\ d.winners = Current.e.winners /\ d.winners2 = Current.e.winners2
      BY <2>1 DEF Payload, Current, Frame
    <2>3. /\ Resolution(d) = Current
          /\ Last(ReconstructFrames(d)) = Current.e
          /\ \A i \in DOMAIN history : \E j \in DOMAIN ReconstructFrames(d) :
               Bare(ReconstructFrames(d)[j]) = Bare(history[i].e)
      BY <1>1, <2>2, StoryReplays
    <2> QED
      BY <2>1, <2>2, <2>3
  <1> QED
    BY <1>2, <1>3 DEF FramesFaithful

\* The types of the editor, for any number of seats and hands, any stacks, any number of
\* seat edits and any number of frames undone (CreateHandHistory.tsx).
THEOREM EditorTyped == EditorSpec => []EditorTypeOK
  BY EditorInvHolds, EditorInvTyped, PTL

\* Whatever is edited, undone, redone, saved and opened again, each frame is what the table as
\* it is now makes of its own actions, each goes on from the one before it, and the replayer
\* ends where the recorder is and shows every frame on the way (CreateHandHistory.tsx, replay.ts).
THEOREM FramesAreFaithful == EditorSpec => []FramesFaithful
  BY EditorInvHolds, EditorInvFaithful, PTL

-----------------------------------------------------------------------------
(* The pages together.                                                          *)

\* A step of the pages is a step of one, or of none.
LEMMA HandPagesStep ==
  [HandPagesNext]_handPagesVars => /\ [SaveNext]_saveVars /\ [ListNext]_listVars
                                   /\ [ReplayNext]_replayVars /\ [EquityNext]_equityVars
                                   /\ [EditorNext]_editorVars
  <1> SUFFICES ASSUME [HandPagesNext]_handPagesVars
               PROVE  /\ [SaveNext]_saveVars /\ [ListNext]_listVars
                      /\ [ReplayNext]_replayVars /\ [EquityNext]_equityVars
                      /\ [EditorNext]_editorVars
    OBVIOUS
  <1>1. CASE UNCHANGED handPagesVars
    BY <1>1 DEF handPagesVars, saveVars, listVars, replayVars, equityVars, editorVars
  <1>2. CASE HandPagesNext
    BY <1>2 DEF HandPagesNext, OthersStay, HandPagesStay, Stays, Open
  <1> QED
    BY <1>1, <1>2

\* The pages together implement each of them.
THEOREM HandPagesImplementPages == HandPagesSpec => SaveSpec /\ ListSpec /\ ReplaySpec /\ EquitySpec /\ EditorSpec
  <1>1. HandPagesInit => SaveInit /\ ListInit /\ ReplayInit /\ EquityInit /\ EditorInit
    BY DEF HandPagesInit
  <1> QED
    BY <1>1, HandPagesStep, PTL DEF HandPagesSpec, SaveSpec, ListSpec, ReplaySpec, EquitySpec, EditorSpec

\* The types of the four pages, for any number of hands, texts, cards, visits and faults
\* (CreateHandHistory.tsx, HandHistoryTool.tsx, HandReplay.tsx, useShowdownEquity.ts).
THEOREM PagesOfHandsTyped == HandPagesSpec => [](SaveTypeOK /\ ListTypeOK /\ ReplayTypeOK /\ EquityTypeOK)
  BY HandPagesImplementPages, SaveInvHolds, SaveInvImplies, ListInvHolds, ListInvImplies,
     ReplayInvHolds, ReplayInvImplies, EquityInvHolds, EquityInvImplies, PTL

\* A recorded hand is stored once, but for failed attempts and set-ups, and then left; a
\* hand of the device is taken over to the account once and never lost
\* (CreateHandHistory.tsx, HandHistoryTool.tsx).
THEOREM HandsAreKept == HandPagesSpec => []HandsKept
  <1>1. SaveTypeOK /\ StoredOnce /\ LeavesWhenSaved /\ ListTypeOK /\ NoHandLost /\ MigratedOnce => HandsKept
    BY DEF HandsKept
  <1> QED
    BY <1>1, HandPagesImplementPages, SaveInvHolds, SaveInvImplies, ListInvHolds, ListInvImplies, PTL

\* A replay has the frame it shows, a cached text is not lost to a failed request, only to a
\* shorter text that comes in its place and breaks the page, and the equities of a first
\* showdown are its own, converged, of the first board (HandReplay.tsx, useShowdownEquity.ts).
THEOREM HandViewsAreTheirOwn == HandPagesSpec => []HandViewsAreOwn
  <1>1. FrameExists /\ CachedReplayStays /\ FirstIsOwn => HandViewsAreOwn
    BY DEF HandViewsAreOwn
  <1> QED
    BY <1>1, HandPagesImplementPages, ReplayInvHolds, ReplayInvImplies, EquityInvHolds, EquityInvImplies, PTL

\* The types of the pages together, the recorder's own included
\* (CreateHandHistory.tsx, HandHistoryTool.tsx, HandReplay.tsx, useShowdownEquity.ts).
THEOREM HandPagesTyped == HandPagesSpec => []HandPagesTypeOK
  <1>1. EditorTypeOK /\ SaveTypeOK /\ ListTypeOK /\ ReplayTypeOK /\ EquityTypeOK => HandPagesTypeOK
    BY DEF HandPagesTypeOK
  <1> QED
    BY <1>1, HandPagesImplementPages, PagesOfHandsTyped, EditorTyped, PTL

\* Whatever else the pages do, no frame of the recorder is one the hand did not go through
\* (CreateHandHistory.tsx, replay.ts).
THEOREM RecorderIsFaithful == HandPagesSpec => []FramesFaithful
  BY HandPagesImplementPages, FramesAreFaithful, PTL
=============================================================================
