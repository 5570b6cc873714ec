------------------------------ MODULE HandList ------------------------------
(***************************************************************************)
(* The list of saved hands (HandHistoryTool.tsx): its fetch, its deletions *)
(* with their rollback, the migration of the hands that were saved on the  *)
(* device while signed out, and the text cache it keeps for the replays    *)
(* (handTextCache.ts, as far as who is in it).                             *)
(***************************************************************************)
EXTENDS Integers, FiniteSets

CONSTANTS SavedHands,    \* the hands, on the server or on the device
          DeviceHands,   \* which of them the device may hold to begin with
          ListMaxFaults, \* bound: requests that fail or whose answer is lost
          ListMaxDeletes,\* bound: hands the user deletes
          ListMaxVisits  \* bound: mounts of the page and sign-outs, together

ASSUME ListAssumption == /\ DeviceHands \subseteq SUBSET SavedHands
                         /\ ListMaxFaults \in Nat /\ ListMaxDeletes \in Nat /\ ListMaxVisits \in Nat \ {0}

VARIABLES
  server,   \* the hands with a row
  copies,   \* how often a hand of the device was stored
  device,   \* the hands in the device's own store
  removed,  \* hands the user deleted, and the server or the device with them
  cached,   \* the hands whose text is in the shared cache
  account,  \* signed in
  list,     \* the page: mounted, its rows, its spinner and its fetch
  sync,     \* the migration started by each mount of the page
  removal,  \* the deletion under way, per hand
  listSpent \* faults, deletions, sign-outs, mounts, and migrations left half-way

listVars == <<server, copies, device, removed, cached, account, list, sync, removal, listSpent>>

NoSync == [on |-> FALSE, live |-> FALSE, todo |-> {}, failed |-> {}]
NoRemoval == [stage |-> "none", visit |-> 0, prev |-> {}]
NoFetch == [stage |-> "none", rows |-> {}, blocks |-> FALSE]
ClosedList == [on |-> FALSE, items |-> {}, loading |-> FALSE, fetch |-> NoFetch]

ListInit == /\ device \in DeviceHands
            /\ server = SavedHands \ device
            /\ copies = [h \in SavedHands |-> 0]
            /\ removed = {} /\ cached = {}
            /\ account \in BOOLEAN
            /\ list = ClosedList
            /\ sync = [v \in 1 .. ListMaxVisits |-> NoSync]
            /\ removal = [h \in SavedHands |-> NoRemoval]
            /\ listSpent = [faults |-> 0, deletes |-> 0, signOuts |-> 0, visits |-> 0, left |-> 0]

Visit == listSpent.visits
Fault == [listSpent EXCEPT !.faults = @ + 1]
MayFail == listSpent.faults < ListMaxFaults
MayMove == listSpent.visits + listSpent.signOuts < ListMaxVisits

-----------------------------------------------------------------------------
(* The page and its fetch. *)

\* The fetch effect: it blocks the page only if there is nothing to show yet.
Fetching(l) == [l EXCEPT !.loading = @ \/ l.items = {},
                         !.fetch = [stage |-> "sent", rows |-> {}, blocks |-> l.items = {}]]

\* migratingRef: one migration at a time for each mount.
MayMigrate(s) == device # {} /\ ~s.on
Migrated(s) == IF MayMigrate(s)
                 THEN [on |-> TRUE, live |-> TRUE, todo |-> device, failed |-> {}] ELSE s

Mount == /\ ~list.on /\ MayMove
         /\ list' = [(IF account THEN Fetching(ClosedList) ELSE ClosedList) EXCEPT !.on = TRUE]
         /\ sync' = IF account THEN [sync EXCEPT ![Visit + 1] = Migrated(@)] ELSE sync
         /\ listSpent' = [listSpent EXCEPT !.visits = @ + 1]
         /\ UNCHANGED <<server, copies, device, removed, cached, account, removal>>

\* The cleanups of the effects: what is under way goes on and is not looked at.
Cancelled == [v \in DOMAIN sync |-> [sync[v] EXCEPT !.live = FALSE]]
LeftHalfway == IF \E v \in DOMAIN sync : sync[v].live THEN 1 ELSE 0

Unmount == /\ list.on
           /\ list' = ClosedList
           /\ sync' = Cancelled
           /\ listSpent' = [listSpent EXCEPT !.left = @ + LeftHalfway]
           /\ UNCHANGED <<server, copies, device, removed, cached, account, removal>>

SignOut == /\ account /\ MayMove
           /\ account' = FALSE
           /\ list' = [list EXCEPT !.items = {}, !.fetch = NoFetch]
           /\ sync' = Cancelled
           /\ listSpent' = [listSpent EXCEPT !.signOuts = @ + 1, !.left = @ + LeftHalfway]
           /\ UNCHANGED <<server, copies, device, removed, cached, removal>>

SignIn == /\ ~account
          /\ account' = TRUE
          /\ list' = IF list.on THEN Fetching(list) ELSE list
          /\ sync' = IF list.on THEN [sync EXCEPT ![Visit] = Migrated(@)] ELSE sync
          /\ UNCHANGED <<server, copies, device, removed, cached, removal, listSpent>>

ListRead == /\ list.fetch.stage = "sent"
            /\ list' = [list EXCEPT !.fetch.stage = "read", !.fetch.rows = server]
            /\ UNCHANGED <<server, copies, device, removed, cached, account, sync, removal, listSpent>>

\* Mutation: the spinner is left to the rows that come.
EndedBlocked(l) == [l EXCEPT !.fetch = NoFetch]
\* The end of the run: its own spinner goes.
Ended(l) == [l EXCEPT !.fetch = NoFetch, !.loading = @ /\ ~l.fetch.blocks]

\* The rows on the screen go to the cache: the seeding effect.
ListArrives == /\ list.fetch.stage = "read"
               /\ list' = [Ended(list) EXCEPT !.items = list.fetch.rows]
               /\ cached' = cached \cup list.fetch.rows
               /\ UNCHANGED <<server, copies, device, removed, account, sync, removal, listSpent>>

ListFails == /\ list.fetch.stage # "none" /\ MayFail
             /\ list' = Ended(list)
             /\ listSpent' = Fault
             /\ UNCHANGED <<server, copies, device, removed, cached, account, sync, removal>>

-----------------------------------------------------------------------------
(* The migration: one POST per hand, then the store keeps what failed. *)

\* Mutation: a hand whose upload failed is not remembered.
FailedNone(s, h) == [s EXCEPT !.todo = @ \ {h}]
FailedHand(s, h) == [s EXCEPT !.todo = @ \ {h}, !.failed = @ \cup {h}]

Stored(h) == /\ server' = server \cup {h}
             /\ copies' = [copies EXCEPT ![h] = @ + 1]

\* The order of the hands makes no difference to what follows.
MigratePost(v) ==
    \E h \in sync[v].todo :
       /\ \/ /\ Stored(h)
             /\ sync' = [sync EXCEPT ![v].todo = @ \ {h}]
             /\ UNCHANGED listSpent
          \/ /\ MayFail /\ listSpent' = Fault
             /\ sync' = [sync EXCEPT ![v] = FailedHand(@, h)]
             /\ \/ UNCHANGED <<server, copies>>
                \/ Stored(h)
       /\ UNCHANGED <<device, removed, cached, account, list, removal>>

\* Mutation: the store is left as it was.
LeftAll(s) == device
\* What stays on the device: a migration that was left behind does not touch it.
Left(s) == IF s.live THEN s.failed ELSE device

MigrateEnds(v) ==
    /\ sync[v].on /\ sync[v].todo = {}
    /\ device' = Left(sync[v])
    /\ list' = IF sync[v].live THEN Fetching(list) ELSE list
    /\ sync' = [sync EXCEPT ![v] = NoSync]
    /\ UNCHANGED <<server, copies, removed, cached, account, removal, listSpent>>

-----------------------------------------------------------------------------
(* Deleting: the row goes at once, and comes back if the server refuses. *)

Delete(h) ==
    /\ list.on /\ ~list.loading /\ listSpent.deletes < ListMaxDeletes
    /\ listSpent' = [listSpent EXCEPT !.deletes = @ + 1]
    /\ IF account
         THEN /\ h \in list.items /\ removal[h].stage = "none"
              /\ list' = [list EXCEPT !.items = @ \ {h}]
              /\ cached' = cached \ {h}
              /\ removal' = [removal EXCEPT ![h] = [stage |-> "sent", visit |-> Visit, prev |-> list.items]]
              /\ UNCHANGED <<device, removed>>
         ELSE /\ h \in device
              /\ device' = device \ {h} /\ removed' = removed \cup {h}
              /\ UNCHANGED <<list, cached, removal>>
    /\ UNCHANGED <<server, copies, account, sync>>

DeleteRow(h) == /\ removal[h].stage = "sent"
                /\ server' = server \ {h} /\ removed' = removed \cup {h}
                /\ removal' = [removal EXCEPT ![h].stage = "done"]
                /\ UNCHANGED <<copies, device, cached, account, list, sync, listSpent>>

Deleted(h) == /\ removal[h].stage = "done"
              /\ removal' = [removal EXCEPT ![h] = NoRemoval]
              /\ UNCHANGED <<server, copies, device, removed, cached, account, list, sync, listSpent>>

\* Mutation: the row comes back to a list that has gone.
RolledBackAlways(h) == removal[h].prev
\* The rollback: the rows as they were when the user pressed delete.
RolledBack(h) == IF list.on /\ removal[h].visit = Visit THEN removal[h].prev ELSE list.items

DeleteFails(h) ==
    /\ removal[h].stage # "none" /\ MayFail
    /\ listSpent' = Fault
    /\ list' = [list EXCEPT !.items = RolledBack(h)]
    /\ cached' = IF account THEN cached \cup RolledBack(h) ELSE cached
    /\ removal' = [removal EXCEPT ![h] = NoRemoval]
    /\ UNCHANGED <<server, copies, device, removed, account, sync>>

-----------------------------------------------------------------------------
ListNext == \/ Mount \/ Unmount \/ SignOut \/ SignIn
            \/ ListRead \/ ListArrives \/ ListFails
            \/ \E v \in 1 .. ListMaxVisits : MigratePost(v) \/ MigrateEnds(v)
            \/ \E h \in SavedHands : Delete(h) \/ DeleteRow(h) \/ Deleted(h) \/ DeleteFails(h)

ListSpec == ListInit /\ [][ListNext]_listVars

-----------------------------------------------------------------------------
(* Properties. *)

SyncType == [on : BOOLEAN, live : BOOLEAN, todo : SUBSET SavedHands, failed : SUBSET SavedHands]
ListTypeOK == /\ server \subseteq SavedHands /\ device \subseteq SavedHands
              /\ removed \subseteq SavedHands /\ cached \subseteq SavedHands
              /\ (~list.on => list = ClosedList)
              /\ list.items \subseteq SavedHands /\ list.fetch.rows \subseteq SavedHands
              /\ sync \in [1 .. ListMaxVisits -> SyncType]
              /\ copies \in [SavedHands -> 0 .. ListMaxVisits + ListMaxFaults]

\* A hand that was saved on the device is never lost: it is still there, it has
\* been stored, or the user deleted it, whatever fails or is left half-way while
\* it is taken over to the account.
NoHandLost == \A h \in SavedHands : h \in device \cup removed \cup server

\* A hand of the device is stored once, unless an answer was lost or the page, or
\* the account, was left with the migration under way: those upload it again.
MigratedOnce == listSpent.faults = 0 /\ listSpent.left = 0 => \A h \in SavedHands : copies[h] <= 1

\* Whoever stays signed in on the page gets to see the list, or an error: a fetch
\* that takes another's place takes its spinner over.  Not so after a sign-out and
\* a rollback: rows that come back to a page that waits unblock the next fetch,
\* and nobody takes the spinner away.
ListOwed == list.on /\ account
ListMet == \/ ~list.on \/ ~account \/ ~list.loading
           \/ listSpent.faults > 0 /\ listSpent.signOuts > 0
=============================================================================
