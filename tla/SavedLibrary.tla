---------------------------- MODULE SavedLibrary ----------------------------
(***************************************************************************)
(* The saved trees of a user (useSavedTrees.ts, and useSavedRanges.ts,     *)
(* which is the same but for the payload): the cache every panel shares,   *)
(* the fetch that fills it, the panel that saves and deletes through it    *)
(* (TreeLibrary.tsx), and the rows behind the API                          *)
(* (SavedTreesController.cs).                                              *)
(***************************************************************************)
EXTENDS Integers, FiniteSets

CONSTANTS MaxFolder,     \* folders are 1 .. MaxFolder, in the order of their names
          SavedTrees,    \* trees that can be saved
          StoredTrees,        \* what the first account may have stored to begin with
          MaxAuth,       \* bound: sign-ins and sign-outs
          MaxRequests,   \* bound: changes made through the panel
          LibraryMaxFaults \* bound: requests that fail

FolderIds == 1 .. MaxFolder
Top == 0          \* the library's root, and the parent of its folders
Absent == -1
Nobody == 0
Accounts == {1, 2}

\* up: the parent of a folder; at: the folder of a tree.
Library == [up : [FolderIds -> FolderIds \cup {Top, Absent}], at : [SavedTrees -> FolderIds \cup {Top, Absent}]]

ASSUME LibraryAssumption == /\ MaxFolder \in Nat /\ MaxAuth \in Nat /\ MaxRequests \in Nat
                            /\ LibraryMaxFaults \in Nat /\ StoredTrees \subseteq Library

NoLibrary == [up |-> [f \in FolderIds |-> Absent], at |-> [t \in SavedTrees |-> Absent]]

VARIABLES
  libraryRows,     \* the library on the server, per account
  visitor,  \* the Firebase user of the tab
  hook,     \* the module's signedIn, loaded, loading and error
  library,  \* the shared cache, and whose it is
  fetch,    \* the request that fills it
  panel,    \* open, and the folder it saves into
  change,   \* the panel's request
  torn,     \* an answer has met a change made after it was read or asked for
  librarySpent

libraryVars == <<libraryRows, visitor, hook, library, fetch, panel, change, torn, librarySpent>>

NoLibraryFetch == [stage |-> "none", of |-> Nobody, data |-> NoLibrary]
NoChange == [kind |-> "none", id |-> Absent, into |-> Top, of |-> Nobody, stage |-> "none", ok |-> FALSE]
Empty == [of |-> Nobody, lib |-> NoLibrary]

FoldersOf(l) == {f \in FolderIds : l.up[f] # Absent}

-----------------------------------------------------------------------------
(* Subtrees: the server walks a queue, the client makes passes. *)

Reach(l, root) == {f \in FoldersOf(l) :
    \E n \in 0 .. MaxFolder :
       \E path \in [0 .. n -> FoldersOf(l)] :
          path[0] = root /\ path[n] = f /\ \A i \in 1 .. n : l.up[path[i]] = path[i - 1]}

Cut(l, doomed) == [up |-> [f \in FolderIds |-> IF f \in doomed THEN Absent ELSE l.up[f]],
                   at |-> [t \in SavedTrees |-> IF l.at[t] \in doomed THEN Top ELSE l.at[t]]]

\* One pass over the folders: a folder whose parent is doomed is doomed, too.
OnePass(l, doomed) ==
    LET upTo[f \in 0 .. MaxFolder] ==
          IF f = 0 THEN doomed
          ELSE IF l.up[f] \in upTo[f - 1] THEN upTo[f - 1] \cup {f} ELSE upTo[f - 1]
    IN upTo[MaxFolder]

\* Mutation: one pass will do.
DoomedOnce(l, root) == OnePass(l, {root})
Doomed(l, root) ==
    LET after[n \in 0 .. MaxFolder] == IF n = 0 THEN {root} ELSE OnePass(l, after[n - 1])
    IN after[Cardinality(FoldersOf(l))]

-----------------------------------------------------------------------------
(* The shared cache. *)

\* refresh(): one request at a time, for a user.
MayFetch(h) == h.signedIn /\ ~h.loading
LibraryFetching(h) == [h EXCEPT !.loading = TRUE, !.error = FALSE]
LibraryAsked == [stage |-> "sent", of |-> visitor', data |-> NoLibrary]

LibraryInit ==
    /\ \E l \in StoredTrees : libraryRows = [a \in Accounts |-> IF a = 1 THEN l ELSE NoLibrary]
    /\ visitor = 1
    /\ hook = [signedIn |-> TRUE, loaded |-> FALSE, loading |-> TRUE, error |-> FALSE]
    /\ library = Empty
    /\ fetch = [stage |-> "sent", of |-> 1, data |-> NoLibrary]
    /\ panel = [open |-> TRUE, target |-> Top]
    /\ change = NoChange /\ torn = FALSE
    /\ librarySpent = [auth |-> 0, requests |-> 0, faults |-> 0]

MayFault == librarySpent.faults < LibraryMaxFaults
Faulted == [librarySpent EXCEPT !.faults = @ + 1]

ServeLibrary == /\ fetch.stage = "sent"
                /\ fetch' = [fetch EXCEPT !.stage = "read", !.data = libraryRows[fetch.of]]
                /\ UNCHANGED <<libraryRows, visitor, hook, library, panel, change, torn, librarySpent>>

\* Mutation: a fetch that fails leaves the flag.
FetchSettledOnlyLoaded(h, ok) == [h EXCEPT !.loaded = @ \/ ok, !.loading = ~ok, !.error = ~ok]
\* Mutation: an error is not recorded.
FetchSettledSilently(h, ok) == [h EXCEPT !.loaded = @ \/ ok, !.loading = FALSE, !.error = FALSE]
FetchSettled(h, ok) == [h EXCEPT !.loaded = @ \/ ok, !.loading = FALSE, !.error = ~ok]

LibraryArrives == /\ fetch.stage = "read"
                  /\ library' = [of |-> fetch.of, lib |-> fetch.data]
                  /\ hook' = FetchSettled(hook, TRUE)
                  /\ fetch' = NoLibraryFetch
                  /\ UNCHANGED <<libraryRows, visitor, panel, change, torn, librarySpent>>

FetchFails == /\ fetch.stage # "none" /\ MayFault
              /\ hook' = FetchSettled(hook, FALSE)
              /\ fetch' = NoLibraryFetch /\ librarySpent' = Faulted
              /\ UNCHANGED <<libraryRows, visitor, library, panel, change, torn>>

\* "Try again", and the mount of a panel after a fetch that failed.
Retry == /\ panel.open /\ (hook.error \/ ~hook.loaded) /\ MayFetch(hook)
         /\ hook' = LibraryFetching(hook)
         /\ fetch' = [stage |-> "sent", of |-> visitor, data |-> NoLibrary]
         /\ torn' = (torn \/ change # NoChange)
         /\ UNCHANGED <<libraryRows, visitor, library, panel, change, librarySpent>>

\* Mutation: the cache is left for the next sign-in to overwrite.
SignedOutKept == library
SignedOutLibrary == Empty

InFlight == fetch # NoLibraryFetch \/ change # NoChange

\* The listener of the auth state; a page change is a sign-out, then a sign-in.
AuthChanges ==
    /\ librarySpent.auth < MaxAuth
    /\ visitor' \in IF visitor = Nobody THEN Accounts ELSE {Nobody}
    /\ librarySpent' = [librarySpent EXCEPT !.auth = @ + 1]
    /\ torn' = (torn \/ InFlight)
    /\ IF visitor' = Nobody
         THEN /\ hook' = [hook EXCEPT !.signedIn = FALSE, !.loaded = FALSE]
              /\ library' = SignedOutLibrary
              /\ UNCHANGED fetch
         ELSE LET in == [hook EXCEPT !.signedIn = TRUE]
              IN /\ hook' = IF MayFetch(in) THEN LibraryFetching(in) ELSE in
                 /\ fetch' = IF MayFetch(in) THEN LibraryAsked ELSE fetch
                 /\ UNCHANGED library
    /\ UNCHANGED <<libraryRows, panel, change>>

-----------------------------------------------------------------------------
(* The panel: one request at a time while it is open. *)

\* The tree rows are there once they have been fetched; the form beneath them,
\* whenever somebody is signed in.
Rows == hook.signedIn /\ ~hook.loading /\ ~hook.error
ShownLibrary == FoldersOf(library.lib)

Ask(kind, id, into) ==
    /\ panel.open /\ change = NoChange /\ librarySpent.requests < MaxRequests
    /\ change' = [kind |-> kind, id |-> id, into |-> into, of |-> visitor, stage |-> "sent", ok |-> FALSE]
    /\ torn' = (torn \/ fetch # NoLibraryFetch)
    /\ librarySpent' = [librarySpent EXCEPT !.requests = @ + 1]
    /\ UNCHANGED <<libraryRows, visitor, hook, library, fetch, panel>>

\* A tree of that name in the folder, as the panel knows it, is overwritten.
SaveTree == /\ hook.signedIn /\ visitor # Nobody
            /\ \E t \in SavedTrees :
                  \/ library.lib.at[t] = panel.target /\ Ask("overwrite", t, panel.target)
                  \/ /\ library.lib.at[t] = Absent /\ libraryRows[visitor].at[t] = Absent
                     /\ Ask("tree", t, panel.target)
NewFolder == /\ hook.signedIn /\ visitor # Nobody
             /\ \E f \in FolderIds : libraryRows[visitor].up[f] = Absent /\ Ask("folder", f, panel.target)
DeleteFolder == Rows /\ \E f \in ShownLibrary : Ask("delete folder", f, Top)
DeleteTree == Rows /\ \E t \in SavedTrees : library.lib.at[t] # Absent /\ Ask("delete tree", t, Top)

Target == /\ panel.open /\ Rows /\ change = NoChange
          /\ panel' \in {[panel EXCEPT !.target = f] : f \in (ShownLibrary \cup {Top}) \ {panel.target}}
          /\ UNCHANGED <<libraryRows, visitor, hook, library, fetch, change, torn, librarySpent>>

\* The drawer takes the panel's own state with it, not the request.
ClosePanel == /\ panel.open
              /\ panel' = [open |-> FALSE, target |-> Top]
              /\ UNCHANGED <<libraryRows, visitor, hook, library, fetch, change, torn, librarySpent>>
OpenPanel == /\ ~panel.open
             /\ panel' = [panel EXCEPT !.open = TRUE]
             /\ UNCHANGED <<libraryRows, visitor, hook, library, fetch, change, torn, librarySpent>>

\* ParentIsUsable, FindOwnedFolder and FindOwnedTree.
Usable(l, f) == f = Top \/ f \in FoldersOf(l)
Valid(l, c) == CASE c.kind \in {"tree", "folder"} -> Usable(l, c.into)
                 [] c.kind = "overwrite" -> l.at[c.id] # Absent /\ Usable(l, c.into)
                 [] c.kind = "delete folder" -> c.id \in FoldersOf(l)
                 [] c.kind = "delete tree" -> l.at[c.id] # Absent

Applied(l, c) == CASE c.kind \in {"tree", "overwrite"} -> [l EXCEPT !.at[c.id] = c.into]
                   [] c.kind = "folder" -> [l EXCEPT !.up[c.id] = c.into]
                   [] c.kind = "delete folder" -> Cut(l, Reach(l, c.id))
                   [] c.kind = "delete tree" -> [l EXCEPT !.at[c.id] = Absent]

\* The controller's action: its row changes, or it is refused.
Change == /\ change.stage = "sent"
          /\ LET l == libraryRows[change.of]
             IN /\ libraryRows' = IF Valid(l, change) THEN [libraryRows EXCEPT ![change.of] = Applied(l, change)] ELSE libraryRows
                /\ change' = [change EXCEPT !.stage = "done", !.ok = Valid(l, change)]
          /\ UNCHANGED <<visitor, hook, library, fetch, panel, torn, librarySpent>>

\* mutateTreeLibrary and pruneTreeFolderSubtree on the shared cache.
Mutated(l, c) == IF c.kind = "delete folder" THEN Cut(l, Doomed(l, c.id)) ELSE Applied(l, c)

Changed == /\ change.stage = "done"
           /\ library' = IF change.ok THEN [of |-> change.of, lib |-> Mutated(library.lib, change)] ELSE library
           /\ panel' = IF change.ok /\ change.kind = "delete folder" /\ panel.target = change.id
                         THEN [panel EXCEPT !.target = Top] ELSE panel
           /\ change' = NoChange
           /\ UNCHANGED <<libraryRows, visitor, hook, fetch, torn, librarySpent>>

\* No answer comes: done on the server or not, the cache stays as it is.
ChangeFails == /\ change # NoChange /\ MayFault
               /\ torn' = (torn \/ change.ok)
               /\ change' = NoChange /\ librarySpent' = Faulted
               /\ UNCHANGED <<libraryRows, visitor, hook, library, fetch, panel>>

LibraryNext == \/ ServeLibrary \/ LibraryArrives \/ FetchFails \/ Retry \/ AuthChanges
               \/ SaveTree \/ NewFolder \/ DeleteFolder \/ DeleteTree
               \/ Target \/ ClosePanel \/ OpenPanel
               \/ Change \/ Changed \/ ChangeFails

LibrarySpec == LibraryInit /\ [][LibraryNext]_libraryVars

-----------------------------------------------------------------------------
(* Properties. *)

LibraryTypeOK == /\ libraryRows \in [Accounts -> Library] /\ library.lib \in Library
                 /\ library.of \in Accounts \cup {Nobody}
                 /\ hook \in [signedIn : BOOLEAN, loaded : BOOLEAN, loading : BOOLEAN, error : BOOLEAN]
                 /\ (hook.loading <=> fetch # NoLibraryFetch)
                 /\ panel.target \in FolderIds \cup {Top}

\* The cache is what a fresh fetch would bring: each change is mirrored as the
\* server makes it, the subtree of a deleted folder and its trees included, as
\* long as no fetch and no sign-in overlapped with a change.
CacheMirrors == hook.loaded /\ ~torn /\ ~InFlight => library.lib = libraryRows[visitor]

\* Nobody is shown a library that is not theirs, unless a request was under way
\* when they signed out.
ShownIsOwn == ~torn => library.of \in {Nobody, visitor}

\* A panel that waits gets its library or its error.
LibraryMet == hook.loaded \/ hook.error \/ ~hook.signedIn
LibraryOwed == hook.signedIn
=============================================================================
