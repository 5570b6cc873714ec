----------------------------- MODULE BoardLibrary -----------------------------
(* The library of solved boards: what a solve leaves on the watcher's disk and *)
(* in storage.  Each board has a .cfr on the disk, held to a byte budget by    *)
(* evicting the least recently used, and a manifest in storage; one index      *)
(* lists the boards.  The manifest and the index are read, changed and written *)
(* back, by the watcher and by reextract.py, a script which is run while the   *)
(* watcher is down: adls_store.py counts on a single writer.                   *)
(*                                                                             *)
(* A reader of either takes a failed read for an absent document, and a failed *)
(* upload is logged only; a process may end between any two steps.             *)
EXTENDS Integers, Sequences, FiniteSets, FiniteSetsExt

CONSTANTS
  Boards,          \* boards ever solved
  BoardBytes,      \* the size of each one's .cfr
  MaxBytes,        \* PIO_CFR_MAX_GB
  MaxSolves,       \* bound: solves, requests and runs of the script
  LibraryMaxFaults \* bound: faults

ASSUME BoardsAssumption == Boards # {} /\ BoardBytes \in [Boards -> Nat \ {0}] /\ MaxBytes \in Nat
ASSUME LibraryBoundsAssumption == MaxSolves \in Nat /\ LibraryMaxFaults \in Nat

VARIABLES
  disk,      \* the boards whose .cfr is there
  registry,  \* registry.json: the boards, least recently used first, or half a document
  shelf,     \* the manifests
  index,     \* the library index
  writer,    \* the two processes
  doubt,     \* boards of which a fault may have left the documents apart
  lost,      \* boards whose .cfr a fault has kept from the housekeeping
  precompute,\* PIO_TURN_PRECOMPUTE
  used       \* work and faults so far

libraryVars == <<disk, registry, shelf, index, writer, doubt, lost, precompute, used>>

LibraryProcesses == {"watcher", "script"}

\* What a manifest or the index says of a board: are turns extracted, is the
\* .cfr available?  An entry of the index is bare if it was never given the line.
Listings == [is: {"none", "bare", "full"}, turns: BOOLEAN, available: BOOLEAN]
NoEntry == [is |-> "none", turns |-> FALSE, available |-> FALSE]
NoEntries == [b \in Boards |-> NoEntry]

Orders == {o \in Seq(Boards) : \A i, j \in DOMAIN o : i # j => o[i] # o[j]}
InOrder(o) == {o[i] : i \in DOMAIN o}
Whole(o) == [half |-> FALSE, order |-> o]
Half == [half |-> TRUE, order |-> <<>>]

\* known is the process' registry in memory, entry and rows what it has read,
\* turns whether this pass uploaded the turns, evicted what is to be marked.
Writers == [pc: {"down", "idle", "read", "write", "indexread", "indexwrite", "sweep", "touch", "save",
                 "enforce", "mark"},
            board: Boards, known: Orders, pass: {"flop", "turn", "request", "script"}, entry: Listings,
            turns: BOOLEAN, rows: [Boards -> Listings], evicted: Orders]
Down == [pc |-> "down", board |-> CHOOSE b \in Boards : TRUE, known |-> <<>>, pass |-> "flop",
         entry |-> NoEntry, turns |-> FALSE, rows |-> NoEntries, evicted |-> <<>>]

LibraryInit ==
  /\ disk = {} /\ registry = Whole(<<>>)
  /\ shelf = NoEntries /\ index = NoEntries
  /\ writer = [p \in LibraryProcesses |-> IF p = "watcher" THEN [Down EXCEPT !.pc = "idle"] ELSE Down]
  /\ doubt = {} /\ lost = {}
  /\ precompute \in BOOLEAN
  /\ used = [work |-> 0, faults |-> 0]

AtPc(p, pc) == writer[p].pc = pc
ToPc(p, pc) == writer' = [writer EXCEPT ![p].pc = pc]
Rested(p) == [Down EXCEPT !.pc = "idle", !.known = writer[p].known]
OneMore == used.work < MaxSolves /\ used' = [used EXCEPT !.work = @ + 1]
LibraryFault == used.faults < LibraryMaxFaults /\ used' = [used EXCEPT !.faults = @ + 1]
NoLibraryFault == UNCHANGED used

\* The board whose documents are being changed.
Subject(p) == IF writer[p].evicted # <<>> THEN Head(writer[p].evicted) ELSE writer[p].board
Marking(p) == writer[p].evicted # <<>>

-----------------------------------------------------------------------------
(* What the processes are given to do.                                         *)

\* CfrRegistry._load: half a document is read as an empty one.
Loaded == registry.order

\* process_gametree_json: the solve has dumped its .cfr; its flop is published.
BoardSolved(b) ==
  /\ AtPc("watcher", "idle") /\ OneMore
  /\ disk' = disk \cup {b}
  /\ lost' = lost \cup {b}
  /\ writer' = [writer EXCEPT !["watcher"] = [Rested("watcher") EXCEPT !.pc = "read", !.board = b, !.pass = "flop"]]
  /\ UNCHANGED <<registry, shelf, index, doubt, precompute>>

\* The extraction raises before there is a flop to publish.
FlopFails ==
  LET w == writer["watcher"] IN
  /\ w.pc = "read" /\ w.pass = "flop" /\ ~Marking("watcher") /\ LibraryFault
  /\ doubt' = doubt \cup {w.board}
  /\ writer' = [writer EXCEPT !["watcher"] = Rested("watcher")]
  /\ UNCHANGED <<disk, registry, shelf, index, lost, precompute>>

\* _process_node_group on a .cfr that is there: of the registry it touches the
\* entry, and evicts nothing.
Requested(b) ==
  /\ AtPc("watcher", "idle") /\ b \in disk /\ shelf[b].is # "none" /\ OneMore
  /\ writer' = [writer EXCEPT !["watcher"] = [Rested("watcher") EXCEPT !.pc = "touch", !.board = b, !.pass = "request"]]
  /\ UNCHANGED <<disk, registry, shelf, index, doubt, lost, precompute>>

\* reextract.py is started, with a registry of its own.
ScriptStarts ==
  /\ AtPc("watcher", "down") /\ AtPc("script", "down") /\ OneMore
  /\ writer' = [writer EXCEPT !["script"] = [Down EXCEPT !.pc = "idle", !.known = Loaded]]
  /\ UNCHANGED <<disk, registry, shelf, index, doubt, lost, precompute>>

\* One of its targets, of which it uploads the turns again.
Reextract(b) ==
  /\ AtPc("script", "idle") /\ b \in InOrder(writer["script"].known) \cap disk
  /\ \/ NoLibraryFault /\ UNCHANGED doubt
        /\ writer' = [writer EXCEPT !["script"] =
             [Rested("script") EXCEPT !.pc = "read", !.board = b, !.pass = "script", !.turns = precompute]]
     \/ LibraryFault /\ doubt' = doubt \cup {b}
        /\ writer' = [writer EXCEPT !["script"] =
             [Rested("script") EXCEPT !.pc = "read", !.board = b, !.pass = "script"]]
  /\ UNCHANGED <<disk, registry, shelf, index, lost, precompute>>

ScriptEnds ==
  /\ AtPc("script", "idle")
  /\ writer' = [writer EXCEPT !["script"] = Down]
  /\ UNCHANGED <<disk, registry, shelf, index, doubt, lost, precompute, used>>

-----------------------------------------------------------------------------
(* The manifest and the index.                                                 *)

\* download_manifest; the script skips a board that has none.
ManifestRead(p) ==
  LET b == Subject(p)
      Reads(e) == writer' = [writer EXCEPT ![p] =
        IF @.pass = "script" /\ e = NoEntry THEN Rested(p) ELSE [@ EXCEPT !.pc = "write", !.entry = e]] IN
  /\ AtPc(p, "read")
  /\ \/ NoLibraryFault /\ Reads(shelf[b]) /\ UNCHANGED doubt
     \/ LibraryFault /\ Reads(NoEntry) /\ doubt' = doubt \cup {b}
  /\ UNCHANGED <<disk, registry, shelf, index, lost, precompute>>

\* build_manifest: the streets of the existing one are kept.
Merged(w) == [is |-> "full", turns |-> w.turns \/ w.entry.turns, available |-> TRUE]
\* mark_cfr_unavailable: what was read of it, if it was.
Unavailable(e) == [e EXCEPT !.available = FALSE]

ManifestWrite(p) ==
  LET b == Subject(p)
      e == IF Marking(p) THEN Unavailable(writer[p].entry) ELSE Merged(writer[p]) IN
  /\ AtPc(p, "write")
  /\ \/ /\ NoLibraryFault /\ UNCHANGED doubt
        /\ shelf' = IF e.is = "none" THEN shelf ELSE [shelf EXCEPT ![b] = e]
     \/ LibraryFault /\ UNCHANGED shelf /\ doubt' = doubt \cup {b}
  /\ writer' = [writer EXCEPT ![p].pc = "indexread", ![p].entry = e]
  /\ UNCHANGED <<disk, registry, index, lost, precompute>>

\* upsert_library_index reads the index; one it cannot read is empty.
IndexRead(p) ==
  /\ AtPc(p, "indexread")
  /\ \/ NoLibraryFault /\ writer' = [writer EXCEPT ![p].pc = "indexwrite", ![p].rows = index] /\ UNCHANGED doubt
     \/ LibraryFault /\ writer' = [writer EXCEPT ![p].pc = "indexwrite", ![p].rows = NoEntries] /\ doubt' = Boards
  /\ UNCHANGED <<disk, registry, shelf, index, lost, precompute>>

\* Mutation: the watcher too counts this call's uploads.
TurnStreetsUploaded(w) == w.turns
\* The watcher counts the turns of the merged manifest, the script its uploads.
TurnStreets(w) == IF w.pass = "script" THEN w.turns ELSE w.entry.turns

\* Mutation: an entry replaces the one that is there.
RowReplaced(p, old) ==
  IF Marking(p) THEN [NoEntry EXCEPT !.is = "bare"]
  ELSE [is |-> IF writer[p].pass = "script" THEN "bare" ELSE "full", turns |-> TurnStreets(writer[p]), available |-> TRUE]
\* An entry is merged into the one that is there.
Row(p, old) ==
  LET w == writer[p]  is == IF w.pass = "script" \/ Marking(p) THEN (IF old.is = "none" THEN "bare" ELSE old.is) ELSE "full" IN
  IF Marking(p) THEN [old EXCEPT !.is = is, !.available = FALSE]
  ELSE [is |-> is, turns |-> TurnStreets(w), available |-> TRUE]

\* Mutation: only the first board evicted is marked.
UnmarkedFirst(w) == <<>>
Unmarked(w) == Tail(w.evicted)

\* What comes after an entry is written.
AfterRow(p) ==
  LET w == writer[p]  rest == IF Marking(p) THEN Unmarked(w) ELSE <<>> IN
  IF Marking(p) THEN IF rest = <<>> THEN Rested(p) ELSE [w EXCEPT !.pc = "read", !.evicted = rest]
  ELSE [w EXCEPT !.pc = IF w.pass = "flop" THEN "sweep" ELSE "touch", !.rows = NoEntries]

IndexWrite(p) ==
  LET b == Subject(p) IN
  /\ AtPc(p, "indexwrite")
  /\ \/ NoLibraryFault /\ UNCHANGED doubt /\ index' = [writer[p].rows EXCEPT ![b] = Row(p, @)]
     \/ LibraryFault /\ UNCHANGED index /\ doubt' = doubt \cup {b}
  /\ writer' = [writer EXCEPT ![p] = AfterRow(p)]
  /\ UNCHANGED <<disk, registry, shelf, lost, precompute>>

\* The walk of the turns, after which everything is published again; without a
\* failed upload the turns are among it.  It may raise: nothing is touched then.
Sweep ==
  LET w == writer["watcher"]
      Again(turns) == writer' = [writer EXCEPT !["watcher"] = [w EXCEPT !.pc = "read", !.pass = "turn", !.turns = turns]] IN
  /\ AtPc("watcher", "sweep")
  /\ \/ NoLibraryFault /\ Again(precompute)
     \/ LibraryFault /\ Again(FALSE)
     \/ LibraryFault /\ writer' = [writer EXCEPT !["watcher"] = Rested("watcher")]
  /\ UNCHANGED <<disk, registry, shelf, index, doubt, lost, precompute>>

-----------------------------------------------------------------------------
(* CfrRegistry: the saves on the disk.                                         *)

\* Those of a list that are in S, in their order.
Those(o, S) ==
  LET kept[n \in 0..Len(o)] ==
        IF n = 0 THEN <<>> ELSE kept[n - 1] \o (IF o[n] \in S THEN <<o[n]>> ELSE <<>>)
  IN kept[Len(o)]

Touched(o, b) == Append(Those(o, Boards \ {b}), b)

Touch(p) ==
  /\ AtPc(p, "touch")
  /\ writer' = [writer EXCEPT ![p].pc = "save", ![p].known = Touched(@, writer[p].board)]
  /\ UNCHANGED <<disk, registry, shelf, index, doubt, lost, precompute, used>>

\* _save, after a touch and after an eviction; a failure is logged.
SaveRegistry(p) ==
  LET w == writer[p] IN
  /\ AtPc(p, "save")
  /\ \/ NoLibraryFault /\ registry' = Whole(w.known)
     \/ LibraryFault /\ UNCHANGED registry
  /\ writer' = [writer EXCEPT ![p] = IF Marking(p) THEN [w EXCEPT !.pc = "read"]
                                    ELSE IF w.pass = "turn" THEN [w EXCEPT !.pc = "enforce"] ELSE Rested(p)]
  /\ UNCHANGED <<disk, shelf, index, doubt, lost, precompute>>

Bytes(S) == MapThenSumSet(LAMBDA b : BoardBytes[b], S)

\* Mutation: it stops when the next one would bring it under the budget.
EnoughBefore(total, o, k) == total - Bytes({o[i] : i \in DOMAIN o \cap (1..k + 1)}) <= MaxBytes
Enough(total, o, k) == total - Bytes({o[i] : i \in 1..k}) <= MaxBytes

\* How many of the oldest go, of those that can be removed.
Evictions(total, o) == Min({k \in 0..Len(o) : Enough(total, o, k)} \cup {Len(o)})

\* enforce_budget, where one file may be held open by another process.
Enforce ==
  LET w == writer["watcher"]
      present == Those(w.known, disk)
      Evicts(held) ==
        LET order == Those(present, disk \ held)
            gone == SubSeq(order, 1, Evictions(Bytes(InOrder(present)), order)) IN
        /\ disk' = disk \ InOrder(gone)
        /\ lost' = (lost \ (InOrder(registry.order) \cap InOrder(w.known))) \cup held
        /\ writer' = [writer EXCEPT !["watcher"] =
             IF gone = <<>> THEN Rested("watcher")
             ELSE [w EXCEPT !.pc = "save", !.evicted = gone, !.entry = NoEntry,
                    !.known = Those(w.known, Boards \ InOrder(gone))]] IN
  /\ AtPc("watcher", "enforce")
  /\ \/ NoLibraryFault /\ Evicts({})
     \/ LibraryFault /\ \E b \in InOrder(present) : Evicts({b})
  /\ UNCHANGED <<registry, shelf, index, doubt, precompute>>

-----------------------------------------------------------------------------
(* The processes end, and the watcher is started again.                        *)

\* registry.json is written in place: a process that ends there leaves half.
Dies(p) ==
  LET w == writer[p] IN
  /\ w.pc \notin {"down", "idle"} /\ LibraryFault
  /\ \/ UNCHANGED registry
     \/ w.pc = "save" /\ registry' = Half
  /\ doubt' = doubt \cup {w.board} \cup InOrder(w.evicted)
  /\ lost' = lost \cup (disk \ InOrder(registry'.order))
  /\ writer' = [writer EXCEPT ![p] = Down]
  /\ UNCHANGED <<disk, shelf, index, precompute>>

\* Between two jobs it may be stopped by hand.
WatcherStops ==
  /\ AtPc("watcher", "idle")
  /\ writer' = [writer EXCEPT !["watcher"] = Down]
  /\ UNCHANGED <<disk, registry, shelf, index, doubt, lost, precompute, used>>

WatcherStarts ==
  /\ AtPc("watcher", "down") /\ AtPc("script", "down")
  /\ writer' = [writer EXCEPT !["watcher"] = [Down EXCEPT !.pc = "idle", !.known = Loaded]]
  /\ UNCHANGED <<disk, registry, shelf, index, doubt, lost, precompute, used>>

LibraryNext ==
  \/ \E b \in Boards : BoardSolved(b) \/ Requested(b) \/ Reextract(b)
  \/ \E p \in LibraryProcesses : \/ ManifestRead(p) \/ ManifestWrite(p) \/ IndexRead(p) \/ IndexWrite(p)
                           \/ Touch(p) \/ SaveRegistry(p) \/ Dies(p)
  \/ FlopFails \/ ScriptStarts \/ ScriptEnds \/ Sweep \/ Enforce \/ WatcherStops \/ WatcherStarts

LibrarySpec == LibraryInit /\ [][LibraryNext]_libraryVars

-----------------------------------------------------------------------------
(* Properties.                                                                 *)

\* Every variable keeps its type.
LibraryTypeOK ==
  /\ disk \subseteq Boards /\ lost \subseteq Boards /\ doubt \subseteq Boards
  /\ registry \in [half: BOOLEAN, order: Orders]
  /\ shelf \in [Boards -> Listings] /\ index \in [Boards -> Listings]
  /\ writer \in [LibraryProcesses -> Writers]
  /\ precompute \in BOOLEAN
  /\ used \in [work: 0..MaxSolves, faults: 0..LibraryMaxFaults]

AtRest == \A p \in LibraryProcesses : writer[p].pc \in {"idle", "down"}

\* Between two jobs the index, the manifests and the disk tell the same of every
\* board: which are in the library, which have their turns, and whose .cfr is
\* there, evictions, re-solves and re-extractions included.
LibraryAgrees ==
  AtRest => \A b \in Boards \ doubt :
    /\ index[b].is = shelf[b].is /\ index[b].turns = shelf[b].turns
    /\ index[b].available = shelf[b].available
    /\ index[b].is # "none" => (index[b].available <=> b \in disk)

\* Between two jobs the saves on the disk are within the budget, but for those a
\* fault has kept from the registry or from being removed.
BudgetHeld == AtRest => Bytes(disk \ lost) <= MaxBytes

\* What is said of the library, and what it may take, hold between two jobs.
LibrarySound == LibraryAgrees /\ BudgetHeld
=============================================================================
