---------------------------- MODULE PostflopSession ----------------------------
(***************************************************************************)
(* Browsing a solved board (usePostflopSession.ts, opened by Solver.tsx):  *)
(* a session walks the decision nodes of a board, one street's documents   *)
(* at a time.  A chance node opens the card picker; a street that has been *)
(* extracted is fetched, any other is asked for and polled.  Every await   *)
(* is a task here: what it does when it ends, it does to the session it    *)
(* finds, or to the one it remembers.                                      *)
(*                                                                         *)
(* A node is the sequence of its actions and cards after "r:0": "x" and    *)
(* "c" close a street, "b" is a bet and "f" a fold.  The boards are those  *)
(* of one preflop sim, which one replaces without the page being left.     *)
(***************************************************************************)
EXTENDS Integers, Sequences, SequencesExt, FiniteSets

CONSTANTS Boards,       \* solved boards (naturals from 1)
          Cards,        \* cards that can be dealt
          MaxDealt,     \* bound: streets after the flop
          Holes,        \* nodes the bundles say nothing of
          MaxTasks,     \* bound: awaits at a time
          MaxStarted    \* bound: awaits in all

ASSUME SessionAssumption ==
    /\ Boards \subseteq Nat \ {0} /\ MaxDealt \in Nat /\ MaxTasks \in Nat /\ MaxStarted \in Nat
    /\ Cards \cap {"x", "b", "c", "f"} = {}

Root == <<>>
NoNode == <<"none">>
Dealt(n) == SelectSeq(n, LAMBDA s : s \in Cards)
ActionsAt(n) == IF n # Root /\ Last(n) = "b" THEN {"f", "c"} ELSE {"x", "b"}

\* The type metaRef gives a node; a bundle holds the nodes of one street.
NodeType(n) == CASE n \in Holes -> "hole"
                 [] n = Root -> "decision"
                 [] Last(n) \in Cards \cup {"b"} -> "decision"
                 [] Last(n) = "f" -> "terminal"
                 [] OTHER -> IF Len(Dealt(n)) < MaxDealt THEN "split" ELSE "terminal"

Children(n) == CASE NodeType(n) = "decision" -> {Append(n, a) : a \in ActionsAt(n)}
                 [] NodeType(n) = "split" -> {Append(n, k) : k \in Cards \ Range(n)}
                 [] OTHER -> {}
NodesOfDepth[d \in Nat] == IF d = 0 THEN {Root}
                           ELSE UNION {Children(n) : n \in NodesOfDepth[d - 1]}
Nodes == UNION {NodesOfDepth[d] : d \in 0 .. 3 * (MaxDealt + 1)}
Seeds == {n \in Nodes : n = Root \/ Last(n) \in Cards}

\* The seed of the street a node is on.
StreetOf(n) == CHOOSE s \in Seeds : /\ IsPrefix(s, n)
                                    /\ \A t \in Seeds : IsPrefix(t, n) => IsPrefix(t, s)

VARIABLES
  core,     \* the session: board, node, line, picker, pending street, known streets
  docs,     \* docsRef and metaRef: the board each street's bundle came from, or 0
  cancel,   \* cancelRef
  resets,   \* "allow future picks again": the timeout that clears cancelRef is due
  tasks,    \* what is being awaited
  streets,  \* on the server, per board: the streets extracted and asked for
  started,  \* awaits so far
  crossed   \* history: awaits crossed, outlived what they were for, or threw

sessionVars == <<core, docs, cancel, resets, tasks, streets, started, crossed>>

NoCore == [board |-> 0, at |-> Root, line |-> <<>>, picker |-> NoNode,
           pending |-> NoNode, known |-> {}]
\* {...null, pendingStreet: null}: a session without a manifest or a node.
Broken == [NoCore EXCEPT !.at = NoNode]
CoreType == [board : Boards \cup {0}, at : Nodes \cup {NoNode}, line : Seq(Nodes),
             picker : Nodes \cup {NoNode}, pending : Seeds \cup {NoNode}, known : SUBSET Seeds]
NoDocs == [s \in Seeds |-> 0]

Task(kind, c, seed) == [kind |-> kind, core |-> c, seed |-> seed]
Opens(t) == t.kind \in {"manifest", "open"}
Opened(b) == [NoCore EXCEPT !.board = b, !.known = streets[b].extracted]
HasDoc(n) == n \in Nodes /\ NodeType(n) = "decision" /\ docs[StreetOf(n)] # 0

\* The picker covers the page.
Uncovered == core.board # 0 /\ core.picker = NoNode

SessionInit == /\ core = NoCore /\ docs = NoDocs /\ cancel = FALSE /\ resets = FALSE
               /\ tasks = {} /\ started = 0 /\ crossed = FALSE
               /\ streets = [b \in Boards |-> [extracted |-> {Root}, asked |-> {}]]

-----------------------------------------------------------------------------
(* Awaits. *)

\* Awaits that share their time cross, but for those of cards of one picker.
Await(rest, t) ==
    /\ started < MaxStarted /\ started' = started + 1
    /\ Cardinality(rest) < MaxTasks /\ t \notin rest
    /\ tasks' = rest \cup {t}
    /\ crossed' = (crossed \/ (rest # {} /\ \E u \in rest \cup {t} : u.kind # "card"))

\* The next await of the same call.
Continues(t, u) == /\ u \notin tasks /\ tasks' = (tasks \ {t}) \cup {u}
                   /\ UNCHANGED <<started, crossed>>
Ends(t) == tasks' = tasks \ {t} /\ UNCHANGED started
EndsWell(t) == Ends(t) /\ UNCHANGED crossed

\* Mutation: the tile of the action that closed the street is left out.
AdvancedOnly(c, seed) ==
    [c EXCEPT !.at = seed, !.line = Append(c.line, seed),
              !.picker = NoNode, !.pending = NoNode]
\* advanceToStreet: the closing action's tile, then the card's.
Advanced(c, seed) ==
    [c EXCEPT !.at = seed, !.picker = NoNode, !.pending = NoNode,
              !.line = @ \o (IF c.picker = NoNode THEN <<>> ELSE <<c.picker>>) \o <<seed>>]

\* loadStreet, the bundle there: merged into whatever is loaded.
Merged(b, seed) == [docs EXCEPT ![seed] = b]

-----------------------------------------------------------------------------
(* Opening and closing. *)

\* Mutation: the new board's documents join the old one's.
RefsKept == docs
\* open and close empty docsRef, metaRef and handOrderRef.
RefsEmptied == NoDocs

\* openSolvedBoard, up to the manifest's await.
OpenSolvedBoard(b) ==
    /\ core.board = 0 \/ Uncovered
    /\ Await(tasks, Task("manifest", [NoCore EXCEPT !.board = b], NoNode))
    /\ UNCHANGED <<core, docs, cancel, resets, streets>>

\* open, up to its await: the old session stays on the screen, without documents.
ManifestArrives(t) ==
    /\ t.kind = "manifest" /\ Continues(t, Task("open", Opened(t.core.board), Root))
    /\ cancel' = FALSE /\ docs' = RefsEmptied
    /\ UNCHANGED <<core, resets, streets>>
NoManifest(t) == /\ t.kind = "manifest" /\ EndsWell(t)
                 /\ UNCHANGED <<core, docs, cancel, resets, streets>>

\* Whether the bundle was there or not, the board is shown.
OpenEnds(t, found) ==
    /\ t.kind = "open" /\ EndsWell(t)
    /\ core' = t.core
    /\ docs' = IF found THEN Merged(t.core.board, Root) ELSE docs
    /\ UNCHANGED <<cancel, resets, streets>>

\* A fetch that throws ends its call where it stands.
Throws(t) == /\ t.kind \in {"open", "card", "load"}
             /\ Ends(t) /\ crossed' = TRUE
             /\ UNCHANGED <<core, docs, cancel, resets, streets>>

\* exitPostflop, or the arrow keys' change of sim, which work under the picker.
Close == /\ core.board # 0
         /\ cancel' = TRUE /\ core' = NoCore /\ docs' = RefsEmptied
         /\ crossed' = (crossed \/ tasks # {})
         /\ UNCHANGED <<resets, tasks, streets, started>>

-----------------------------------------------------------------------------
(* Walking. *)

LineTo(n) == IF n = Root THEN <<>> ELSE SubSeq(core.line, 1, CHOOSE i \in DOMAIN core.line : core.line[i] = n)
Visited(n) == n = Root \/ n \in Range(core.line)

\* pickActionAt: branching from a past node cuts the line there first.
PickActionAt(n, a) ==
    /\ Uncovered /\ core.pending = NoNode
    /\ Visited(n) /\ HasDoc(n) /\ a \in ActionsAt(n)
    /\ LET child == Append(n, a)
           parent == [core EXCEPT !.at = n, !.line = LineTo(n), !.picker = NoNode]
       IN core' = CASE NodeType(child) \in {"hole", "terminal"} -> parent
                    [] NodeType(child) = "split" -> [parent EXCEPT !.picker = child]
                    [] OTHER -> [parent EXCEPT !.at = child, !.line = Append(@, child)]
    /\ UNCHANGED <<docs, cancel, resets, tasks, streets, started, crossed>>

\* jumpTo: a closing tile lands on its decision with the picker open again.
JumpTo(n) ==
    /\ Uncovered /\ core.pending = NoNode /\ Visited(n)
    /\ LET split == NodeType(n) = "split" /\ docs[StreetOf(n)] # 0
       IN core' = IF split
                  THEN [core EXCEPT !.at = Front(n), !.line = Front(LineTo(n)), !.picker = n]
                  ELSE [core EXCEPT !.at = n, !.line = LineTo(n), !.picker = NoNode]
    /\ core' # core
    /\ UNCHANGED <<docs, cancel, resets, tasks, streets, started, crossed>>

ClosePicker == /\ core.picker # NoNode /\ core.pending = NoNode
               /\ core' = [core EXCEPT !.picker = NoNode]
               /\ UNCHANGED <<docs, cancel, resets, tasks, streets, started, crossed>>

-----------------------------------------------------------------------------
(* Dealing a card. *)

\* Mutation: a card that is already on the board can be dealt.
PickableAny(k) == core.picker # NoNode /\ core.pending = NoNode
\* usedCards, and pickCard's early return.
Pickable(k) == core.picker # NoNode /\ core.pending = NoNode /\ k \notin Range(core.picker)

\* pickCard, the street extracted: shown at once when its documents are there.
PickLoaded(k) ==
    LET seed == Append(core.picker, k)
    IN /\ Pickable(k) /\ seed \in core.known /\ docs[seed] # 0
       /\ core' = Advanced(core, seed)
       /\ UNCHANGED <<docs, cancel, resets, tasks, streets, started, crossed>>
PickExtracted(k) ==
    LET seed == Append(core.picker, k)
    IN /\ Pickable(k) /\ seed \in core.known /\ docs[seed] = 0
       /\ Await(tasks, Task("card", core, seed))
       /\ UNCHANGED <<core, docs, cancel, resets, streets>>

\* What the session was when the card was picked is what it becomes again.
StreetArrives(t) ==
    /\ t.kind \in {"card", "load"} /\ EndsWell(t)
    /\ core' = Advanced(t.core, t.seed)
    /\ docs' = Merged(t.core.board, t.seed)
    /\ UNCHANGED <<cancel, resets, streets>>
NoStreet(t) ==
    /\ t.kind \in {"card", "load"} /\ EndsWell(t)
    /\ core' = [t.core EXCEPT !.picker = IF t.kind = "card" THEN NoNode ELSE @,
                              !.pending = NoNode]
    /\ UNCHANGED <<docs, cancel, resets, streets>>

\* pickCard, the street on demand.
PickOnDemand(k) ==
    LET seed == Append(core.picker, k)
    IN /\ Pickable(k) /\ seed \notin core.known
       /\ Await(tasks, Task("post", core, seed))
       /\ core' = [core EXCEPT !.pending = seed]
       /\ UNCHANGED <<docs, cancel, resets, streets>>

\* An answer of any status starts the polling; only a kept one asks the watcher.
Requested(t, kept) ==
    /\ t.kind = "post" /\ Continues(t, [t EXCEPT !.kind = "poll"])
    /\ streets' = IF kept THEN [streets EXCEPT ![t.core.board].asked = @ \cup {t.seed}] ELSE streets
    /\ UNCHANGED <<core, docs, cancel, resets>>
NotRequested(t) ==
    /\ t.kind = "post" /\ EndsWell(t)
    /\ core' = IF core.board = 0 THEN Broken ELSE [core EXCEPT !.pending = NoNode]
    /\ UNCHANGED <<docs, cancel, resets, streets>>

\* The watcher extracts a street it was asked for (external).
Extract(b, seed) ==
    /\ seed \in streets[b].asked
    /\ streets' = [streets EXCEPT ![b] = [extracted |-> @.extracted \cup {seed},
                                          asked |-> @.asked \ {seed}]]
    /\ UNCHANGED <<core, docs, cancel, resets, tasks, started, crossed>>

\* Mutation: a poll that is told to stop leaves the request on the screen.
AbandonedPending(c) == c
\* The poll has used up its attempts.
Abandoned(c) == [c EXCEPT !.pending = NoNode]

\* Mutation: the poll has no limit.
OutOfAttemptsNever(t) == FALSE
\* The number of the attempt is not modelled.
OutOfAttempts(t) == t.seed \notin streets[t.core.board].extracted

\* pollForStreet ends: told to stop, out of attempts, or with the manifest.
PollStops(t) ==
    /\ t.kind = "poll" /\ (cancel \/ core.board = 0) /\ EndsWell(t)
    /\ UNCHANGED <<core, docs, cancel, resets, streets>>
PollGivesUp(t) ==
    /\ t.kind = "poll" /\ ~cancel /\ core.board # 0 /\ OutOfAttempts(t)
    /\ EndsWell(t) /\ core' = Abandoned(core)
    /\ UNCHANGED <<docs, cancel, resets, streets>>
\* The session of the moment goes on with the manifest of the board polled for.
PollAnswered(t) ==
    LET b == t.core.board
        c == [core EXCEPT !.board = b, !.known = streets[b].extracted]
    IN /\ t.kind = "poll" /\ ~cancel /\ core.board # 0 /\ t.seed \in streets[b].extracted
       /\ IF docs[t.seed] # 0
          THEN EndsWell(t) /\ core' = Advanced(c, t.seed)
          ELSE Continues(t, Task("load", c, t.seed)) /\ UNCHANGED core
       /\ UNCHANGED <<docs, cancel, resets, streets>>

\* cancelPending: cancelRef holds until the timeout of 0 ms runs.
CancelPending ==
    /\ core.pending # NoNode
    /\ core' = [core EXCEPT !.pending = NoNode]
    /\ cancel' = TRUE /\ resets' = TRUE /\ crossed' = TRUE
    /\ UNCHANGED <<docs, tasks, streets, started>>
AllowPicks == /\ resets /\ resets' = FALSE /\ cancel' = FALSE
              /\ UNCHANGED <<core, docs, tasks, streets, started, crossed>>

-----------------------------------------------------------------------------
TaskNext(t) == \/ ManifestArrives(t) \/ NoManifest(t) \/ Throws(t)
               \/ \E found \in BOOLEAN : OpenEnds(t, found)
               \/ StreetArrives(t) \/ NoStreet(t)
               \/ \E kept \in BOOLEAN : Requested(t, kept)
               \/ NotRequested(t) \/ PollStops(t) \/ PollGivesUp(t) \/ PollAnswered(t)

SessionNext == \/ \E b \in Boards : OpenSolvedBoard(b)
               \/ Close \/ ClosePicker \/ CancelPending \/ AllowPicks
               \/ \E n \in {Root} \cup Range(core.line) :
                     JumpTo(n) \/ \E a \in ActionsAt(n) : PickActionAt(n, a)
               \/ \E k \in Cards : PickLoaded(k) \/ PickExtracted(k) \/ PickOnDemand(k)
               \/ \E t \in tasks : TaskNext(t)
               \/ \E b \in Boards, s \in Seeds : Extract(b, s)

SessionSpec == SessionInit /\ [][SessionNext]_sessionVars

\* Every fetch ends, one way or the other, and a poll has 120 attempts.
AnAwaitEnds == \E t \in tasks : TaskNext(t)

-----------------------------------------------------------------------------
(* Type correctness of the session, what is loaded and what is awaited. *)
SessionTypeOK ==
    /\ core \in CoreType
    /\ docs \in [Seeds -> Boards \cup {0}]
    /\ cancel \in BOOLEAN /\ resets \in BOOLEAN /\ crossed \in BOOLEAN
    /\ started \in 0 .. MaxStarted
    /\ IsFiniteSet(tasks) /\ Cardinality(tasks) <= MaxTasks
    /\ \A t \in tasks : /\ t.kind \in {"manifest", "open", "card", "post", "poll", "load"}
                        /\ t.core \in CoreType /\ t.seed \in Seeds \cup {NoNode}
    /\ streets \in [Boards -> [extracted : SUBSET Seeds, asked : SUBSET Seeds]]

\* Each tile of the line is a child of the one before it.
IsPath(line) == \A i \in DOMAIN line :
    Front(line[i]) = IF i = 1 THEN Root ELSE line[i - 1]

(* However the line is walked, branched, jumped along and dealt on, it is   *)
(* the path from the root to the node that is shown (pickActionAt, jumpTo,  *)
(* advanceToStreet), while no await outlives what it was for.               *)
LineIsPath == core.board # 0 /\ ~crossed =>
    IsPath(core.line) /\ core.at = IF core.line = <<>> THEN Root ELSE Last(core.line)

(* The documents on the screen are those of the session's own board, those  *)
(* of the node that is shown among them once any are (docsRef).             *)
OneBoard == core.board # 0 /\ ~crossed =>
    /\ \A s \in Seeds : docs[s] # 0 /\ (\A t \in tasks : ~Opens(t)) => docs[s] = core.board
    /\ core.at # Root => HasDoc(core.at) \/ \E t \in tasks : t.kind = "open"

(* The card that is waited for is one of the open picker's, and somebody is *)
(* waiting for it, while no await outlives what it was for.                 *)
PendingIsAwaited == core.pending # NoNode /\ ~crossed =>
    /\ core.picker # NoNode /\ Front(core.pending) = core.picker
    /\ \E t \in tasks : t.seed = core.pending

(* A card that is waited for stops being waited for, unless the bundle's    *)
(* fetch throws after the poll (pickCard catches the request's errors only).*)
PendingMet == core.pending = NoNode \/ crossed
PendingOwed == core.pending # NoNode
=============================================================================
