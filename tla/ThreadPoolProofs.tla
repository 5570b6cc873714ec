--------------------------- MODULE ThreadPoolProofs ---------------------------
(* For any number of workers, batches, calls, exceptions and fork levels, and  *)
(* nodes of any width: the types of ThreadPool, that a batch outlives its      *)
(* tasks, that every call of a batch is made once, that an exception reaches   *)
(* the owner, and that the scratch arenas stay within the memory estimate.     *)
EXTENDS ThreadPool, FiniteSetTheorems, TLAPS

-----------------------------------------------------------------------------
(* The inductive invariant.                                                    *)

Open(b) == batch[b].at \notin {"none", "over"}

\* Batches are numbered as they are made, and a plain loop is one from the start.
Made == \A b \in Ids :
          /\ b > made => batch[b] = Unmade
          /\ b <= made => batch[b].at # "none"
          /\ batch[b].looped => batch[b].at \in {"loop", "busy", "return", "over"}
          /\ ~batch[b].looped => batch[b].at # "loop"

\* The calls below next have been made, once; the others have not.
Claimed == \A b \in Ids :
             /\ batch[b].next <= batch[b].count
             /\ \A i \in Indices :
                  /\ i < batch[b].next => task[b][i].at # "free" /\ task[b][i].hits = 1
                  /\ i >= batch[b].next => task[b][i] = Free

Listed == \A b \in batches : /\ batch[b].at \in {"notify", "look", "help", "busy", "erase"}
                             /\ ~batch[b].looped

\* Whoever runs a task is busy with it, and a plain loop runs its own.
RunBy == \A b \in Ids, i \in Indices : Under(b, i) =>
           /\ task[b][i].by \in Workers \cup Ids
           /\ task[b][i].by \in Workers => worker[task[b][i].by] = "busy"
           /\ task[b][i].by \in Ids => /\ batch[task[b][i].by].at = "busy"
                                       /\ batch[task[b][i].by].looped => task[b][i].by = b
           /\ batch[b].looped => task[b][i].by = b /\ task[b][i].at # "count"

\* and with no other.
RunByOne == \A b, c \in Ids, i, j \in Indices :
              Under(b, i) /\ Under(c, j) /\ task[b][i].by = task[c][j].by => b = c /\ i = j

\* What forked an open batch waits for it: an older batch's body, or the owner,
ForkedFrom == \A b \in Ids : Open(b) =>
                /\ batch[b].from = Caller => caller = "calling"
                /\ batch[b].from # Caller =>
                     /\ batch[b].nth \in Indices
                     /\ task[batch[b].from][batch[b].nth].at = "forked"
                     /\ batch[b].from < b

\* and for no other.
ForkedOne == \A b, c \in Ids :
               /\ Open(b) /\ Open(c) /\ batch[b].from = batch[c].from
               /\ batch[b].from = Caller \/ batch[b].nth = batch[c].nth
               => b = c

\* remaining counts the calls that have not ended.
Left(b) == {i \in Indices : i < batch[b].count /\ task[b][i].at # "done"}
Counted == \A b \in Ids : ~batch[b].looped => batch[b].remaining = Cardinality(Left(b))

\* A wait ends with no call left, a plain loop with none under way.
Ended == \A b \in Ids :
           /\ ~batch[b].looped /\ batch[b].at \in {"erase", "return", "over"} => batch[b].remaining = 0
           /\ batch[b].looped /\ batch[b].at # "busy" => \A i \in Indices : ~Under(b, i)
           /\ batch[b].looped /\ batch[b].at \in {"return", "over"} =>
                batch[b].next = batch[b].count \/ batch[b].error

Inv == /\ TypeOK /\ Made /\ Claimed /\ Listed /\ RunBy /\ RunByOne
       /\ ForkedFrom /\ ForkedOne /\ Counted /\ Ended

-----------------------------------------------------------------------------

LEMMA InitInv == Init => Inv
  <1> SUFFICES ASSUME Init PROVE Inv
    OBVIOUS
  <1> USE BoundsAssumption, ThreadsAssumption
  <1>1. Unmade \in Batches /\ Free \in Tasks
    BY DEF Unmade, Free, Batches, Tasks
  <1>2. TypeOK
    <2>1. batch \in [Ids -> Batches] /\ task \in [Ids -> [Indices -> Tasks]]
      BY <1>1 DEF Init
    <2>2. worker \in [Workers -> {"none", "check", "asleep", "busy", "exited"}]
      BY DEF Init
    <2>3. made \in 0..MaxBatches /\ calls \in 0..MaxCalls /\ throws \in 0..MaxThrows
      BY DEF Init
    <2>4. stopping \in BOOLEAN /\ raised \in BOOLEAN /\ batches \subseteq Ids
      BY DEF Init
    <2>5. caller \in {"idle", "calling", "stopping", "joining", "gone"}
      BY DEF Init
    <2> QED
      BY <2>1, <2>2, <2>3, <2>4, <2>5 DEF TypeOK
  <1>3. \A b \in Ids : batch[b] = Unmade /\ \A i \in Indices : task[b][i] = Free
    BY DEF Init
  <1>4. Made /\ Claimed
    BY <1>3 DEF Init, Made, Claimed, Unmade, Free, Ids, Indices
  <1>5. Listed /\ RunBy /\ RunByOne /\ ForkedFrom /\ ForkedOne /\ Ended
    BY <1>3 DEF Init, Listed, RunBy, RunByOne, ForkedFrom, ForkedOne, Ended, Unmade, Free, Under, Open
  <1>6. Counted
    <2>1. \A b \in Ids : Left(b) = {}
      BY <1>3 DEF Left, Unmade, Indices
    <2> QED
      BY <2>1, <1>3, FS_EmptySet, SMTT(30) DEF Counted, Unmade
  <1> QED
    BY <1>2, <1>4, <1>5, <1>6 DEF Inv

\* A batch as parallel_for makes it.
LEMMA OpenedType ==
  ASSUME NEW from \in Ids \cup {Caller}, NEW nth \in Nat, NEW n \in 0..MaxWidth,
         NEW level \in 0..MaxSplitLevels + 1, NEW split \in Nat, NEW at \in {"loop", "notify"}
  PROVE  Opened(from, nth, n, level, split, at) \in Batches
  BY BoundsAssumption DEF Opened, Batches

\* split stays a number.
LEMMA SplitType ==
  ASSUME Inv
  PROVE  /\ SplitBudget \in Nat
         /\ \A s \in Nat, children \in Widths : ChildSplit(s, children) \in Nat
  <1>1. Pool \subseteq Workers
    BY DEF Pool
  <1>2. Cardinality(Pool) \in Nat
    BY <1>1, ThreadsAssumption, FS_Subset, FS_CardinalityType
  <1>3. \A s \in Nat, c \in Nat \ {0} : s \div c \in Int
    OBVIOUS
  <1>4. Widths \subseteq Nat \ {0}
    BY WidthsAssumption, BoundsAssumption
  <1>5. \A s \in Nat, c \in Widths : ChildSplit(s, c) \in Nat
    BY <1>3, <1>4 DEF ChildSplit
  <1> QED
    BY <1>2, <1>5 DEF SplitBudget, Threads

LEMMA ParallelForType ==
  ASSUME Inv, NEW from \in Ids \cup {Caller}, NEW nth \in Nat, NEW n \in Sizes,
         NEW level \in 0..MaxSplitLevels + 1, NEW split \in Nat,
         ParallelFor(from, nth, n, level, split)
  PROVE  /\ made' = made + 1 /\ made' \in Ids /\ made' \in 0..MaxBatches
         /\ batches' \subseteq Ids
         /\ batch' \in [Ids -> Batches]
  <1> USE BoundsAssumption
  <1>1. made \in Nat /\ made + 1 \in Ids /\ batch \in [Ids -> Batches] /\ batches \subseteq Ids
    BY DEF Inv, TypeOK, ParallelFor, Ids
  <1>2. n \in 0..MaxWidth
    BY WidthsAssumption
  <1>3. \A at \in {"loop", "notify"} : Opened(from, nth, n, level, split, at) \in Batches
    BY <1>2, OpenedType
  <1>4. made' = made + 1
    BY DEF ParallelFor
  <1>5. batches' \subseteq Ids
    BY <1>1 DEF ParallelFor
  <1>6. batch' \in [Ids -> Batches]
    BY <1>1, <1>3 DEF ParallelFor
  <1>7. made' \in Ids /\ made' \in 0..MaxBatches
    BY <1>1, <1>4 DEF Ids
  <1> QED
    BY <1>4, <1>5, <1>6, <1>7

\* A task keeps its record's type whatever state it is put in.
LEMMA TaskTypes ==
  ASSUME Inv, NEW b \in Ids, NEW i \in Indices
  PROVE  /\ \A a \in {"run", "forked", "joined", "threw", "count", "done"} :
              [task EXCEPT ![b][i].at = a] \in [Ids -> [Indices -> Tasks]]
         /\ Closed(b, i) \in [Ids -> [Indices -> Tasks]]
  <1>1. task \in [Ids -> [Indices -> Tasks]] /\ task[b][i] \in Tasks
    BY DEF Inv, TypeOK
  <1>2. \A t \in Tasks : [task EXCEPT ![b][i] = t] \in [Ids -> [Indices -> Tasks]]
    BY <1>1
  <1>3. \A a \in {"run", "forked", "joined", "threw", "count", "done"} : [task[b][i] EXCEPT !.at = a] \in Tasks
    BY <1>1 DEF Tasks
  <1>4. [task[b][i] EXCEPT !.at = "done", !.by = None] \in Tasks
    BY <1>1 DEF Tasks
  <1> QED
    BY <1>1, <1>2, <1>3, <1>4 DEF Closed

\* The call that is next is one of the batch's, free until now.
LEMMA BeginType ==
  ASSUME Inv, NEW b \in Ids, NEW by \in Workers \cup Ids, batch[b].next < batch[b].count, Begin(b, by)
  PROVE  /\ batch[b].next \in Indices
         /\ task[b][batch[b].next] = Free
         /\ task' = [task EXCEPT ![b][batch[b].next] = [at |-> "run", by |-> by, hits |-> 1]]
         /\ task' \in [Ids -> [Indices -> Tasks]]
         /\ batch[b].next + 1 \in 0..MaxWidth
  <1> USE BoundsAssumption
  <1>1. batch[b].next \in Nat /\ batch[b].count \in 0..MaxWidth
    BY DEF Inv, TypeOK, Batches
  <1>2. batch[b].next \in Indices /\ batch[b].next + 1 \in 0..MaxWidth
    BY <1>1 DEF Indices
  <1>3. task[b][batch[b].next] = Free
    BY <1>1, <1>2 DEF Inv, Claimed
  <1>4. task' = [task EXCEPT ![b][batch[b].next] = [at |-> "run", by |-> by, hits |-> 1]]
    <2>1. task[b][batch[b].next].hits + 1 = 1
      BY <1>3 DEF Free
    <2> QED
      BY <2>1, <1>2 DEF Begin, Inv, TypeOK
  <1>5. [at |-> "run", by |-> by, hits |-> 1] \in Tasks
    BY DEF Tasks
  <1>6. task \in [Ids -> [Indices -> Tasks]]
    BY DEF Inv, TypeOK
  <1>7. task' \in [Ids -> [Indices -> Tasks]]
    BY <1>2, <1>4, <1>5, <1>6
  <1> QED
    BY <1>2, <1>3, <1>4, <1>7

\* The fields of a batch that change after it is made keep their types.
LEMMA BatchTypes ==
  ASSUME Inv, NEW b \in Ids
  PROVE  /\ batch \in [Ids -> Batches]
         /\ \A a \in {"notify", "look", "help", "busy", "loop", "erase", "return", "over"} :
              [batch[b] EXCEPT !.at = a] \in Batches
         /\ \A n \in 0..MaxWidth : [batch[b] EXCEPT !.next = n] \in Batches
         /\ \A n \in 0..MaxWidth : [batch[b] EXCEPT !.remaining = n] \in Batches
         /\ [batch[b] EXCEPT !.error = TRUE] \in Batches
  BY ZenonT(60) DEF Inv, TypeOK, Batches

\* A call in work is one of those that are left.
LEMMA UnderLeft ==
  ASSUME Inv, NEW b \in Ids, NEW i \in Indices, Under(b, i)
  PROVE  /\ i < batch[b].next /\ i < batch[b].count
         /\ i \in Left(b)
         /\ IsFiniteSet(Left(b))
         /\ ~batch[b].looped => batch[b].remaining \in Nat \ {0}
  <1> USE BoundsAssumption
  <1>1. batch[b].next \in Nat /\ batch[b].count \in Nat /\ i \in Nat
    BY DEF Inv, TypeOK, Batches, Indices
  <1>2. i < batch[b].next /\ i < batch[b].count
    BY <1>1 DEF Inv, Claimed, Under, Free
  <1>3. i \in Left(b)
    BY <1>2 DEF Left, Under
  <1>4. IsFiniteSet(Left(b))
    <2>1. IsFiniteSet(Indices)
      BY FS_Interval DEF Indices
    <2> QED
      BY <2>1, FS_Subset DEF Left
  <1>5. Cardinality(Left(b)) \in Nat /\ Cardinality(Left(b)) # 0
    BY <1>3, <1>4, FS_CardinalityType, FS_EmptySet
  <1> QED
    BY <1>2, <1>3, <1>4, <1>5 DEF Inv, Counted

-----------------------------------------------------------------------------
(* Types.                                                                      *)

\* Setting `at` of one batch, or moving its next call, keeps the batches in their type.
LEMMA BatchSet ==
  ASSUME Inv, NEW b \in Ids
  PROVE  /\ \A a \in {"notify", "look", "help", "busy", "loop", "erase", "return", "over"} :
              [batch EXCEPT ![b].at = a] \in [Ids -> Batches]
         /\ \A n \in 0..MaxWidth : [batch EXCEPT ![b].next = n] \in [Ids -> Batches]
         /\ [batch EXCEPT ![b].error = TRUE] \in [Ids -> Batches]
  <1>1. \A r \in Batches : [batch EXCEPT ![b] = r] \in [Ids -> Batches]
    BY BatchTypes
  <1> QED
    BY <1>1, BatchTypes

\* Every step of parallel_for keeps the types.
LEMMA WaitType ==
  ASSUME Inv, NEW b \in Ids, WaitStep(b)
  PROVE  TypeOK'
  <1> USE BoundsAssumption
  <1>a. TypeOK
    BY DEF Inv
  <1>b. batch \in [Ids -> Batches]
    BY BatchTypes
  <1>1. CASE Notify(b)
    <2>1. worker' \in [Workers -> {"none", "check", "asleep", "busy", "exited"}]
      BY <1>1, <1>a DEF Notify, Notified, Awake, TypeOK
    <2> QED
      BY <1>1, <1>a, <2>1, BatchSet DEF Notify, TypeOK
  <1>2. CASE Look(b)
    BY <1>2, <1>a, BatchSet DEF Look, TypeOK
  <1>3. CASE Help(b)
    <2>1. CASE ~MayHelp(b)
      <3>1. batch' = [batch EXCEPT ![b].at = "look"] /\ UNCHANGED task
        BY <1>3, <2>1 DEF Help
      <3>2. batch' \in [Ids -> Batches]
        BY <3>1, BatchSet
      <3> QED
        BY <1>3, <1>a, <3>1, <3>2 DEF Help, TypeOK
    <2>2. CASE MayHelp(b)
      <3>1. PICK c \in Ids : /\ Newest(c) /\ Begin(c, b)
                             /\ batch' = [batch EXCEPT ![c].next = @ + 1, ![b].at = "busy"]
        BY <1>3, <2>2 DEF Help
      <3>2. batch[c].next < batch[c].count
        BY <3>1 DEF Newest, Pending
      <3>3. batch[c].next + 1 \in 0..MaxWidth /\ task' \in [Ids -> [Indices -> Tasks]]
        BY <3>1, <3>2, BeginType
      <3>4. batch' \in [Ids -> Batches]
        <4> DEFINE g == [batch EXCEPT ![c].next = @ + 1]
        <4>1. g \in [Ids -> Batches]
          BY <3>3, BatchSet
        <4>2. batch' = [g EXCEPT ![b].at = "busy"]
          BY <3>1
        <4>3. [g[b] EXCEPT !.at = "busy"] \in Batches
          BY <4>1 DEF Batches
        <4> HIDE DEF g
        <4> QED
          BY <4>1, <4>2, <4>3
      <3> QED
        BY <1>3, <1>a, <3>3, <3>4 DEF Help, TypeOK
    <2> QED
      BY <2>1, <2>2
  <1>4. CASE Erase(b)
    BY <1>4, <1>a, BatchSet DEF Erase, TypeOK
  <1>5. CASE Iterate(b)
    <2>1. CASE batch[b].next = batch[b].count
      <3>1. batch' = [batch EXCEPT ![b].at = "return"] /\ UNCHANGED task
        BY <1>5, <2>1, <1>b DEF Iterate, Batches
      <3>2. batch' \in [Ids -> Batches]
        BY <3>1, BatchSet
      <3> QED
        BY <1>5, <1>a, <3>1, <3>2 DEF Iterate, TypeOK
    <2>2. CASE batch[b].next < batch[b].count
      <3>1. batch[b].next + 1 \in 0..MaxWidth /\ task' \in [Ids -> [Indices -> Tasks]]
        <4>1. Begin(b, b)
          BY <1>5, <1>b, <2>2 DEF Iterate, Batches
        <4> QED
          BY <2>2, <4>1, BeginType
      <3>2. batch' \in [Ids -> Batches]
        <4>1. [batch[b] EXCEPT !.next = @ + 1, !.at = "busy"] \in Batches
          BY <3>1, <1>b, ZenonT(60) DEF Batches
        <4>2. batch' = [batch EXCEPT ![b] = [batch[b] EXCEPT !.next = @ + 1, !.at = "busy"]]
          BY <1>5, <1>b, <2>2 DEF Iterate, Batches
        <4> QED
          BY <4>1, <4>2, <1>b
      <3> QED
        BY <1>5, <1>a, <3>1, <3>2 DEF Iterate, TypeOK
    <2> QED
      BY <1>5, <2>1, <2>2 DEF Iterate
  <1>6. CASE Return(b)
    <2>1. batch' \in [Ids -> Batches]
      BY <1>6, BatchSet DEF Return
    <2>2. CASE batch[b].from = Caller
      BY <1>6, <1>a, <2>1, <2>2 DEF Return, TypeOK
    <2>3. CASE batch[b].from # Caller
      <3>1. batch[b].from \in Ids /\ batch[b].nth \in Indices
        BY <1>6, <1>b, <2>3 DEF Return, Inv, ForkedFrom, Open, Batches
      <3>2. task' \in [Ids -> [Indices -> Tasks]]
        <4>1. \A a \in {"threw", "joined"} :
                [task EXCEPT ![batch[b].from][batch[b].nth].at = a] \in [Ids -> [Indices -> Tasks]]
          BY <3>1, TaskTypes
        <4> QED
          BY <1>6, <2>3, <4>1 DEF Return
      <3> QED
        BY <1>6, <1>a, <2>1, <2>3, <3>2 DEF Return, TypeOK
    <2> QED
      BY <2>2, <2>3
  <1> QED
    BY <1>1, <1>2, <1>3, <1>4, <1>5, <1>6 DEF WaitStep

\* Every end of a body keeps the types: remaining is not decremented below zero.
LEMMA BodyType ==
  ASSUME Inv, NEW b \in Ids, NEW i \in Indices, BodyEnds(b, i)
  PROVE  TypeOK'
  <1> USE BoundsAssumption
  <1>a. TypeOK
    BY DEF Inv
  <1>b. batch \in [Ids -> Batches]
    BY BatchTypes
  <1>1. CASE Finish(b, i)
    <2>1. batch' \in [Ids -> Batches]
      BY <1>1, <1>b, BatchSet, ZenonT(60) DEF Finish
    <2>2. task' \in [Ids -> [Indices -> Tasks]]
      <3>1. task' = Closed(b, i) \/ task' = [task EXCEPT ![b][i].at = "count"]
        BY <1>1 DEF Finish
      <3>2. [task EXCEPT ![b][i].at = "count"] \in [Ids -> [Indices -> Tasks]]
        BY TaskTypes
      <3>3. Closed(b, i) \in [Ids -> [Indices -> Tasks]]
        BY TaskTypes
      <3> QED
        BY <3>1, <3>2, <3>3
    <2> QED
      BY <1>1, <1>a, <2>1, <2>2 DEF Finish, TypeOK
  <1>2. CASE Catch(b, i)
    <2>1. [batch[b] EXCEPT !.error = TRUE, !.at = "return"] \in Batches
      BY <1>b, ZenonT(60) DEF Batches
    <2>2. batch' \in [Ids -> Batches]
      <3>1. CASE batch[b].looped
        <4>1. batch' = [batch EXCEPT ![b] = [batch[b] EXCEPT !.error = TRUE, !.at = "return"]]
          BY <1>2, <1>b, <3>1 DEF Catch, Batches
        <4> QED
          BY <4>1, <2>1, <1>b
      <3>2. CASE ~batch[b].looped
        BY <1>2, <3>2, BatchSet, ZenonT(60) DEF Catch
      <3> QED
        BY <3>1, <3>2
    <2>3. task' \in [Ids -> [Indices -> Tasks]]
      <3>1. task' = Closed(b, i) \/ task' = [task EXCEPT ![b][i].at = "count"]
        BY <1>2 DEF Catch
      <3>2. [task EXCEPT ![b][i].at = "count"] \in [Ids -> [Indices -> Tasks]]
        BY TaskTypes
      <3>3. Closed(b, i) \in [Ids -> [Indices -> Tasks]]
        BY TaskTypes
      <3> QED
        BY <3>1, <3>2, <3>3
    <2> QED
      BY <1>2, <1>a, <2>2, <2>3 DEF Catch, TypeOK
  <1>3. CASE Count(b, i)
    <2>1. Under(b, i) /\ ~batch[b].looped
      BY <1>3 DEF Count, Under, Inv, RunBy
    <2>2. batch[b].remaining - 1 \in 0..MaxWidth
      <3>1. batch[b].remaining \in 0..MaxWidth /\ batch[b].remaining # 0
        BY <1>b, <2>1, UnderLeft DEF Batches
      <3> QED
        BY <3>1
    <2> DEFINE g == [batch EXCEPT ![b].remaining = @ - 1]
    <2>3. g \in [Ids -> Batches]
      <3>1. [batch[b] EXCEPT !.remaining = @ - 1] \in Batches
        BY <2>2, BatchTypes
      <3> QED
        BY <3>1, <1>b
    <2>4. batch' \in [Ids -> Batches]
      <3>1. CASE task[b][i].by \in Workers
        BY <1>3, <2>3, <3>1, ThreadsAssumption DEF Count
      <3>2. CASE task[b][i].by \in Ids
        <4>1. batch' = [g EXCEPT ![task[b][i].by].at = "look"]
          BY <1>3, <3>2, ThreadsAssumption DEF Count
        <4>2. [g[task[b][i].by] EXCEPT !.at = "look"] \in Batches
          BY <2>3, <3>2 DEF Batches
        <4> HIDE DEF g
        <4> QED
          BY <2>3, <3>2, <4>1, <4>2
      <3> QED
        BY <1>3, <3>1, <3>2 DEF Count
    <2>5. worker' \in [Workers -> {"none", "check", "asleep", "busy", "exited"}]
      BY <1>3, <1>a DEF Count, TypeOK
    <2> QED
      BY <1>3, <1>a, <2>4, <2>5, TaskTypes DEF Count, TypeOK
  <1> QED
    BY <1>1, <1>2, <1>3 DEF BodyEnds

\* A fork keeps the types.
LEMMA ForkType ==
  ASSUME Inv, NEW b \in Ids, NEW i \in Indices, Fork(b, i)
  PROVE  TypeOK'
  <1> USE BoundsAssumption
  <1>a. TypeOK
    BY DEF Inv
  <1>1. PICK children \in Widths, n \in Sizes :
          /\ Forks(batch[b].split, batch[b].level, children)
          /\ ParallelFor(b, i, n, batch[b].level + 1, ChildSplit(batch[b].split, children))
    BY DEF Fork
  <1>2. batch[b].split \in Nat /\ batch[b].level + 1 \in 0..MaxSplitLevels + 1
    BY <1>a, <1>1 DEF TypeOK, Batches, Forks
  <1>3. ChildSplit(batch[b].split, children) \in Nat
    BY <1>2, SplitType
  <1>4. i \in Nat /\ b \in Ids \cup {Caller}
    BY DEF Indices
  <1>5. made' \in 0..MaxBatches /\ batches' \subseteq Ids /\ batch' \in [Ids -> Batches]
    BY <1>1, <1>2, <1>3, <1>4, ParallelForType
  <1>6. task' \in [Ids -> [Indices -> Tasks]]
    <2>1. [task EXCEPT ![b][i].at = "forked"] \in [Ids -> [Indices -> Tasks]]
      BY TaskTypes
    <2> QED
      BY <2>1 DEF Fork
  <1> QED
    BY <1>a, <1>5, <1>6 DEF Fork, TypeOK

\* The owner's call keeps the types.
LEMMA CallType ==
  ASSUME Inv, Call
  PROVE  TypeOK'
  <1> USE BoundsAssumption
  <1>a. TypeOK
    BY DEF Inv
  <1>1. PICK children \in Widths, n \in Sizes :
          \/ ParallelFor(Caller, 0, n, 1, ChildSplit(SplitBudget, children))
          \/ ParallelFor(Caller, 0, n, 1, 1)
    BY DEF Call
  <1>2. ChildSplit(SplitBudget, children) \in Nat
    BY SplitType
  <1>3. 1 \in 0..MaxSplitLevels + 1 /\ Caller \in Ids \cup {Caller}
    OBVIOUS
  <1>4. made' \in 0..MaxBatches /\ batches' \subseteq Ids /\ batch' \in [Ids -> Batches]
    BY <1>1, <1>2, <1>3, ParallelForType
  <1>5. calls' \in 0..MaxCalls
    BY <1>a DEF Call, TypeOK
  <1> QED
    BY <1>a, <1>4, <1>5 DEF Call, TypeOK

\* So does a worker's step, or its being woken.
LEMMA WorkerType ==
  ASSUME Inv, NEW w \in Workers, WorkerStep(w) \/ Wake(w)
  PROVE  TypeOK'
  <1> USE BoundsAssumption
  <1>a. TypeOK
    BY DEF Inv
  <1>1. CASE Exit(w) \/ Sleep(w) \/ Wake(w)
    BY <1>1, <1>a DEF Exit, Sleep, Wake, TypeOK
  <1>2. CASE Take(w)
    <2>1. PICK c \in Ids : /\ Newest(c) /\ Begin(c, w)
                           /\ batch' = [batch EXCEPT ![c].next = @ + 1]
      BY <1>2 DEF Take
    <2>2. batch[c].next < batch[c].count
      BY <2>1 DEF Newest, Pending
    <2>3. batch[c].next + 1 \in 0..MaxWidth /\ task' \in [Ids -> [Indices -> Tasks]]
      BY <2>1, <2>2, BeginType
    <2>4. batch' \in [Ids -> Batches]
      BY <2>1, <2>3, BatchSet
    <2>5. worker' \in [Workers -> {"none", "check", "asleep", "busy", "exited"}]
      BY <1>2, <1>a DEF Take, TypeOK
    <2> QED
      BY <1>2, <1>a, <2>3, <2>4, <2>5 DEF Take, TypeOK
  <1> QED
    BY <1>1, <1>2 DEF WorkerStep

\* Every step keeps the types.
LEMMA TypeStep ==
  ASSUME Inv, [Next]_vars
  PROVE  TypeOK'
  <1> USE BoundsAssumption
  <1>a. TypeOK
    BY DEF Inv
  <1>1. CASE Stop \/ Join
    BY <1>1, <1>a DEF Stop, Join, TypeOK
  <1>2. CASE NotifyAll
    <2>1. worker' \in [Workers -> {"none", "check", "asleep", "busy", "exited"}]
      BY <1>2, <1>a DEF NotifyAll, Notified, Awake, TypeOK
    <2> QED
      BY <1>2, <1>a, <2>1 DEF NotifyAll, TypeOK
  <1>3. CASE Gone \/ UNCHANGED vars
    BY <1>3, <1>a DEF Gone, vars, TypeOK
  <1>4. ASSUME NEW b \in Ids, NEW i \in Indices, Throw(b, i)
        PROVE  TypeOK'
    <2>1. [task EXCEPT ![b][i].at = "threw"] \in [Ids -> [Indices -> Tasks]]
      BY TaskTypes
    <2>2. task' \in [Ids -> [Indices -> Tasks]]
      BY <1>4, <2>1 DEF Throw
    <2>3. throws' \in 0..MaxThrows
      BY <1>4, <1>a DEF Throw, TypeOK
    <2> QED
      BY <1>4, <1>a, <2>2, <2>3 DEF Throw, TypeOK
  <1> QED
    BY <1>1, <1>2, <1>3, <1>4, CallType, ForkType, WaitType, BodyType, WorkerType DEF Next

-----------------------------------------------------------------------------
(* The rest of the invariant, kept by each step.                               *)

Kept == /\ Made' /\ Claimed' /\ Listed' /\ RunBy' /\ RunByOne'
        /\ ForkedFrom' /\ ForkedOne' /\ Counted' /\ Ended'

\* A batch that is open has been made.
LEMMA OpenMade ==
  ASSUME Inv, NEW b \in Ids, Open(b)
  PROVE  b <= made
  <1>1. Unmade.at = "none"
    BY DEF Unmade
  <1>2. batch[b] # Unmade
    BY <1>1 DEF Open
  <1>3. b \in Nat /\ made \in Nat
    BY BoundsAssumption DEF Inv, TypeOK, Ids
  <1> QED
    BY <1>2, <1>3 DEF Inv, Made

\* All that a step which only moves the batches' `at` leaves alone.
SameFields(b) == /\ batch'[b].from = batch[b].from /\ batch'[b].nth = batch[b].nth
                 /\ batch'[b].looped = batch[b].looped /\ batch'[b].count = batch[b].count
                 /\ batch'[b].next = batch[b].next /\ batch'[b].remaining = batch[b].remaining

\* A wait that goes on, or that is over and takes its batch off batches_; a plain loop
\* that has no call left.
LEMMA MovedInv ==
  ASSUME Inv, NEW b \in Ids, NEW a \in {"look", "help", "erase", "return"},
         batch[b].at \in {"notify", "look", "help", "erase", "loop"},
         batch' = [batch EXCEPT ![b].at = a], UNCHANGED <<task, made, caller>>,
         a = "erase" => batch[b].remaining = 0,
         a = "return" => batch[b].at \in {"erase", "loop"} /\ b \notin batches',
         batch[b].at = "loop" => a = "return" /\ batch[b].next = batch[b].count,
         batches' \subseteq batches,
         \A w \in Workers : worker[w] = "busy" => worker'[w] = "busy"
  PROVE  Kept
  <1> USE BoundsAssumption
  <1>1. /\ \A c \in Ids : SameFields(c) /\ batch'[c].error = batch[c].error
        /\ \A c \in Ids \ {b} : batch'[c] = batch[c]
        /\ batch'[b].at = a
    BY DEF Inv, TypeOK, Batches, SameFields
  <1>2. (batch[b].looped <=> batch[b].at = "loop") /\ b <= made
    BY OpenMade DEF Inv, Made, Open
  <1>3. Made'
    <2>1. b \in Nat /\ made \in Nat
      BY DEF Inv, TypeOK, Ids
    <2> SUFFICES ASSUME NEW c \in Ids
                 PROVE  /\ c > made => batch'[c] = Unmade
                        /\ c <= made => batch'[c].at # "none"
                        /\ batch'[c].looped => batch'[c].at \in {"loop", "busy", "return", "over"}
                        /\ ~batch'[c].looped => batch'[c].at # "loop"
      BY DEF Made
    <2>2. CASE c = b
      BY <1>1, <1>2, <2>1, <2>2 DEF SameFields
    <2>3. CASE c # b
      BY <1>1, <2>3 DEF Inv, Made
    <2> QED
      BY <2>2, <2>3
  <1>4. Claimed' /\ RunByOne'
    BY <1>1 DEF Inv, Claimed, RunByOne, Under, SameFields
  <1>5. Listed'
    BY <1>1, <1>2 DEF Inv, Listed, SameFields, TypeOK
  <1>6. RunBy'
    BY <1>1 DEF Inv, RunBy, Under, SameFields
  <1>7. ForkedFrom' /\ ForkedOne'
    BY <1>1 DEF Inv, ForkedFrom, ForkedOne, Open, SameFields
  <1>8. Counted'
    <2>1. \A c \in Ids : Left(c)' = Left(c)
      BY <1>1 DEF Left, SameFields
    <2> QED
      BY <1>1, <2>1 DEF Inv, Counted, SameFields
  <1>9. Ended'
    BY <1>1, <1>2 DEF Inv, Ended, Under, SameFields
  <1> QED
    BY <1>3, <1>4, <1>5, <1>6, <1>7, <1>8, <1>9 DEF Kept

\* A call that begins: a worker's, a helping wait's or a plain loop's.
LEMMA BeginInv ==
  ASSUME Inv, NEW c \in Ids, NEW by \in Workers \cup Ids,
         batch[c].next < batch[c].count, Begin(c, by),
         batch' \in [Ids -> Batches], UNCHANGED <<made, caller, batches>>,
         \A d \in Ids :
           /\ batch'[d].from = batch[d].from /\ batch'[d].nth = batch[d].nth
           /\ batch'[d].looped = batch[d].looped /\ batch'[d].count = batch[d].count
           /\ batch'[d].remaining = batch[d].remaining /\ batch'[d].error = batch[d].error
           /\ d # c /\ d # by => batch'[d] = batch[d]
           /\ batch'[d].next = IF d = c THEN batch[d].next + 1 ELSE batch[d].next
           /\ batch'[d].at = IF d = by THEN "busy" ELSE batch[d].at,
         by \in Ids => batch[by].at \in {"help", "loop"},
         by \in Ids => by <= made,
         c <= made,
         by \in Ids /\ batch[by].looped => by = c,
         batch[c].looped => by = c,
         by \in Workers => worker[by] # "busy" /\ worker'[by] = "busy",
         \A w \in Workers : w # by => worker'[w] = worker[w]
  PROVE  Kept
  <1> USE BoundsAssumption, ThreadsAssumption
  <1> DEFINE i == batch[c].next
  <1>1. /\ i \in Indices /\ task[c][i] = Free
        /\ task' = [task EXCEPT ![c][i] = [at |-> "run", by |-> by, hits |-> 1]]
    BY BeginType
  <1>2. task \in [Ids -> [Indices -> Tasks]] /\ batch \in [Ids -> Batches] /\ made \in Nat
    BY DEF Inv, TypeOK
  <1>3. /\ \A d \in Ids, j \in Indices : ~(d = c /\ j = i) => task'[d][j] = task[d][j]
        /\ task'[c][i].at = "run" /\ task'[c][i].by = by /\ task'[c][i].hits = 1
    BY <1>1, <1>2
  <1>4. task[c][i].at = "free"
    BY <1>1 DEF Free
  <1>5. \A d \in Ids : d \in Nat /\ batch[d].next \in Nat /\ batch[d].count \in Nat
    <2>1. \A d \in Ids : d \in Nat
      BY DEF Ids
    <2>2. \A d \in Ids : batch[d] \in Batches
      BY <1>2
    <2>3. \A r \in Batches : r.next \in Nat /\ r.count \in Nat
      BY DEF Batches
    <2> QED
      BY <2>1, <2>2, <2>3
  <1> HIDE DEF i
  <1>6. Made'
    <2> SUFFICES ASSUME NEW d \in Ids
                 PROVE  /\ d > made => batch'[d] = Unmade
                        /\ d <= made => batch'[d].at # "none"
                        /\ batch'[d].looped => batch'[d].at \in {"loop", "busy", "return", "over"}
                        /\ ~batch'[d].looped => batch'[d].at # "loop"
      BY DEF Made
    <2>1. CASE d = by
      BY <2>1, <1>2, <1>5
    <2>2. CASE d # by /\ d = c
      BY <2>2, <1>2, <1>5 DEF Inv, Made
    <2>3. CASE d # by /\ d # c
      BY <2>3 DEF Inv, Made
    <2> QED
      BY <2>1, <2>2, <2>3
  <1>7. Claimed'
    <2> SUFFICES ASSUME NEW d \in Ids, NEW j \in Indices
                 PROVE  /\ batch'[d].next <= batch'[d].count
                        /\ j < batch'[d].next => task'[d][j].at # "free" /\ task'[d][j].hits = 1
                        /\ j >= batch'[d].next => task'[d][j] = Free
      BY <1>1 DEF Claimed
    <2>1. j \in Int
      BY DEF Indices
    <2>2. CASE d # c
      BY <2>2, <1>3 DEF Inv, Claimed
    <2>3. CASE d = c /\ j = i
      BY <2>3, <1>3, <1>5 DEF i
    <2>4. CASE d = c /\ j # i
      <3>1. batch'[d].next = i + 1 /\ batch'[d].count = batch[c].count /\ i < batch[c].count
        BY <2>4 DEF i
      <3>2. i \in Nat /\ batch[c].count \in Nat
        BY <1>5 DEF i
      <3>3. task'[d][j] = task[c][j]
        BY <2>4, <1>3
      <3>4. /\ j < i => task[c][j].at # "free" /\ task[c][j].hits = 1
            /\ j >= i => task[c][j] = Free
        BY DEF Inv, Claimed, i
      <3>5. /\ i + 1 <= batch[c].count
            /\ j < i + 1 => j < i
            /\ j >= i + 1 => j >= i
        BY <2>1, <2>4, <3>1, <3>2
      <3> QED
        BY <3>1, <3>3, <3>4, <3>5
    <2> QED
      BY <2>2, <2>3, <2>4
  <1>8. Listed'
    BY <1>2, ThreadsAssumption DEF Inv, Listed, TypeOK, Made
  <1>9. RunBy'
    BY <1>1, <1>3, <1>4, SMTT(30) DEF Inv, RunBy, Under
  <1>10. RunByOne'
    BY <1>1, <1>3, <1>4 DEF Inv, RunBy, RunByOne, Under
  <1>11. ForkedFrom' /\ ForkedOne'
    BY <1>1, <1>3, <1>4, SMTT(30) DEF Inv, ForkedFrom, ForkedOne, Open
  <1>12. Counted'
    <2>1. \A d \in Ids : Left(d)' = Left(d)
      BY <1>1, <1>3, <1>4 DEF Left
    <2> QED
      BY <2>1 DEF Inv, Counted
  <1>13. Ended'
    BY <1>1, <1>3, <1>4, <1>5 DEF Inv, Ended, Under
  <1> QED
    BY <1>6, <1>7, <1>8, <1>9, <1>10, <1>11, <1>12, <1>13 DEF Kept

\* parallel_for returns, or throws, into the body or the owner that called it.
LEMMA ReturnInv ==
  ASSUME Inv, NEW b \in Ids, Return(b)
  PROVE  Kept
  <1> USE BoundsAssumption, ThreadsAssumption
  <1>1. /\ task \in [Ids -> [Indices -> Tasks]] /\ batch \in [Ids -> Batches]
        /\ UNCHANGED <<made, batches, worker>>
    BY DEF Inv, TypeOK, Return
  <1>2. /\ \A d \in Ids : SameFields(d) /\ batch'[d].error = batch[d].error
        /\ \A d \in Ids \ {b} : batch'[d] = batch[d]
        /\ batch[b].at = "return" /\ batch'[b].at = "over"
    BY <1>1 DEF Return, Batches, SameFields
  <1>3. Open(b) /\ b <= made /\ b \notin batches
    BY <1>2, OpenMade DEF Open, Inv, Listed
  <1>4. batch[b].from # Caller =>
          /\ batch[b].from \in Ids /\ batch[b].nth \in Indices
          /\ task[batch[b].from][batch[b].nth].at = "forked"
    BY <1>1, <1>3 DEF Inv, ForkedFrom, Batches
  <1>5. \A d \in Ids, j \in Indices :
          /\ task'[d][j].by = task[d][j].by /\ task'[d][j].hits = task[d][j].hits
          /\ task'[d][j] # task[d][j] =>
               /\ d = batch[b].from /\ j = batch[b].nth /\ d # Caller
               /\ task[d][j].at = "forked" /\ task'[d][j].at \in {"threw", "joined"}
    <2>1. CASE batch[b].from = Caller
      BY <2>1 DEF Return
    <2>2. CASE batch[b].from # Caller
      <3> DEFINE f == batch[b].from
                 n == batch[b].nth
                 a == IF Rethrows(b) THEN "threw" ELSE "joined"
      <3>1. f \in Ids /\ n \in Indices /\ f # Caller /\ task[f][n].at = "forked"
        BY <1>4, <2>2
      <3>2. task' = [task EXCEPT ![f][n].at = a] /\ a \in {"threw", "joined"}
        BY <2>2 DEF Return
      <3> HIDE DEF f, n, a
      <3>3. task[f][n] \in Tasks
        BY <1>1, <3>1
      <3>4. task'[f][n] = [task[f][n] EXCEPT !.at = a]
        BY <1>1, <3>1, <3>2
      <3>5. task'[f][n].at = a /\ task'[f][n].by = task[f][n].by /\ task'[f][n].hits = task[f][n].hits
        BY <3>3, <3>4 DEF Tasks
      <3>6. \A d \in Ids, j \in Indices : ~(d = f /\ j = n) => task'[d][j] = task[d][j]
        BY <1>1, <3>1, <3>2
      <3> QED
        BY <3>1, <3>2, <3>5, <3>6, ZenonT(60) DEF f, n
    <2> QED
      BY <2>1, <2>2
  <1>6. Made'
    <2>1. b \in Nat /\ made \in Nat
      BY DEF Inv, TypeOK, Ids
    <2> SUFFICES ASSUME NEW c \in Ids
                 PROVE  /\ c > made => batch'[c] = Unmade
                        /\ c <= made => batch'[c].at # "none"
                        /\ batch'[c].looped => batch'[c].at \in {"loop", "busy", "return", "over"}
                        /\ ~batch'[c].looped => batch'[c].at # "loop"
      BY <1>1 DEF Made
    <2>2. CASE c = b
      BY <1>2, <1>3, <2>1, <2>2 DEF SameFields
    <2>3. CASE c # b
      BY <1>2, <2>3 DEF Inv, Made
    <2> QED
      BY <2>2, <2>3
  <1>7. Claimed'
    BY <1>2, <1>5 DEF Inv, Claimed, SameFields, Free
  <1>8. Listed'
    BY <1>1, <1>2, <1>3 DEF Inv, Listed, SameFields, TypeOK
  <1>9. \A d \in Ids, j \in Indices : Under(d, j)' <=> Under(d, j)
    BY <1>5 DEF Under
  <1>10. RunBy' /\ RunByOne'
    <2>1. RunByOne'
      BY <1>5, <1>9 DEF Inv, RunByOne
    <2>2. \A d \in Ids : batch[d].at = "busy" => batch'[d].at = "busy"
      BY <1>2
    <2>3. \A d \in Ids, j \in Indices : task'[d][j].at = "count" => task[d][j].at = "count"
      BY <1>5
    <2>4. RunBy'
      BY <1>1, <1>2, <1>5, <1>9, <2>2, <2>3, SMTT(30) DEF Inv, RunBy, SameFields
    <2> QED
      BY <2>1, <2>4
  <1>11. ForkedFrom'
    <2> SUFFICES ASSUME NEW d \in Ids, Open(d)'
                 PROVE  /\ batch'[d].from = Caller => caller' = "calling"
                        /\ batch'[d].from # Caller =>
                             /\ batch'[d].nth \in Indices
                             /\ task'[batch'[d].from][batch'[d].nth].at = "forked"
                             /\ batch'[d].from < d
      BY DEF ForkedFrom
    <2>1. d # b /\ batch'[d] = batch[d] /\ Open(d)
      BY <1>2 DEF Open
    <2>2. ~(batch[d].from = batch[b].from /\ (batch[d].from = Caller \/ batch[d].nth = batch[b].nth))
      BY <1>3, <2>1 DEF Inv, ForkedOne
    <2>3. CASE batch[d].from = Caller
      BY <2>1, <2>2, <2>3 DEF Return, Inv, ForkedFrom
    <2>4. CASE batch[d].from # Caller
      <3>1. batch[d].from \in Ids /\ batch[d].nth \in Indices
        BY <1>1, <2>1, <2>4 DEF Inv, ForkedFrom, Batches
      <3>2. task'[batch[d].from][batch[d].nth] = task[batch[d].from][batch[d].nth]
        BY <1>5, <2>2, <3>1
      <3> QED
        BY <2>1, <2>4, <3>1, <3>2 DEF Inv, ForkedFrom
    <2> QED
      BY <2>3, <2>4
  <1>12. ForkedOne'
    BY <1>2 DEF Inv, ForkedOne, Open, SameFields
  <1>13. Counted'
    <2>1. \A d \in Ids : Left(d)' = Left(d)
      BY <1>2, <1>5 DEF Left, SameFields
    <2> QED
      BY <1>2, <2>1 DEF Inv, Counted, SameFields
  <1>14. Ended'
    BY <1>2, <1>9 DEF Inv, Ended, SameFields
  <1> QED
    BY <1>6, <1>7, <1>8, <1>10, <1>11, <1>12, <1>13, <1>14 DEF Kept
\* One task changes.
LEMMA TaskSet ==
  ASSUME Inv, NEW b \in Ids, NEW i \in Indices,
         NEW a \in {"run", "forked", "joined", "threw", "count", "done"},
         task' = [task EXCEPT ![b][i].at = a]
  PROVE  /\ task'[b][i].at = a /\ task'[b][i].by = task[b][i].by /\ task'[b][i].hits = task[b][i].hits
         /\ \A d \in Ids, j \in Indices : ~(d = b /\ j = i) => task'[d][j] = task[d][j]
  <1>1. task \in [Ids -> [Indices -> Tasks]] /\ task[b][i] \in Tasks
    BY DEF Inv, TypeOK
  <1>2. task'[b][i] = [task[b][i] EXCEPT !.at = a]
    BY <1>1
  <1>3. \A d \in Ids, j \in Indices : ~(d = b /\ j = i) => task'[d][j] = task[d][j]
    BY <1>1
  <1>4. task'[b][i].at = a /\ task'[b][i].by = task[b][i].by /\ task'[b][i].hits = task[b][i].hits
    BY <1>1, <1>2 DEF Tasks
  <1> QED
    BY <1>3, <1>4

LEMMA TaskOver ==
  ASSUME Inv, NEW b \in Ids, NEW i \in Indices, task' = Closed(b, i)
  PROVE  /\ task'[b][i].at = "done" /\ task'[b][i].hits = task[b][i].hits
         /\ \A d \in Ids, j \in Indices : ~(d = b /\ j = i) => task'[d][j] = task[d][j]
  <1>1. task \in [Ids -> [Indices -> Tasks]] /\ task[b][i] \in Tasks
    BY DEF Inv, TypeOK
  <1>2. task'[b][i] = [task[b][i] EXCEPT !.at = "done", !.by = None]
    BY <1>1 DEF Closed
  <1>3. \A d \in Ids, j \in Indices : ~(d = b /\ j = i) => task'[d][j] = task[d][j]
    BY <1>1 DEF Closed
  <1>4. task'[b][i].at = "done" /\ task'[b][i].hits = task[b][i].hits
    BY <1>1, <1>2 DEF Tasks
  <1> QED
    BY <1>3, <1>4

\* A body that goes on, with nothing on top of it.
LEMMA BodyGoesOn ==
  ASSUME Inv, NEW b \in Ids, NEW i \in Indices, NEW a \in {"threw", "count"},
         Under(b, i), task[b][i].at # "forked", a = "count" => ~batch[b].looped,
         task' = [task EXCEPT ![b][i].at = a],
         \A d \in Ids : /\ SameFields(d) /\ batch'[d].at = batch[d].at
                        /\ batch[d].error => batch'[d].error
                        /\ d # b => batch'[d] = batch[d],
         UNCHANGED <<made, batches, worker, caller>>
  PROVE  Kept
  <1> USE BoundsAssumption
  <1>1. /\ task'[b][i].at = a /\ task'[b][i].by = task[b][i].by /\ task'[b][i].hits = task[b][i].hits
        /\ \A d \in Ids, j \in Indices : ~(d = b /\ j = i) => task'[d][j] = task[d][j]
    BY TaskSet
  <1>2. \A d \in Ids, j \in Indices :
          /\ task'[d][j].by = task[d][j].by /\ task'[d][j].hits = task[d][j].hits
          /\ Under(d, j)' <=> Under(d, j)
    BY <1>1 DEF Under
  <1>3. b <= made
    <2>1. made \in Nat /\ b \in Nat /\ batch[b].next \in Nat /\ i \in Nat
      BY SMTT(30) DEF Inv, TypeOK, Ids, Batches, Indices
    <2>2. batch[b] # Unmade
      BY <2>1, UnderLeft DEF Unmade
    <2> QED
      BY <2>1, <2>2 DEF Inv, Made
  <1>4. Made'
    <2>1. b \in Nat /\ made \in Nat
      BY DEF Inv, TypeOK, Ids
    <2> QED
      BY <1>3, <2>1 DEF Inv, Made, SameFields
  <1>5. Claimed'
    <2>1. \A d \in Ids, j \in Indices : task[d][j].at = "free" <=> task'[d][j].at = "free"
      BY <1>1 DEF Under
    <2>2. \A d \in Ids, j \in Indices : task[d][j] = Free => task'[d][j] = Free
      BY <1>1 DEF Under, Free
    <2> QED
      BY <1>2, <2>1, <2>2 DEF Inv, Claimed, SameFields
  <1>6. Listed'
    BY DEF Inv, Listed, SameFields, TypeOK
  <1>7. RunBy'
    <2> SUFFICES ASSUME NEW d \in Ids, NEW j \in Indices, Under(d, j)'
                 PROVE  /\ task'[d][j].by \in Workers \cup Ids
                        /\ task'[d][j].by \in Workers => worker'[task'[d][j].by] = "busy"
                        /\ task'[d][j].by \in Ids => /\ batch'[task'[d][j].by].at = "busy"
                                                     /\ batch'[task'[d][j].by].looped => task'[d][j].by = d
                        /\ batch'[d].looped => task'[d][j].by = d /\ task'[d][j].at # "count"
      BY DEF RunBy
    <2>1. Under(d, j) /\ task'[d][j].by = task[d][j].by
      BY <1>2
    <2>2. batch[d].looped => task'[d][j].at # "count"
      BY <1>1, <2>1 DEF Inv, RunBy
    <2>3. task[d][j].by \in Ids => /\ batch'[task[d][j].by].at = batch[task[d][j].by].at
                                   /\ batch'[task[d][j].by].looped = batch[task[d][j].by].looped
      BY DEF SameFields
    <2>4. batch'[d].looped = batch[d].looped
      BY DEF SameFields
    <2>5. task[d][j].by \in Workers => worker[task[d][j].by] = "busy"
      BY <2>1 DEF Inv, RunBy
    <2>6. /\ task[d][j].by \in Workers \cup Ids
          /\ task[d][j].by \in Ids => /\ batch[task[d][j].by].at = "busy"
                                      /\ batch[task[d][j].by].looped => task[d][j].by = d
          /\ batch[d].looped => task[d][j].by = d
      BY <2>1 DEF Inv, RunBy
    <2> QED
      BY <2>1, <2>2, <2>3, <2>4, <2>5, <2>6
  <1>8. RunByOne'
    BY <1>2 DEF Inv, RunByOne
  <1>9. ForkedFrom'
    <2>1. \A d \in Ids, j \in Indices : task[d][j].at = "forked" => task'[d][j].at = "forked"
      BY <1>1
    <2>2. \A d \in Ids : batch[d].from \in Ids \cup {Caller}
      BY DEF Inv, TypeOK, Batches
    <2> QED
      BY <2>1, <2>2 DEF Inv, ForkedFrom, Open, SameFields
  <1>10. ForkedOne'
    BY DEF Inv, ForkedOne, Open, SameFields
  <1>11. Counted'
    <2>1. \A d \in Ids : Left(d)' = Left(d)
      BY <1>1 DEF Left, SameFields, Under
    <2> QED
      BY <2>1 DEF Inv, Counted, SameFields
  <1>12. Ended'
    BY <1>2 DEF Inv, Ended, SameFields
  <1> QED
    BY <1>4, <1>5, <1>6, <1>7, <1>8, <1>9, <1>10, <1>11, <1>12 DEF Kept

\* A body that is over, and the thread goes back to what it ran the task by.
LEMMA BodyOver ==
  ASSUME Inv, NEW b \in Ids, NEW i \in Indices, NEW a \in {"loop", "return", "look"},
         Under(b, i), task[b][i].at # "forked", task' = Closed(b, i),
         ~batch[b].looped => a = "look",
         batch[b].looped => a \in {"loop", "return"},
         a = "return" => batch'[b].error,
         batch' \in [Ids -> Batches],
         \A d \in Ids :
           /\ batch'[d].from = batch[d].from /\ batch'[d].nth = batch[d].nth
           /\ batch'[d].looped = batch[d].looped /\ batch'[d].count = batch[d].count
           /\ batch'[d].next = batch[d].next
           /\ batch[d].error => batch'[d].error
           /\ batch'[d].at = IF d = task[b][i].by THEN a ELSE batch[d].at
           /\ batch'[d].remaining = IF d = b /\ ~batch[b].looped THEN batch[d].remaining - 1
                                    ELSE batch[d].remaining
           /\ d # b /\ d # task[b][i].by => batch'[d] = batch[d],
         \A w \in Workers : w # task[b][i].by => worker'[w] = worker[w],
         UNCHANGED <<made, batches, caller>>
  PROVE  Kept
  <1> USE BoundsAssumption, ThreadsAssumption
  <1> DEFINE by == task[b][i].by
  <1>1. /\ task'[b][i].at = "done" /\ task'[b][i].hits = task[b][i].hits
        /\ \A d \in Ids, j \in Indices : ~(d = b /\ j = i) => task'[d][j] = task[d][j]
    BY TaskOver
  <1>2. /\ by \in Workers \cup Ids
        /\ by \in Ids => batch[by].at = "busy" /\ (batch[by].looped => by = b)
        /\ batch[b].looped => by = b
    BY DEF Inv, RunBy
  <1>3. \A d \in Ids, j \in Indices :
          Under(d, j)' => /\ Under(d, j) /\ task'[d][j] = task[d][j]
                          /\ task[d][j].by # by
    BY <1>1 DEF Under, Inv, RunByOne
  <1>4. made \in Nat /\ \A d \in Ids : d \in Nat
    BY DEF Inv, TypeOK, Ids
  <1>5. b <= made /\ (by \in Ids => by <= made)
    <2>1. batch[b].next \in Nat /\ i \in Nat
      BY DEF Inv, TypeOK, Batches, Indices
    <2>2. batch[b] # Unmade
      BY <2>1, UnderLeft DEF Unmade
    <2>3. by \in Ids => batch[by] # Unmade
      BY <1>2 DEF Unmade
    <2> QED
      BY <1>4, <2>2, <2>3 DEF Inv, Made
  <1> HIDE DEF by
  <1>6. Made'
    <2> SUFFICES ASSUME NEW d \in Ids
                 PROVE  /\ d > made => batch'[d] = Unmade
                        /\ d <= made => batch'[d].at # "none"
                        /\ batch'[d].looped => batch'[d].at \in {"loop", "busy", "return", "over"}
                        /\ ~batch'[d].looped => batch'[d].at # "loop"
      BY DEF Made
    <2>1. CASE d = by
      BY <1>2, <1>4, <1>5, <2>1 DEF by
    <2>2. CASE d # by /\ d = b
      BY <1>2, <1>4, <1>5, <2>2 DEF Inv, Made, by
    <2>3. CASE d # by /\ d # b
      BY <2>3 DEF Inv, Made, by
    <2> QED
      BY <2>1, <2>2, <2>3
  <1>7. Claimed'
    <2>1. i < batch[b].next
      BY UnderLeft
    <2> SUFFICES ASSUME NEW d \in Ids, NEW j \in Indices
                 PROVE  /\ batch'[d].next <= batch'[d].count
                        /\ j < batch'[d].next => task'[d][j].at # "free" /\ task'[d][j].hits = 1
                        /\ j >= batch'[d].next => task'[d][j] = Free
      BY <2>1 DEF Claimed
    <2>2. CASE d = b /\ j = i
      <3>1. batch[b] \in Batches
        BY DEF Inv, TypeOK
      <3>2. batch[b].next \in Int /\ i \in Int
        BY <3>1 DEF Batches, Indices
      <3>3. ~(i >= batch[b].next)
        BY <2>1, <3>2
      <3>4. task[b][i].hits = 1 /\ batch[b].next <= batch[b].count
        BY <2>1 DEF Inv, Claimed
      <3> QED
        BY <1>1, <2>2, <3>3, <3>4
    <2>3. CASE ~(d = b /\ j = i)
      BY <1>1, <2>3 DEF Inv, Claimed
    <2> QED
      BY <2>2, <2>3
  <1>8. Listed'
    BY <1>2 DEF Inv, Listed, TypeOK, by
  <1>9. RunBy'
    <2> SUFFICES ASSUME NEW d \in Ids, NEW j \in Indices, Under(d, j)'
                 PROVE  /\ task'[d][j].by \in Workers \cup Ids
                        /\ task'[d][j].by \in Workers => worker'[task'[d][j].by] = "busy"
                        /\ task'[d][j].by \in Ids => /\ batch'[task'[d][j].by].at = "busy"
                                                     /\ batch'[task'[d][j].by].looped => task'[d][j].by = d
                        /\ batch'[d].looped => task'[d][j].by = d /\ task'[d][j].at # "count"
      BY DEF RunBy
    <2>1. Under(d, j) /\ task'[d][j] = task[d][j] /\ task[d][j].by # by
      BY <1>3
    <2> QED
      BY <2>1 DEF Inv, RunBy, by
  <1>10. RunByOne'
    BY <1>3 DEF Inv, RunByOne
  <1>11. ForkedFrom'
    <2>1. \A d \in Ids, j \in Indices : task[d][j].at = "forked" => task'[d][j].at = "forked"
      BY <1>1
    <2>2. \A d \in Ids : batch[d].from \in Ids \cup {Caller}
      BY DEF Inv, TypeOK, Batches
    <2>3. \A d \in Ids : Open(d)' <=> Open(d)
      BY <1>2 DEF Open, by
    <2> QED
      BY <2>1, <2>2, <2>3 DEF Inv, ForkedFrom
  <1>12. ForkedOne'
    <2>1. \A d \in Ids : Open(d)' <=> Open(d)
      BY <1>2 DEF Open, by
    <2> QED
      BY <2>1 DEF Inv, ForkedOne
  <1>13. Counted'
    <2> SUFFICES ASSUME NEW d \in Ids, ~batch[d].looped
                 PROVE  batch'[d].remaining = Cardinality(Left(d)')
      BY DEF Counted
    <2>1. CASE d = b
      <3>1. Left(b)' = Left(b) \ {i}
        BY <1>1 DEF Left
      <3>2. i \in Left(b) /\ IsFiniteSet(Left(b))
        BY UnderLeft
      <3>3. Cardinality(Left(b) \ {i}) = Cardinality(Left(b)) - 1
        BY <3>2, FS_RemoveElement
      <3> QED
        BY <2>1, <3>1, <3>3 DEF Inv, Counted
    <2>2. CASE d # b
      <3>1. Left(d)' = Left(d)
        BY <1>1, <2>2 DEF Left
      <3> QED
        BY <2>2, <3>1 DEF Inv, Counted
    <2> QED
      BY <2>1, <2>2
  <1>14. Ended'
    <2> SUFFICES ASSUME NEW d \in Ids
                 PROVE  /\ ~batch'[d].looped /\ batch'[d].at \in {"erase", "return", "over"} => batch'[d].remaining = 0
                        /\ batch'[d].looped /\ batch'[d].at # "busy" => \A j \in Indices : ~Under(d, j)'
                        /\ batch'[d].looped /\ batch'[d].at \in {"return", "over"} =>
                             batch'[d].next = batch'[d].count \/ batch'[d].error
      BY DEF Ended
    <2>1. batch[d].looped => \A j \in Indices : Under(d, j)' => task[d][j].by = d /\ d # by
      BY <1>3 DEF Inv, RunBy
    <2>2. ~batch[b].looped => batch[b].remaining # 0
      BY UnderLeft
    <2>3. CASE d = by
      BY <1>2, <2>1, <2>3 DEF by
    <2>4. CASE d # by /\ ~batch[d].looped
      BY <1>2, <2>2, <2>4 DEF Inv, Ended, by
    <2>5. CASE d # by /\ batch[d].looped
      BY <1>2, <1>3, <2>5 DEF Inv, Ended, by
    <2> QED
      BY <2>3, <2>4, <2>5
  <1> QED
    BY <1>6, <1>7, <1>8, <1>9, <1>10, <1>11, <1>12, <1>13, <1>14 DEF Kept

\* A body ends, or throws.
LEMMA BodyInv ==
  ASSUME Inv, NEW b \in Ids, NEW i \in Indices, BodyEnds(b, i) \/ Throw(b, i)
  PROVE  Kept
  <1> USE BoundsAssumption, ThreadsAssumption
  <1>1. batch \in [Ids -> Batches] /\ batch[b] \in Batches
    BY DEF Inv, TypeOK
  <1>2. Under(b, i) /\ task[b][i].at # "forked"
    BY DEF Under, BodyEnds, Finish, Catch, Count, Throw
  <1>3. /\ task[b][i].by \in Workers \cup Ids
        /\ task[b][i].by \in Ids => batch[task[b][i].by].at = "busy"
        /\ batch[b].looped => task[b][i].by = b /\ task[b][i].at # "count"
    BY <1>2 DEF Inv, RunBy
  <1>4. CASE Throw(b, i)
    <2>1. task' = [task EXCEPT ![b][i].at = "threw"] /\ UNCHANGED <<made, batches, worker, caller, batch>>
      BY <1>4 DEF Throw
    <2> QED
      BY <1>2, <2>1, BodyGoesOn DEF SameFields
  <1>5. CASE (Finish(b, i) \/ Catch(b, i)) /\ ~batch[b].looped
    <2>1. /\ task' = [task EXCEPT ![b][i].at = "count"] /\ UNCHANGED <<made, batches, worker, caller>>
          /\ batch' = batch \/ batch' = [batch EXCEPT ![b].error = TRUE]
      BY <1>5 DEF Finish, Catch
    <2>2. \A d \in Ids : /\ SameFields(d) /\ batch'[d].at = batch[d].at
                         /\ batch[d].error => batch'[d].error
                         /\ d # b => batch'[d] = batch[d]
      BY <1>1, <2>1 DEF SameFields, Batches
    <2> QED
      BY <1>2, <1>5, <2>1, <2>2, BodyGoesOn
  <1>6. CASE (Finish(b, i) \/ Catch(b, i)) /\ batch[b].looped
    <2>1. PICK a \in {"loop", "return"}, e \in BOOLEAN :
            /\ batch' = [batch EXCEPT ![b] = [@ EXCEPT !.at = a, !.error = e]]
            /\ a = "return" => e
            /\ batch[b].error => e
      <3>1. CASE Finish(b, i)
        <4>1. batch' = [batch EXCEPT ![b] = [@ EXCEPT !.at = "loop", !.error = batch[b].error]]
          BY <1>1, <1>6, <3>1 DEF Finish, Batches
        <4>2. batch[b].error \in BOOLEAN
          BY <1>1 DEF Batches
        <4> QED
          BY <4>1, <4>2
      <3>2. CASE Catch(b, i)
        <4>1. batch' = [batch EXCEPT ![b] = [@ EXCEPT !.at = "return", !.error = TRUE]]
          BY <1>1, <1>6, <3>2, ZenonT(60) DEF Catch, Batches
        <4> QED
          BY <4>1
      <3> QED
        BY <1>6, <3>1, <3>2
    <2>2. task' = Closed(b, i) /\ UNCHANGED <<made, batches, worker, caller>>
      BY <1>6 DEF Finish, Catch
    <2>3. /\ batch'[b] = [batch[b] EXCEPT !.at = a, !.error = e]
          /\ \A d \in Ids \ {b} : batch'[d] = batch[d]
      BY <1>1, <2>1
    <2>4. batch'[b].at = a /\ batch'[b].error = e /\ SameFields(b) /\ batch'[b] \in Batches
      BY <1>1, <2>3 DEF SameFields, Batches
    <2>5. batch' \in [Ids -> Batches]
      BY <1>1, <2>1, <2>4
    <2> QED
      BY <1>2, <1>3, <1>6, <2>1, <2>2, <2>3, <2>4, <2>5, BodyOver DEF SameFields
  <1>7. CASE Count(b, i)
    <2> DEFINE by == task[b][i].by
    <2>1. ~batch[b].looped /\ task' = Closed(b, i) /\ UNCHANGED <<made, batches, caller>>
      BY <1>3, <1>7 DEF Count
    <2>2. batch' \in [Ids -> Batches]
      BY <1>7, BodyType DEF BodyEnds, TypeOK
    <2>3. CASE by \in Workers
      <3>1. batch' = [batch EXCEPT ![b].remaining = @ - 1] /\ worker' = [worker EXCEPT ![by] = "check"]
        BY <1>7, <2>3, ThreadsAssumption DEF Count
      <3>2. /\ batch'[b] = [batch[b] EXCEPT !.remaining = @ - 1]
            /\ \A d \in Ids \ {b} : batch'[d] = batch[d]
        BY <1>1, <3>1
      <3>3. /\ batch'[b].remaining = batch[b].remaining - 1 /\ batch'[b].at = batch[b].at
            /\ batch'[b].error = batch[b].error /\ batch'[b].from = batch[b].from
            /\ batch'[b].nth = batch[b].nth /\ batch'[b].looped = batch[b].looped
            /\ batch'[b].count = batch[b].count /\ batch'[b].next = batch[b].next
        BY <1>1, <3>2 DEF Batches
      <3>4. \A w \in Workers : w # by => worker'[w] = worker[w]
        BY <3>1 DEF Inv, TypeOK
      <3>5. \A d \in Ids : d # by
        BY <2>3
      <3>6. \A d \in Ids :
              /\ batch'[d].from = batch[d].from /\ batch'[d].nth = batch[d].nth
              /\ batch'[d].looped = batch[d].looped /\ batch'[d].count = batch[d].count
              /\ batch'[d].next = batch[d].next
              /\ batch[d].error => batch'[d].error
              /\ batch'[d].at = IF d = task[b][i].by THEN "look" ELSE batch[d].at
              /\ batch'[d].remaining = IF d = b /\ ~batch[b].looped THEN batch[d].remaining - 1
                                       ELSE batch[d].remaining
              /\ d # b /\ d # task[b][i].by => batch'[d] = batch[d]
        BY <2>1, <3>2, <3>3, <3>5
      <3> QED
        BY <1>2, <2>1, <2>2, <3>4, <3>6, BodyOver
    <2>4. CASE by \in Ids
      <3>1. /\ batch' = [[batch EXCEPT ![b].remaining = @ - 1] EXCEPT ![by].at = "look"]
            /\ UNCHANGED worker
        BY <1>7, <2>4, ThreadsAssumption DEF Count
      <3> DEFINE g == [batch EXCEPT ![b].remaining = @ - 1]
      <3>2. /\ g[b] = [batch[b] EXCEPT !.remaining = @ - 1]
            /\ \A d \in Ids \ {b} : g[d] = batch[d]
            /\ g \in [Ids -> Batches]
        <4>1. batch[b].remaining - 1 \in 0..MaxWidth
          BY <1>1, <1>2, <2>1, UnderLeft, SMTT(30) DEF Batches
        <4> QED
          BY <1>1, <4>1, BatchTypes
      <3>3. \A d \in Ids :
              /\ g[d].remaining = IF d = b THEN batch[d].remaining - 1 ELSE batch[d].remaining
              /\ g[d].at = batch[d].at
              /\ g[d].error = batch[d].error /\ g[d].from = batch[d].from
              /\ g[d].nth = batch[d].nth /\ g[d].looped = batch[d].looped
              /\ g[d].count = batch[d].count /\ g[d].next = batch[d].next
        BY <1>1, <3>2 DEF Batches
      <3>4. batch' = [g EXCEPT ![by].at = "look"]
        BY <3>1
      <3> HIDE DEF g
      <3>5. /\ batch'[by] = [g[by] EXCEPT !.at = "look"]
            /\ \A d \in Ids \ {by} : batch'[d] = g[d]
            /\ g[by] \in Batches
        BY <2>4, <3>2, <3>4
      <3>6. \A d \in Ids :
              /\ batch'[d].at = IF d = by THEN "look" ELSE g[d].at
              /\ batch'[d].error = g[d].error /\ batch'[d].from = g[d].from
              /\ batch'[d].nth = g[d].nth /\ batch'[d].looped = g[d].looped
              /\ batch'[d].count = g[d].count /\ batch'[d].next = g[d].next
              /\ batch'[d].remaining = g[d].remaining
        BY <2>4, <3>5 DEF Batches
      <3>7. \A d \in Ids :
              /\ batch'[d].from = batch[d].from /\ batch'[d].nth = batch[d].nth
              /\ batch'[d].looped = batch[d].looped /\ batch'[d].count = batch[d].count
              /\ batch'[d].next = batch[d].next
              /\ batch[d].error => batch'[d].error
              /\ batch'[d].at = IF d = task[b][i].by THEN "look" ELSE batch[d].at
              /\ batch'[d].remaining = IF d = b /\ ~batch[b].looped THEN batch[d].remaining - 1
                                       ELSE batch[d].remaining
              /\ d # b /\ d # task[b][i].by => batch'[d] = batch[d]
        BY <2>1, <3>2, <3>3, <3>5, <3>6
      <3>8. \A w \in Workers : w # task[b][i].by => worker'[w] = worker[w]
        BY <3>1
      <3> QED
        BY <1>2, <2>1, <2>2, <3>7, <3>8, BodyOver
    <2> QED
      BY <1>3, <2>3, <2>4
  <1> QED
    BY <1>4, <1>5, <1>6, <1>7 DEF BodyEnds

-----------------------------------------------------------------------------

LEMMA UpTo ==
  ASSUME NEW n \in Nat
  PROVE  Cardinality(0..n - 1) = n
  BY FS_Interval

\* A new batch: its calls are free, and what forked it waited for no other.
LEMMA ParallelForInv ==
  ASSUME Inv, NEW from \in Ids \cup {Caller}, NEW nth \in Nat, NEW n \in Sizes,
         NEW level \in 0..MaxSplitLevels + 1, NEW split \in Nat,
         ParallelFor(from, nth, n, level, split),
         from = Caller => caller' = "calling",
         from # Caller => nth \in Indices /\ task'[from][nth].at = "forked" /\ from <= made,
         \A d \in Ids : ~(Open(d) /\ batch[d].from = from /\ (from = Caller \/ batch[d].nth = nth)),
         caller = "calling" => caller' = "calling",
         task' \in [Ids -> [Indices -> Tasks]],
         \A d \in Ids, j \in Indices :
           /\ task'[d][j].by = task[d][j].by /\ task'[d][j].hits = task[d][j].hits
           /\ task'[d][j] # task[d][j] => /\ task'[d][j].at = "forked"
                                          /\ task[d][j].at = "run",
         UNCHANGED worker
  PROVE  Kept
  <1> USE BoundsAssumption, ThreadsAssumption
  <1>1. /\ made' = made + 1 /\ made + 1 \in Ids /\ made \in Nat
        /\ batch' \in [Ids -> Batches] /\ batch \in [Ids -> Batches]
        /\ batches \subseteq Ids
    BY ParallelForType DEF Inv, TypeOK
  <1>0. PICK new \in Ids : new = made + 1
    BY <1>1
  <1>2. PICK at \in {"loop", "notify"} :
          /\ batch' = [batch EXCEPT ![new] = Opened(from, nth, n, level, split, at)]
          /\ batches' = IF at = "loop" THEN batches ELSE batches \cup {new}
    BY <1>0 DEF ParallelFor
  <1>3. /\ batch'[new] = Opened(from, nth, n, level, split, at)
        /\ \A d \in Ids \ {new} : batch'[d] = batch[d]
    BY <1>1, <1>2
  <1>4. /\ batch'[new].at = at /\ batch'[new].from = from /\ batch'[new].nth = nth
        /\ batch'[new].looped = (at = "loop")
        /\ batch'[new].count = n /\ batch'[new].next = 0 /\ batch'[new].remaining = n
    BY <1>3 DEF Opened
  <1>5. batch[new] = Unmade /\ \A d \in Ids : d \in Nat
    BY <1>0, <1>1 DEF Inv, Made, Ids
  <1>6. n \in 1..MaxWidth
    BY WidthsAssumption
  <1>7. \A j \in Indices : task[new][j] = Free /\ task'[new][j] = Free /\ j \in Nat
    <2>1. batch[new].next = 0
      BY <1>5 DEF Unmade
    <2>2. \A j \in Indices : j \in Nat /\ j >= 0
      BY DEF Indices
    <2>3. \A j \in Indices : task[new][j] = Free
      BY <2>1, <2>2 DEF Inv, Claimed
    <2> QED
      BY <2>2, <2>3 DEF Free
  <1>8. \A d \in Ids, j \in Indices : Under(d, j)' => d # new /\ Under(d, j)
    BY <1>7 DEF Under, Free
  <1>9. ~Open(new) /\ batch[new].at = "none"
    BY <1>5 DEF Open, Unmade
  <1>10. Made'
    <2> SUFFICES ASSUME NEW d \in Ids
                 PROVE  /\ d > made' => batch'[d] = Unmade
                        /\ d <= made' => batch'[d].at # "none"
                        /\ batch'[d].looped => batch'[d].at \in {"loop", "busy", "return", "over"}
                        /\ ~batch'[d].looped => batch'[d].at # "loop"
      BY DEF Made
    <2>1. CASE d = new
      <3>1. ~(d > made')
        BY <1>0, <1>1, <1>5, <2>1
      <3> QED
        BY <1>4, <2>1, <3>1
    <2>2. CASE d # new
      <3>1. batch'[d] = batch[d]
        BY <1>3, <2>2
      <3>2. d > made' => d > made
        BY <1>1, <1>5
      <3>3. d <= made' => d <= made
        BY <1>0, <1>1, <1>5, <2>2
      <3> QED
        BY <3>1, <3>2, <3>3 DEF Inv, Made
    <2> QED
      BY <2>1, <2>2
  <1>11. Claimed'
    <2> SUFFICES ASSUME NEW d \in Ids
                 PROVE  /\ batch'[d].next <= batch'[d].count
                        /\ \A j \in Indices :
                             /\ j < batch'[d].next => task'[d][j].at # "free" /\ task'[d][j].hits = 1
                             /\ j >= batch'[d].next => task'[d][j] = Free
      BY DEF Claimed
    <2>1. CASE d = new
      BY <1>4, <1>6, <1>7, <2>1
    <2>2. CASE d # new
      <3>1. batch'[d] = batch[d]
        BY <1>3, <2>2
      <3>2. \A j \in Indices : task[d][j].at # "free" => task'[d][j].at # "free"
        OBVIOUS
      <3>3. \A j \in Indices : task[d][j] = Free => task'[d][j] = Free
        BY DEF Free
      <3> QED
        BY <3>1, <3>2, <3>3 DEF Inv, Claimed
    <2> QED
      BY <2>1, <2>2
  <1>12. Listed'
    <2> SUFFICES ASSUME NEW d \in batches'
                 PROVE  /\ batch'[d].at \in {"notify", "look", "help", "busy", "erase"}
                        /\ ~batch'[d].looped
      BY DEF Listed
    <2>1. CASE d = new
      <3>1. new \notin batches
        BY <1>9 DEF Inv, Listed
      <3> QED
        BY <1>2, <1>4, <2>1, <3>1
    <2>2. CASE d # new
      BY <1>1, <1>2, <1>3, <2>2 DEF Inv, Listed
    <2> QED
      BY <2>1, <2>2
  <1>13. RunBy'
    <2> SUFFICES ASSUME NEW d \in Ids, NEW j \in Indices, Under(d, j)'
                 PROVE  /\ task'[d][j].by \in Workers \cup Ids
                        /\ task'[d][j].by \in Workers => worker'[task'[d][j].by] = "busy"
                        /\ task'[d][j].by \in Ids => /\ batch'[task'[d][j].by].at = "busy"
                                                     /\ batch'[task'[d][j].by].looped => task'[d][j].by = d
                        /\ batch'[d].looped => task'[d][j].by = d /\ task'[d][j].at # "count"
      BY DEF RunBy
    <2>1. d # new /\ Under(d, j) /\ task'[d][j].by = task[d][j].by
      BY <1>8
    <2>2. batch'[d] = batch[d]
      BY <1>3, <2>1
    <2>3. task'[d][j].at = "count" => task[d][j].at = "count"
      OBVIOUS
    <2>4. /\ task[d][j].by \in Workers \cup Ids
          /\ task[d][j].by \in Workers => worker[task[d][j].by] = "busy"
          /\ task[d][j].by \in Ids => /\ batch[task[d][j].by].at = "busy"
                                      /\ batch[task[d][j].by].looped => task[d][j].by = d
          /\ batch[d].looped => task[d][j].by = d /\ task[d][j].at # "count"
      BY <2>1 DEF Inv, RunBy
    <2>5. task[d][j].by \in Ids => batch'[task[d][j].by] = batch[task[d][j].by]
      BY <1>3, <1>9, <2>4
    <2> QED
      BY <2>1, <2>2, <2>3, <2>4, <2>5
  <1>14. RunByOne'
    BY <1>8 DEF Inv, RunByOne
  <1>15. ForkedFrom'
    <2> SUFFICES ASSUME NEW d \in Ids, Open(d)'
                 PROVE  /\ batch'[d].from = Caller => caller' = "calling"
                        /\ batch'[d].from # Caller =>
                             /\ batch'[d].nth \in Indices
                             /\ task'[batch'[d].from][batch'[d].nth].at = "forked"
                             /\ batch'[d].from < d
      BY DEF ForkedFrom
    <2>1. CASE d = new
      BY <1>0, <1>1, <1>4, <1>5, <2>1
    <2>2. CASE d # new
      <3>1. batch'[d] = batch[d] /\ Open(d)
        BY <1>3, <2>2 DEF Open
      <3>2. batch[d].from \in Ids \cup {Caller}
        BY <1>1 DEF Batches
      <3>3. \A e \in Ids, j \in Indices : task[e][j].at = "forked" => task'[e][j].at = "forked"
        OBVIOUS
      <3> QED
        BY <3>1, <3>2, <3>3 DEF Inv, ForkedFrom
    <2> QED
      BY <2>1, <2>2
  <1>16. ForkedOne'
    <2>1. \A d \in Ids : Open(d)' /\ d # new => Open(d) /\ batch'[d] = batch[d]
      BY <1>3 DEF Open
    <2>2. \A d \in Ids : Open(d)' /\ d # new =>
            ~(batch'[d].from = from /\ (from = Caller \/ batch'[d].nth = nth))
      BY <2>1
    <2>3. \A d, e \in Ids : /\ d # new /\ e # new /\ Open(d)' /\ Open(e)' /\ batch'[d].from = batch'[e].from
                            /\ batch'[d].from = Caller \/ batch'[d].nth = batch'[e].nth
                            => d = e
      BY <2>1 DEF Inv, ForkedOne
    <2> QED
      BY <1>4, <2>2, <2>3 DEF ForkedOne
  <1>17. Counted'
    <2> SUFFICES ASSUME NEW d \in Ids, ~batch'[d].looped
                 PROVE  batch'[d].remaining = Cardinality(Left(d)')
      BY DEF Counted
    <2>1. CASE d = new
      <3>1. Left(d)' = {j \in Indices : j < n /\ Free.at # "done"}
        BY <1>4, <1>7, <2>1 DEF Left
      <3>2. Left(d)' = 0..n - 1
        BY <1>6, <3>1 DEF Free, Indices
      <3>3. Cardinality(0..n - 1) = n
        BY <1>6, UpTo
      <3> QED
        BY <1>4, <2>1, <3>2, <3>3
    <2>2. CASE d # new
      <3>1. Left(d)' = Left(d)
        BY <1>3, <2>2 DEF Left
      <3> QED
        BY <1>3, <2>2, <3>1 DEF Inv, Counted
    <2> QED
      BY <2>1, <2>2
  <1>18. Ended'
    <2> SUFFICES ASSUME NEW d \in Ids
                 PROVE  /\ ~batch'[d].looped /\ batch'[d].at \in {"erase", "return", "over"} => batch'[d].remaining = 0
                        /\ batch'[d].looped /\ batch'[d].at # "busy" => \A j \in Indices : ~Under(d, j)'
                        /\ batch'[d].looped /\ batch'[d].at \in {"return", "over"} =>
                             batch'[d].next = batch'[d].count \/ batch'[d].error
      BY DEF Ended
    <2>1. CASE d = new
      BY <1>4, <1>8, <2>1
    <2>2. CASE d # new
      BY <1>3, <1>8, <2>2 DEF Inv, Ended
    <2> QED
      BY <2>1, <2>2
  <1> QED
    BY <1>10, <1>11, <1>12, <1>13, <1>14, <1>15, <1>16, <1>17, <1>18 DEF Kept

\* A task forks.
LEMMA ForkInv ==
  ASSUME Inv, NEW b \in Ids, NEW i \in Indices, Fork(b, i)
  PROVE  Kept
  <1> USE BoundsAssumption, ThreadsAssumption
  <1>1. PICK children \in Widths, n \in Sizes :
          /\ Forks(batch[b].split, batch[b].level, children)
          /\ ParallelFor(b, i, n, batch[b].level + 1, ChildSplit(batch[b].split, children))
    BY DEF Fork
  <1>2. batch[b].split \in Nat /\ batch[b].level + 1 \in 0..MaxSplitLevels + 1
    BY <1>1 DEF Inv, TypeOK, Batches, Forks
  <1>3. ChildSplit(batch[b].split, children) \in Nat
    BY <1>2, SplitType
  <1>4. i \in Nat /\ b \in Ids \cup {Caller} /\ b # Caller
    BY DEF Indices
  <1>5. /\ task' = [task EXCEPT ![b][i].at = "forked"] /\ task[b][i].at = "run"
        /\ UNCHANGED <<worker, caller>>
    BY DEF Fork
  <1>6. /\ task'[b][i].at = "forked" /\ task'[b][i].by = task[b][i].by /\ task'[b][i].hits = task[b][i].hits
        /\ \A d \in Ids, j \in Indices : ~(d = b /\ j = i) => task'[d][j] = task[d][j]
    BY <1>5, TaskSet
  <1>7. task' \in [Ids -> [Indices -> Tasks]]
    BY <1>5, TaskTypes
  <1>8. b <= made
    <2>1. Under(b, i)
      BY <1>5 DEF Under
    <2>2. batch[b].next \in Nat /\ made \in Nat /\ b \in Nat
      BY DEF Inv, TypeOK, Batches, Ids
    <2>3. batch[b].next # 0
      BY <1>4, <2>1, <2>2, UnderLeft
    <2>4. batch[b] # Unmade
      BY <2>3 DEF Unmade
    <2> QED
      BY <2>2, <2>4 DEF Inv, Made
  <1>9. \A d \in Ids : ~(Open(d) /\ batch[d].from = b /\ batch[d].nth = i)
    BY <1>4, <1>5 DEF Inv, ForkedFrom
  <1> QED
    BY <1>1, <1>2, <1>3, <1>4, <1>5, <1>6, <1>7, <1>8, <1>9, ParallelForInv, SMTT(30)

\* The owner calls.
LEMMA CallInv ==
  ASSUME Inv, Call
  PROVE  Kept
  <1> USE BoundsAssumption, ThreadsAssumption
  <1>1. PICK children \in Widths, n \in Sizes, s \in Nat : ParallelFor(Caller, 0, n, 1, s)
    <2>1. PICK children \in Widths, n \in Sizes :
            \/ ParallelFor(Caller, 0, n, 1, ChildSplit(SplitBudget, children))
            \/ ParallelFor(Caller, 0, n, 1, 1)
      BY DEF Call
    <2>2. ChildSplit(SplitBudget, children) \in Nat
      BY SplitType
    <2> QED
      BY <2>1, <2>2
  <1>2. caller = "idle" /\ caller' = "calling" /\ UNCHANGED <<task, worker>>
    BY DEF Call
  <1>3. \A d \in Ids : ~(Open(d) /\ batch[d].from = Caller)
    BY <1>2 DEF Inv, ForkedFrom
  <1>4. task' \in [Ids -> [Indices -> Tasks]]
    BY <1>2 DEF Inv, TypeOK
  <1>5. 1 \in 0..MaxSplitLevels + 1 /\ 0 \in Nat /\ Caller \in Ids \cup {Caller}
    OBVIOUS
  <1> QED
    BY <1>1, <1>2, <1>3, <1>4, <1>5, ParallelForInv

\* What a claim does to the batch it is from and to whoever takes it.
LEMMA ClaimedFields ==
  ASSUME Inv, NEW c \in Ids, NEW by \in Workers \cup Ids, batch[c].next < batch[c].count,
         \/ by \in Workers /\ batch' = [batch EXCEPT ![c].next = @ + 1]
         \/ by \in Ids /\ batch' = [batch EXCEPT ![c].next = @ + 1, ![by].at = "busy"]
  PROVE  /\ batch' \in [Ids -> Batches]
         /\ \A d \in Ids :
              /\ batch'[d].from = batch[d].from /\ batch'[d].nth = batch[d].nth
              /\ batch'[d].looped = batch[d].looped /\ batch'[d].count = batch[d].count
              /\ batch'[d].remaining = batch[d].remaining /\ batch'[d].error = batch[d].error
              /\ d # c /\ d # by => batch'[d] = batch[d]
              /\ batch'[d].next = IF d = c THEN batch[d].next + 1 ELSE batch[d].next
              /\ batch'[d].at = IF d = by THEN "busy" ELSE batch[d].at
  <1> USE BoundsAssumption, ThreadsAssumption
  <1> DEFINE g == [batch EXCEPT ![c].next = @ + 1]
  <1>1. batch \in [Ids -> Batches] /\ batch[c] \in Batches
    BY DEF Inv, TypeOK
  <1>2. batch[c].next + 1 \in 0..MaxWidth
    <2>1. batch[c].next \in Nat /\ batch[c].count \in 0..MaxWidth
      BY <1>1 DEF Batches
    <2> QED
      BY <2>1
  <1>3. /\ g[c] = [batch[c] EXCEPT !.next = @ + 1]
        /\ \A d \in Ids \ {c} : g[d] = batch[d]
    BY <1>1
  <1>4. g \in [Ids -> Batches]
    BY <1>2, BatchSet
  <1>5. \A d \in Ids :
          /\ g[d].from = batch[d].from /\ g[d].nth = batch[d].nth
          /\ g[d].looped = batch[d].looped /\ g[d].count = batch[d].count
          /\ g[d].remaining = batch[d].remaining /\ g[d].error = batch[d].error
          /\ g[d].next = IF d = c THEN batch[d].next + 1 ELSE batch[d].next
          /\ g[d].at = batch[d].at
    BY <1>1, <1>3 DEF Batches
  <1>6. CASE by \in Workers /\ batch' = g
    <2>1. \A d \in Ids : d # by
      BY <1>6
    <2> HIDE DEF g
    <2> QED
      BY <1>3, <1>4, <1>5, <1>6, <2>1
  <1>7. CASE by \in Ids /\ batch' = [g EXCEPT ![by].at = "busy"]
    <2> HIDE DEF g
    <2>1. /\ batch'[by] = [g[by] EXCEPT !.at = "busy"] /\ g[by] \in Batches
          /\ \A d \in Ids \ {by} : batch'[d] = g[d]
      BY <1>4, <1>7
    <2>2. \A d \in Ids :
            /\ batch'[d].from = g[d].from /\ batch'[d].nth = g[d].nth
            /\ batch'[d].looped = g[d].looped /\ batch'[d].count = g[d].count
            /\ batch'[d].remaining = g[d].remaining /\ batch'[d].error = g[d].error
            /\ batch'[d].next = g[d].next
            /\ batch'[d].at = IF d = by THEN "busy" ELSE g[d].at
      BY <2>1 DEF Batches
    <2>3. batch'[by] \in Batches
      BY <2>1 DEF Batches
    <2>4. batch' \in [Ids -> Batches]
      BY <1>4, <1>7, <2>1, <2>3
    <2> QED
      BY <1>3, <1>5, <2>1, <2>2, <2>4
  <1> QED
    BY <1>6, <1>7

\* What is claimed is a listed batch's.
LEMMA NewestListed ==
  ASSUME Inv, NEW c \in Ids, Newest(c)
  PROVE  batch[c].next < batch[c].count /\ ~batch[c].looped /\ c <= made
  <1>1. c \in batches /\ batch[c].next < batch[c].count
    BY DEF Newest, Pending
  <1>2. ~batch[c].looped /\ Open(c)
    BY <1>1 DEF Inv, Listed, Open
  <1> QED
    BY <1>1, <1>2, OpenMade

\* A step of parallel_for.
LEMMA WaitInv ==
  ASSUME Inv, NEW b \in Ids, WaitStep(b)
  PROVE  Kept
  <1> USE BoundsAssumption, ThreadsAssumption
  <1>1. CASE Notify(b)
    <2>1. \A w \in Workers : worker[w] = "busy" => worker'[w] = "busy"
      BY <1>1 DEF Notify, Notified, Awake
    <2> QED
      BY <1>1, <2>1, MovedInv DEF Notify
  <1>2. CASE Look(b)
    BY <1>2, MovedInv DEF Look, Drained
  <1>3. CASE Help(b) /\ ~MayHelp(b)
    BY <1>3, MovedInv DEF Help
  <1>4. CASE Help(b) /\ MayHelp(b)
    <2>1. PICK c \in Ids : /\ Newest(c) /\ Begin(c, b)
                           /\ batch' = [batch EXCEPT ![c].next = @ + 1, ![b].at = "busy"]
      BY <1>4 DEF Help
    <2>2. batch[c].next < batch[c].count /\ ~batch[c].looped /\ c <= made
      BY <2>1, NewestListed
    <2>3. batch[b].at = "help" /\ UNCHANGED <<made, caller, batches, worker>>
      BY <1>4 DEF Help
    <2>4. ~batch[b].looped /\ b <= made
      BY <2>3, OpenMade DEF Inv, Made, Open
    <2>5. b \notin Workers
      OBVIOUS
    <2>6. /\ batch' \in [Ids -> Batches]
          /\ \A d \in Ids :
               /\ batch'[d].from = batch[d].from /\ batch'[d].nth = batch[d].nth
               /\ batch'[d].looped = batch[d].looped /\ batch'[d].count = batch[d].count
               /\ batch'[d].remaining = batch[d].remaining /\ batch'[d].error = batch[d].error
               /\ d # c /\ d # b => batch'[d] = batch[d]
               /\ batch'[d].next = IF d = c THEN batch[d].next + 1 ELSE batch[d].next
               /\ batch'[d].at = IF d = b THEN "busy" ELSE batch[d].at
      <3>1. b \in Workers \cup Ids
        OBVIOUS
      <3>2. \/ b \in Workers /\ batch' = [batch EXCEPT ![c].next = @ + 1]
            \/ b \in Ids /\ batch' = [batch EXCEPT ![c].next = @ + 1, ![b].at = "busy"]
        BY <2>1
      <3> QED
        BY <2>2, <3>1, <3>2, ClaimedFields
    <2> QED
      BY <2>1, <2>2, <2>3, <2>4, <2>5, <2>6, BeginInv
  <1>5. CASE Erase(b)
    BY <1>5, MovedInv DEF Erase
  <1>6. CASE Iterate(b)
    <2>1. batch[b].looped /\ b <= made /\ b \notin batches /\ batch[b].at = "loop"
      BY <1>6, OpenMade DEF Iterate, Inv, Made, Open, Listed
    <2>2. CASE batch[b].next < batch[b].count
      <3>1. batch[b].next # batch[b].count
        <4>1. batch[b].next \in Nat /\ batch[b].count \in Nat
          BY DEF Inv, TypeOK, Batches
        <4> QED
          BY <2>2, <4>1
      <3>2. /\ Begin(b, b) /\ batch' = [batch EXCEPT ![b].next = @ + 1, ![b].at = "busy"]
            /\ UNCHANGED <<made, caller, batches, worker>>
        BY <1>6, <3>1 DEF Iterate
      <3>3. b \notin Workers
        OBVIOUS
      <3> QED
        BY <2>1, <2>2, <3>2, <3>3, ClaimedFields, BeginInv, ZenonT(60)
    <2>3. CASE ~(batch[b].next < batch[b].count)
      BY <1>6, <2>1, <2>3, MovedInv DEF Iterate
    <2> QED
      BY <2>2, <2>3
  <1>7. CASE Return(b)
    BY <1>7, ReturnInv
  <1> QED
    BY <1>1, <1>2, <1>3, <1>4, <1>5, <1>6, <1>7 DEF WaitStep

\* Nothing but a thread moves, and none that is busy.
LEMMA ThreadInv ==
  ASSUME Inv, UNCHANGED <<made, batch, batches, task>>,
         caller = "calling" => caller' = "calling",
         \A w \in Workers : worker[w] = "busy" => worker'[w] = "busy"
  PROVE  Kept
  <1>1. Made' /\ Claimed' /\ Listed' /\ RunByOne' /\ ForkedOne' /\ Ended'
    BY DEF Inv, Made, Claimed, Listed, RunByOne, ForkedOne, Ended, Under, Open
  <1>2. RunBy'
    BY DEF Inv, RunBy, Under
  <1>3. ForkedFrom'
    BY DEF Inv, ForkedFrom, Open
  <1>4. Counted'
    BY DEF Inv, Counted, Left
  <1> QED
    BY <1>1, <1>2, <1>3, <1>4 DEF Kept

\* A worker's step.
LEMMA WorkerInv ==
  ASSUME Inv, NEW w \in Workers, WorkerStep(w) \/ Wake(w)
  PROVE  Kept
  <1> USE BoundsAssumption, ThreadsAssumption
  <1>1. worker \in [Workers -> {"none", "check", "asleep", "busy", "exited"}]
    BY DEF Inv, TypeOK
  <1>2. CASE Exit(w) \/ Sleep(w) \/ Wake(w)
    <2>1. \A v \in Workers : worker[v] = "busy" => worker'[v] = "busy"
      BY <1>1, <1>2 DEF Exit, Sleep, Wake
    <2>2. UNCHANGED <<made, batch, batches, task, caller>>
      BY <1>2 DEF Exit, Sleep, Wake
    <2> QED
      BY <2>1, <2>2, ThreadInv
  <1>3. CASE Take(w)
    <2>1. PICK c \in Ids : Newest(c) /\ Begin(c, w) /\ batch' = [batch EXCEPT ![c].next = @ + 1]
      BY <1>3 DEF Take
    <2>2. batch[c].next < batch[c].count /\ ~batch[c].looped /\ c <= made
      BY <2>1, NewestListed
    <2>3. worker[w] = "check" /\ worker' = [worker EXCEPT ![w] = "busy"]
          /\ UNCHANGED <<made, caller, batches>>
      BY <1>3 DEF Take
    <2>4. worker[w] # "busy" /\ worker'[w] = "busy" /\ \A v \in Workers : v # w => worker'[v] = worker[v]
      BY <1>1, <2>3
    <2>5. w \notin Ids
      OBVIOUS
    <2>6. /\ batch' \in [Ids -> Batches]
          /\ \A d \in Ids :
               /\ batch'[d].from = batch[d].from /\ batch'[d].nth = batch[d].nth
               /\ batch'[d].looped = batch[d].looped /\ batch'[d].count = batch[d].count
               /\ batch'[d].remaining = batch[d].remaining /\ batch'[d].error = batch[d].error
               /\ d # c /\ d # w => batch'[d] = batch[d]
               /\ batch'[d].next = IF d = c THEN batch[d].next + 1 ELSE batch[d].next
               /\ batch'[d].at = IF d = w THEN "busy" ELSE batch[d].at
      BY <2>1, <2>2, ClaimedFields
    <2> QED
      BY <2>1, <2>2, <2>3, <2>4, <2>5, <2>6, BeginInv
  <1> QED
    BY <1>2, <1>3 DEF WorkerStep

\* Every step keeps the invariant.
LEMMA NextInv ==
  ASSUME Inv, [Next]_vars
  PROVE  Inv'
  <1>1. ASSUME Stop \/ Join \/ Gone \/ UNCHANGED vars PROVE Kept
    <2>1. UNCHANGED <<made, batch, batches, task, worker>> /\ (caller = "calling" => caller' = "calling")
      BY <1>1 DEF Stop, Join, Gone, vars
    <2> QED
      BY <2>1, ThreadInv
  <1>2. ASSUME NotifyAll PROVE Kept
    <2>1. \A w \in Workers : worker[w] = "busy" => worker'[w] = "busy"
      BY <1>2 DEF NotifyAll, Notified, Awake
    <2>2. UNCHANGED <<made, batch, batches, task>> /\ caller # "calling"
      BY <1>2 DEF NotifyAll
    <2> QED
      BY <2>1, <2>2, ThreadInv
  <1>3. ASSUME NEW b \in Ids, WaitStep(b) PROVE Kept
    BY <1>3, WaitInv
  <1>4. ASSUME NEW b \in Ids, NEW i \in Indices, Fork(b, i) PROVE Kept
    BY <1>4, ForkInv
  <1>5. ASSUME NEW b \in Ids, NEW i \in Indices, Throw(b, i) \/ BodyEnds(b, i) PROVE Kept
    BY <1>5, BodyInv
  <1>6. ASSUME NEW w \in Workers, WorkerStep(w) \/ Wake(w) PROVE Kept
    BY <1>6, WorkerInv
  <1>7. Kept
    BY <1>1, <1>2, <1>3, <1>4, <1>5, <1>6, CallInv DEF Next
  <1>8. TypeOK'
    BY TypeStep
  <1> QED
    BY <1>7, <1>8 DEF Inv, Kept

\* The invariant is one.
LEMMA Invariance == Spec => []Inv
  <1>1. Init => Inv
    BY InitInv
  <1>2. Inv /\ [Next]_vars => Inv'
    BY NextInv
  <1> QED
    BY <1>1, <1>2, PTL DEF Spec

-----------------------------------------------------------------------------

\* A task under way keeps its batch open, and short of its return.
LEMMA UnderOpen ==
  ASSUME Inv, NEW b \in Ids, NEW i \in Indices, Under(b, i)
  PROVE  batch[b].at \notin {"none", "erase", "return", "over"}
  <1>1. CASE batch[b].looped
    BY <1>1 DEF Inv, RunBy
  <1>2. CASE ~batch[b].looped
    <2>1. batch[b].remaining # 0
      BY <1>2, UnderLeft
    <2>2. batch[b].at # "none"
      <3>1. batch[b].next \in Nat /\ i \in Nat /\ made \in Nat /\ b \in Nat
        BY BoundsAssumption DEF Inv, TypeOK, Batches, Indices, Ids
      <3>2. batch[b] # Unmade
        BY <3>1, UnderLeft DEF Unmade
      <3> QED
        BY <3>1, <3>2 DEF Inv, Made
    <2> QED
      BY <1>2, <2>1, <2>2 DEF Inv, Ended
  <1> QED
    BY <1>1, <1>2

\* Every variable keeps its type: among others no batch is handed more calls than it has
\* and no count of the calls left goes below zero.
THEOREM PoolTypeCorrect == Spec => []TypeOK
  <1>1. Inv => TypeOK
    BY DEF Inv
  <1> QED
    BY <1>1, Invariance, PTL

\* A parallel_for leaves its wait only when no thread can still reach its batch, which
\* lives on its stack: no task of it is under way, and it is off batches_.
THEOREM BatchOutlives == Spec => []OutlivesItsTasks
  <1>1. ASSUME Inv PROVE OutlivesItsTasks
    <2>1. \A b \in Ids, i \in Indices : Under(b, i) => batch[b].at \notin {"none", "erase", "return", "over"}
      BY <1>1, UnderOpen
    <2>2. \A b \in batches : batch[b].at \notin {"none", "return", "over"}
      BY <1>1 DEF Inv, Listed
    <2> QED
      BY <2>1, <2>2 DEF OutlivesItsTasks
  <1> QED
    BY <1>1, Invariance, PTL

\* When a parallel_for leaves its wait each of its calls has been made exactly once and
\* has ended, whichever threads claimed them.
THEOREM EachCallOnce == Spec => []RunsOnce
  <1>1. ASSUME Inv PROVE RunsOnce
    <2> SUFFICES ASSUME NEW b \in Ids, NEW i \in Indices, batch[b].at \in {"erase", "return", "over"}
                 PROVE  LET last == IF batch[b].looped THEN batch[b].next ELSE batch[b].count
                        IN  /\ task[b][i].hits = (IF i < last THEN 1 ELSE 0)
                            /\ i < last => task[b][i].at = "done"
                            /\ last = batch[b].count \/ batch[b].error
      BY DEF RunsOnce
    <2>1. /\ batch[b].next \in Nat /\ batch[b].count \in 0..MaxWidth /\ i \in Nat
          /\ task[b][i] \in Tasks /\ batch[b] \in Batches
      BY <1>1, BoundsAssumption DEF Inv, TypeOK, Batches, Indices
    <2>2. /\ i < batch[b].next => task[b][i].at # "free" /\ task[b][i].hits = 1
          /\ i >= batch[b].next => task[b][i] = Free
          /\ batch[b].next <= batch[b].count
      BY <1>1 DEF Inv, Claimed
    <2>3. CASE batch[b].looped
      <3>1. ~Under(b, i) /\ (batch[b].next = batch[b].count \/ batch[b].error)
        BY <1>1, <2>3 DEF Inv, Made, Ended
      <3>2. task[b][i].at \in {"free", "done"}
        BY <2>1, <3>1 DEF Under, Tasks
      <3> QED
        BY <2>1, <2>2, <2>3, <3>1, <3>2 DEF Free
    <2>4. CASE ~batch[b].looped
      <3>1. Cardinality(Left(b)) = 0
        BY <1>1, <2>4 DEF Inv, Counted, Ended
      <3>2. IsFiniteSet(Left(b))
        <4>1. IsFiniteSet(Indices)
          BY BoundsAssumption, FS_Interval DEF Indices
        <4> QED
          BY <4>1, FS_Subset DEF Left
      <3>3. Left(b) = {}
        BY <3>1, <3>2, FS_EmptySet
      <3>4. i < batch[b].count => task[b][i].at = "done"
        BY <3>3 DEF Left
      <3>5. i < batch[b].next <=> i < batch[b].count
        BY <2>1, <2>2, <3>4 DEF Free
      <3> QED
        BY <2>1, <2>2, <2>4, <3>4, <3>5 DEF Free
    <2> QED
      BY <2>3, <2>4
  <1> QED
    BY <1>1, Invariance, PTL

-----------------------------------------------------------------------------
(* Exceptions.                                                                 *)

\* A set of batches has an oldest one: the batches older than it are a smallest
\* set of their kind.
LEMMA Oldest ==
  ASSUME NEW S \in SUBSET Ids, S # {}
  PROVE  \E m \in S : \A k \in S : ~(k < m)
  <1> DEFINE Below(n) == {k \in S : k < n}
             T == {Below(n) : n \in S}
  <1>1. IsFiniteSet(Ids) /\ Ids \subseteq Int
    BY BoundsAssumption, FS_Interval DEF Ids
  <1>2. T \subseteq FiniteSubsetsOf(Ids) /\ T # {}
    <2>1. \A n \in S : IsFiniteSet(Below(n)) /\ Below(n) \in SUBSET Ids
      BY <1>1, FS_Subset
    <2> QED
      BY <2>1 DEF FiniteSubsetsOf
  <1>3. PICK t \in T : \A u \in T : <<u, t>> \notin StrictSubsetOrdering(Ids)
    <2>1. IsWellFoundedOn(StrictSubsetOrdering(Ids), FiniteSubsetsOf(Ids))
      BY FS_StrictSubsetOrderingWellFounded
    <2> HIDE DEF T
    <2> QED
      BY <1>2, <2>1, WFMin
  <1>4. PICK m \in S : t = Below(m)
    OBVIOUS
  <1>5. ASSUME NEW k \in S, k < m PROVE FALSE
    <2>1. k \in t /\ k \notin Below(k) /\ \A j \in Below(k) : j \in t
      BY <1>1, <1>4, <1>5, S \subseteq Int
    <2>2. <<Below(k), t>> \in StrictSubsetOrdering(Ids)
      BY <2>1, <1>4 DEF StrictSubsetOrdering
    <2> QED
      BY <1>3, <2>2
  <1> QED
    BY <1>5

\* Every open batch goes back to the owner's: if that is about to return, or there is
\* none, no other is open.
LEMMA RootAlone ==
  ASSUME Inv, NEW S \in SUBSET {b \in Ids : Open(b)},
         \A b \in S : batch[b].from # Caller,
         \A b \in Ids \ S : ~Open(b) \/ batch[b].at = "return"
  PROVE  S = {}
  <1> SUFFICES ASSUME S # {} PROVE FALSE
    OBVIOUS
  <1>1. PICK m \in S : \A k \in S : ~(k < m)
    BY Oldest
  <1> DEFINE d == batch[m].from
  <1>2. d \in Ids /\ batch[m].nth \in Indices /\ Under(d, batch[m].nth) /\ d < m
    BY DEF Inv, TypeOK, Batches, ForkedFrom, Under
  <1>3. Open(d) /\ batch[d].at # "return"
    BY <1>2, UnderOpen DEF Open
  <1> QED
    BY <1>1, <1>2, <1>3

\* An exception that has not reached the owner yet is in the body that threw
\* it, or was kept by a batch that is open.
Carries(b) == Open(b) /\ (batch[b].error \/ \E i \in Indices : task[b][i].at = "threw")
Thrown == /\ ~raised => \A b \in Ids : ~Carries(b)
          /\ raised /\ caller = "calling" => \E b \in Ids : Carries(b)

\* A step that makes and loses no exception.
LEMMA ThrownKept ==
  ASSUME Thrown, raised' = raised, caller' = "calling" => caller = "calling",
         \A b \in Ids : Carries(b)' <=> Carries(b)
  PROVE  Thrown'
  BY DEF Thrown

\* Nor does one that opens, closes and ends nothing.
LEMMA ThrownSame ==
  ASSUME Thrown, raised' = raised, caller' = caller,
         \A b \in Ids : batch'[b].error = batch[b].error,
         \A b \in Ids : batch'[b].at \in {"none", "over"} <=> batch[b].at \in {"none", "over"},
         \A b \in Ids, i \in Indices : task'[b][i].at = "threw" <=> task[b][i].at = "threw"
  PROVE  Thrown'
  BY DEF Thrown, Carries, Open

\* Moving a batch, or counting a call of it, leaves its error and opens or closes no other.
LEMMA AtSet ==
  ASSUME NEW f \in [Ids -> Batches], NEW b \in Ids, NEW a, NEW c \in Ids
  PROVE  /\ [f EXCEPT ![b].at = a][c].error = f[c].error
         /\ [f EXCEPT ![b].at = a][c].at = IF c = b THEN a ELSE f[c].at
  <1>1. f[b] \in Batches /\ f[c] \in Batches
    OBVIOUS
  <1>2. [f[b] EXCEPT !.at = a].error = f[b].error /\ [f[b] EXCEPT !.at = a].at = a
    BY <1>1 DEF Batches
  <1>3. [f EXCEPT ![b].at = a][c] = IF c = b THEN [f[b] EXCEPT !.at = a] ELSE f[c]
    OBVIOUS
  <1> QED
    BY <1>2, <1>3

LEMMA RemainingSet ==
  ASSUME NEW f \in [Ids -> Batches], NEW b \in Ids, NEW n, NEW c \in Ids
  PROVE  /\ [f EXCEPT ![b].remaining = n][c].error = f[c].error
         /\ [f EXCEPT ![b].remaining = n][c].at = f[c].at
  <1>1. f[b] \in Batches /\ f[c] \in Batches
    OBVIOUS
  <1>2. [f[b] EXCEPT !.remaining = n].error = f[b].error /\ [f[b] EXCEPT !.remaining = n].at = f[b].at
    BY <1>1 DEF Batches
  <1>3. [f EXCEPT ![b].remaining = n][c] = IF c = b THEN [f[b] EXCEPT !.remaining = n] ELSE f[c]
    OBVIOUS
  <1> QED
    BY <1>2, <1>3

LEMMA NextSet ==
  ASSUME NEW f \in [Ids -> Batches], NEW b \in Ids, NEW n, NEW c \in Ids
  PROVE  /\ [f EXCEPT ![b].next = n][c].error = f[c].error
         /\ [f EXCEPT ![b].next = n][c].at = f[c].at
  <1>1. f[b] \in Batches /\ f[c] \in Batches
    OBVIOUS
  <1>2. [f[b] EXCEPT !.next = n].error = f[b].error /\ [f[b] EXCEPT !.next = n].at = f[b].at
    BY <1>1 DEF Batches
  <1>3. [f EXCEPT ![b].next = n][c] = IF c = b THEN [f[b] EXCEPT !.next = n] ELSE f[c]
    OBVIOUS
  <1> QED
    BY <1>2, <1>3

\* Nor does a claim.
LEMMA Helped ==
  ASSUME Inv, NEW b \in Ids, NEW c \in Ids, batch[c].next < batch[c].count,
         batch' = [batch EXCEPT ![c].next = @ + 1, ![b].at = "busy"]
  PROVE  \A d \in Ids : /\ batch'[d].error = batch[d].error
                        /\ batch'[d].at = IF d = b THEN "busy" ELSE batch[d].at
  <1> DEFINE n == batch[c].next + 1
             g == [batch EXCEPT ![c].next = n]
  <1>1. batch \in [Ids -> Batches]
    BY DEF Inv, TypeOK
  <1>2. n \in 0..MaxWidth
    <2>1. batch[c].next \in Nat /\ batch[c].count \in 0..MaxWidth
      BY <1>1, BoundsAssumption DEF Batches
    <2> QED
      BY <2>1, BoundsAssumption
  <1>3. g \in [Ids -> Batches]
    BY <1>2, BatchSet
  <1>4. \A d \in Ids : g[d].error = batch[d].error /\ g[d].at = batch[d].at
    BY <1>1, NextSet
  <1>5. batch' = [g EXCEPT ![b].at = "busy"]
    OBVIOUS
  <1> HIDE DEF g
  <1>6. \A d \in Ids : /\ batch'[d].error = g[d].error
                       /\ batch'[d].at = IF d = b THEN "busy" ELSE g[d].at
    <2> DEFINE h == [g EXCEPT ![b].at = "busy"]
    <2>1. \A d \in Ids : h[d].error = g[d].error /\ h[d].at = IF d = b THEN "busy" ELSE g[d].at
      BY <1>3, AtSet
    <2>2. batch' = h
      BY <1>5
    <2> HIDE DEF h
    <2> QED
      BY <2>1, <2>2
  <1> QED
    BY <1>4, <1>6

LEMMA ThrownWait ==
  ASSUME Inv, Inv', Thrown, NEW b \in Ids, WaitStep(b)
  PROVE  Thrown'
  <1>a. batch \in [Ids -> Batches] /\ task \in [Ids -> [Indices -> Tasks]]
    BY DEF Inv, TypeOK
  <1>1. CASE Notify(b) \/ Look(b) \/ Erase(b)
    <2>1. UNCHANGED <<task, raised, caller>>
      BY <1>1 DEF Notify, Look, Erase
    <2>2. \A c \in Ids : /\ batch'[c].error = batch[c].error
                         /\ batch'[c].at \in {"none", "over"} <=> batch[c].at \in {"none", "over"}
      <3>1. PICK a \in {"look", "erase", "help", "return"} : batch' = [batch EXCEPT ![b].at = a]
        BY <1>1 DEF Notify, Look, Erase
      <3>2. batch[b].at \notin {"none", "over"}
        BY <1>1 DEF Notify, Look, Erase
      <3> QED
        BY <3>1, <3>2, <1>a, AtSet
    <2> QED
      BY <2>1, <2>2, ThrownSame
  <1>2. ASSUME NEW c \in Ids, NEW by \in Workers \cup Ids, batch[c].next < batch[c].count, Begin(c, by)
        PROVE  \A d \in Ids, i \in Indices : task'[d][i].at = "threw" <=> task[d][i].at = "threw"
    <2>1. /\ batch[c].next \in Indices /\ task[c][batch[c].next] = Free
          /\ task' = [task EXCEPT ![c][batch[c].next] = [at |-> "run", by |-> by, hits |-> 1]]
      BY <1>2, BeginType
    <2> QED
      BY <2>1, <1>a DEF Free
  <1>3. CASE Help(b)
    <2>1. UNCHANGED <<raised, caller>>
      BY <1>3 DEF Help
    <2>2. \A c \in Ids : /\ batch'[c].error = batch[c].error
                         /\ batch'[c].at \in {"none", "over"} <=> batch[c].at \in {"none", "over"}
      <3>1. batch[b].at = "help"
        BY <1>3 DEF Help
      <3>2. CASE MayHelp(b)
        <4>1. PICK c \in Ids : Newest(c) /\ batch' = [batch EXCEPT ![c].next = @ + 1, ![b].at = "busy"]
          BY <1>3, <3>2 DEF Help
        <4>2. batch[c].next < batch[c].count
          BY <4>1 DEF Newest, Pending
        <4>3. \A d \in Ids : /\ batch'[d].error = batch[d].error
                             /\ batch'[d].at = IF d = b THEN "busy" ELSE batch[d].at
          BY <4>1, <4>2, Helped
        <4> QED
          BY <3>1, <4>3
      <3>3. CASE ~MayHelp(b)
        <4>1. batch' = [batch EXCEPT ![b].at = "look"]
          BY <1>3, <3>3 DEF Help
        <4> QED
          BY <3>1, <4>1, <1>a, AtSet
      <3> QED
        BY <3>2, <3>3
    <2>3. \A d \in Ids, i \in Indices : task'[d][i].at = "threw" <=> task[d][i].at = "threw"
      BY <1>2, <1>3 DEF Help, Newest, Pending
    <2> QED
      BY <2>1, <2>2, <2>3, ThrownSame
  <1>4. CASE Iterate(b)
    <2>1. UNCHANGED <<raised, caller>>
      BY <1>4 DEF Iterate
    <2>2. \A c \in Ids : /\ batch'[c].error = batch[c].error
                         /\ batch'[c].at \in {"none", "over"} <=> batch[c].at \in {"none", "over"}
      <3>1. batch[b].at = "loop"
        BY <1>4 DEF Iterate
      <3>2. CASE batch[b].next < batch[b].count /\ batch' = [batch EXCEPT ![b].next = @ + 1, ![b].at = "busy"]
        <4>1. \A d \in Ids : /\ batch'[d].error = batch[d].error
                             /\ batch'[d].at = IF d = b THEN "busy" ELSE batch[d].at
          BY <3>2, Helped
        <4> QED
          BY <3>1, <4>1
      <3>3. CASE batch' = [batch EXCEPT ![b].at = "return"]
        BY <3>1, <3>3, <1>a, AtSet
      <3> QED
        BY <1>4, <3>2, <3>3 DEF Iterate
    <2>3. \A d \in Ids, i \in Indices : task'[d][i].at = "threw" <=> task[d][i].at = "threw"
      BY <1>2, <1>4 DEF Iterate
    <2> QED
      BY <2>1, <2>2, <2>3, ThrownSame
  <1>5. CASE Return(b) /\ batch[b].from = Caller
    <2>1. caller' = "idle" /\ UNCHANGED <<task, raised>> /\ batch' = [batch EXCEPT ![b].at = "over"]
      BY <1>5 DEF Return
    <2>2. \A c \in Ids : Carries(c)' => Carries(c)
      BY <2>1, <1>a DEF Carries, Open
    <2> QED
      BY <2>1, <2>2 DEF Thrown
  <1>6. CASE Return(b) /\ batch[b].from # Caller
    <2> DEFINE d == batch[b].from
               n == batch[b].nth
    <2>1. UNCHANGED <<raised, caller>> /\ batch' = [batch EXCEPT ![b].at = "over"]
          /\ task' = [task EXCEPT ![d][n].at = IF batch[b].error THEN "threw" ELSE "joined"]
          /\ batch[b].at = "return"
      BY <1>6 DEF Return, Rethrows
    <2>2. d \in Ids /\ n \in Indices /\ task[d][n].at = "forked"
      BY <1>6, <2>1 DEF Inv, TypeOK, Batches, ForkedFrom, Open
    <2>3. Open(d) /\ d # b
      BY <2>1, <2>2, UnderOpen DEF Under, Open
    <2>4. \A c \in Ids : /\ batch'[c].error = batch[c].error
                         /\ c # b => (Open(c)' <=> Open(c))
                         /\ c = b => ~Open(c)' /\ Open(c)
      BY <2>1, <1>a DEF Open
    <2>5. \A c \in Ids, i \in Indices :
            ~(c = d /\ i = n) => task'[c][i] = task[c][i]
      BY <2>1, <1>a
    <2>6. task'[d][n].at = IF batch[b].error THEN "threw" ELSE "joined"
      BY <2>1, <2>2, <1>a
    <2>7. \A i \in Indices : task[b][i].at # "threw"
      BY <2>1, UnderOpen DEF Under
    <2>8. \A c \in Ids : c # b /\ Carries(c) => Carries(c)'
      BY <2>2, <2>4, <2>5 DEF Carries
    <2>9. CASE batch[b].error
      <3>1. Carries(b) /\ \E c \in Ids : Carries(c)'
        BY <2>1, <2>2, <2>3, <2>4, <2>6, <2>9 DEF Carries, Open
      <3>2. raised /\ raised'
        BY <3>1, <2>1 DEF Thrown
      <3> QED
        BY <2>2, <3>1, <3>2 DEF Thrown
    <2>10. CASE ~batch[b].error
      <3>1. ~Carries(b) /\ ~Carries(b)'
        BY <2>4, <2>7, <2>10 DEF Carries
      <3>2. \A c \in Ids : Carries(c)' => Carries(c)
        BY <3>1, <2>2, <2>4, <2>5, <2>6, <2>10 DEF Carries
      <3>3. \A c \in Ids : Carries(c)' <=> Carries(c)
        BY <3>1, <3>2, <2>8
      <3> QED
        BY <3>3, <2>1, ThrownKept
    <2> QED
      BY <2>9, <2>10
  <1> QED
    BY <1>1, <1>3, <1>4, <1>5, <1>6 DEF WaitStep

LEMMA ThrownBody ==
  ASSUME Inv, Inv', Thrown, NEW b \in Ids, NEW i \in Indices, Throw(b, i) \/ BodyEnds(b, i)
  PROVE  Thrown'
  <1>a. batch \in [Ids -> Batches] /\ task \in [Ids -> [Indices -> Tasks]]
    BY DEF Inv, TypeOK
  <1>1. CASE Throw(b, i)
    <2>1. Under(b, i) /\ raised' /\ UNCHANGED batch /\ task'[b][i].at = "threw"
      BY <1>1, <1>a DEF Throw, Under
    <2>2. Open(b)'
      BY <2>1, UnderOpen DEF Open
    <2>3. Carries(b)'
      BY <2>1, <2>2 DEF Carries
    <2> QED
      BY <2>1, <2>3 DEF Thrown
  <1>2. CASE Catch(b, i)
    <2>1. Under(b, i) /\ task[b][i].at = "threw" /\ UNCHANGED <<raised, caller>>
      BY <1>2 DEF Catch, Under
    <2>2. Open(b)
      BY <2>1, UnderOpen DEF Open
    <2>3. batch'[b].error /\ batch'[b].at \in {batch[b].at, "return"}
      BY <1>2, <1>a DEF Catch, Batches
    <2>4. Carries(b) /\ Carries(b)'
      BY <2>1, <2>2, <2>3 DEF Carries, Open
    <2> QED
      BY <2>1, <2>4 DEF Thrown
  <1>3. CASE Finish(b, i)
    <2>1. Under(b, i) /\ UNCHANGED <<raised, caller>>
      BY <1>3 DEF Finish, Under
    <2>2. Open(b)
      BY <2>1, UnderOpen DEF Open
    <2>3. \A c \in Ids : /\ batch'[c].error = batch[c].error
                         /\ batch'[c].at \in {"none", "over"} <=> batch[c].at \in {"none", "over"}
      BY <1>3, <1>a, <2>2 DEF Finish, Open, Batches
    <2>4. \A c \in Ids, j \in Indices : task'[c][j].at = "threw" <=> task[c][j].at = "threw"
      BY <1>3, <2>1, TaskSet, TaskOver DEF Finish
    <2> QED
      BY <2>1, <2>3, <2>4, ThrownSame
  <1>4. CASE Count(b, i)
    <2>1. Under(b, i) /\ UNCHANGED <<raised, caller>>
      BY <1>4 DEF Count, Under
    <2>2. Open(b) /\ (task[b][i].by \in Ids => Open(task[b][i].by))
      BY <2>1, UnderOpen DEF Open, Inv, RunBy
    <2>3. \A c \in Ids : /\ batch'[c].error = batch[c].error
                         /\ batch'[c].at \in {"none", "over"} <=> batch[c].at \in {"none", "over"}
      <3> DEFINE n == batch[b].remaining - 1
                 g == [batch EXCEPT ![b].remaining = n]
      <3>1. CASE task[b][i].by \in Workers
        <4>1. batch' = g
          BY <1>4, <3>1, ThreadsAssumption DEF Count
        <4> QED
          BY <1>a, <4>1, RemainingSet
      <3>2. CASE task[b][i].by \in Ids
        <4>1. batch' = [g EXCEPT ![task[b][i].by].at = "look"]
          BY <1>4, <3>2, ThreadsAssumption DEF Count
        <4>2. g \in [Ids -> Batches]
          <5>1. n \in 0..MaxWidth
            <6>1. ~batch[b].looped
              BY <1>4, <2>1 DEF Count, Inv, RunBy
            <6>2. batch[b].remaining \in Nat \ {0} /\ batch[b].remaining \in 0..MaxWidth
              BY <1>a, <2>1, <6>1, UnderLeft DEF Batches
            <6> QED
              BY <6>2, BoundsAssumption
          <5> QED
            BY <1>a, <5>1, BatchTypes
        <4>3. \A c \in Ids : g[c].error = batch[c].error /\ g[c].at = batch[c].at
          BY <1>a, RemainingSet
        <4> HIDE DEF g
        <4>4. \A c \in Ids : /\ batch'[c].error = g[c].error
                             /\ batch'[c].at = IF c = task[b][i].by THEN "look" ELSE g[c].at
          BY <3>2, <4>1, <4>2, AtSet
        <4> QED
          BY <2>2, <4>3, <4>4 DEF Open
      <3> QED
        BY <1>4, <3>1, <3>2 DEF Count
    <2>4. \A c \in Ids, j \in Indices : task'[c][j].at = "threw" <=> task[c][j].at = "threw"
      BY <1>4, <1>a DEF Count, Closed, Tasks
    <2> QED
      BY <2>1, <2>3, <2>4, ThrownSame
  <1> QED
    BY <1>1, <1>2, <1>3, <1>4 DEF BodyEnds

\* A batch that is opened has no error, and no body that threw.
LEMMA OpenedClean ==
  ASSUME Inv, Inv', NEW from \in Ids \cup {Caller}, NEW nth \in Nat, NEW n, NEW level, NEW split,
         ParallelFor(from, nth, n, level, split),
         \A c \in Ids, j \in Indices : task'[c][j].at = "threw" <=> task[c][j].at = "threw"
  PROVE  \A b \in Ids : Carries(b)' <=> Carries(b)
  <1>a. batch \in [Ids -> Batches] /\ task \in [Ids -> [Indices -> Tasks]] /\ made \in Nat
    BY BoundsAssumption DEF Inv, TypeOK
  <1> SUFFICES ASSUME NEW b \in Ids PROVE Carries(b)' <=> Carries(b)
    OBVIOUS
  <1>1. CASE b # made + 1
    <2>1. batch'[b] = batch[b]
      BY <1>1, <1>a DEF ParallelFor
    <2> QED
      BY <2>1 DEF Carries, Open
  <1>2. CASE b = made + 1
    <2>1. batch[b] = Unmade /\ b > made
      BY <1>2, <1>a DEF Inv, Made
    <2>2. \A i \in Indices : task[b][i] = Free
      BY <2>1, <1>a DEF Inv, Claimed, Unmade, Indices
    <2>3. batch'[b].error = FALSE
      BY <1>2, <1>a DEF ParallelFor, Opened
    <2> QED
      BY <2>1, <2>2, <2>3 DEF Carries, Open, Unmade, Free
  <1> QED
    BY <1>1, <1>2

LEMMA ThrownStep ==
  ASSUME Inv, Inv', Thrown, [Next]_vars
  PROVE  Thrown'
  <1>a. batch \in [Ids -> Batches] /\ task \in [Ids -> [Indices -> Tasks]]
    BY DEF Inv, TypeOK
  <1>1. ASSUME UNCHANGED <<batch, task, raised>>, caller' = "calling" => caller = "calling" PROVE Thrown'
    BY <1>1, ThrownKept DEF Carries, Open
  <1>2. CASE Stop \/ NotifyAll \/ Join \/ Gone \/ UNCHANGED vars
    BY <1>1, <1>2 DEF Stop, NotifyAll, Join, Gone, vars
  <1>3. ASSUME NEW w \in Workers, Exit(w) \/ Sleep(w) \/ Wake(w) PROVE Thrown'
    BY <1>1, <1>3 DEF Exit, Sleep, Wake
  <1>4. ASSUME NEW w \in Workers, Take(w) PROVE Thrown'
    <2>1. PICK c \in Ids : Newest(c) /\ Begin(c, w) /\ batch' = [batch EXCEPT ![c].next = @ + 1]
      BY <1>4 DEF Take
    <2>2. \A d \in Ids, i \in Indices : task'[d][i].at = "threw" <=> task[d][i].at = "threw"
      <3>1. /\ batch[c].next \in Indices /\ task[c][batch[c].next] = Free
            /\ task' = [task EXCEPT ![c][batch[c].next] = [at |-> "run", by |-> w, hits |-> 1]]
        BY <2>1, BeginType DEF Newest, Pending
      <3> QED
        BY <3>1, <1>a DEF Free
    <2>3. \A d \in Ids : /\ batch'[d].error = batch[d].error
                         /\ batch'[d].at \in {"none", "over"} <=> batch[d].at \in {"none", "over"}
      BY <2>1, <1>a DEF Open
    <2>4. UNCHANGED <<raised, caller>>
      BY <1>4 DEF Take
    <2> QED
      BY <2>2, <2>3, <2>4, ThrownSame
  <1>5. ASSUME NEW b \in Ids, NEW i \in Indices, Fork(b, i) PROVE Thrown'
    <2>1. PICK children \in Widths, n \in Sizes :
            ParallelFor(b, i, n, batch[b].level + 1, ChildSplit(batch[b].split, children))
      BY <1>5 DEF Fork
    <2>2. \A c \in Ids, j \in Indices : task'[c][j].at = "threw" <=> task[c][j].at = "threw"
      BY <1>5, <1>a DEF Fork
    <2>3. \A c \in Ids : Carries(c)' <=> Carries(c)
      BY <2>1, <2>2, OpenedClean DEF Indices
    <2> QED
      BY <1>5, <2>3, ThrownKept DEF Fork
  <1>6. CASE Call
    <2>1. caller = "idle" /\ raised' = FALSE /\ UNCHANGED task
      BY <1>6 DEF Call
    <2>2. {b \in Ids : Open(b)} = {}
      <3>1. \A b \in Ids : Open(b) => batch[b].from # Caller
        BY <2>1 DEF Inv, ForkedFrom
      <3> DEFINE S == {b \in Ids : Open(b)}
      <3>2. \A b \in Ids \ S : ~Open(b) \/ batch[b].at = "return"
        OBVIOUS
      <3>3. S \in SUBSET {b \in Ids : Open(b)} /\ \A b \in S : batch[b].from # Caller
        BY <3>1
      <3> HIDE DEF S
      <3>4. S = {}
        BY <3>2, <3>3, RootAlone
      <3> QED
        BY <3>4 DEF S
    <2>3. \E n \in Sizes : \E split : ParallelFor(Caller, 0, n, 1, split)
      BY <1>6 DEF Call
    <2>4. \A b \in Ids : Carries(b)' <=> Carries(b)
      BY <2>1, <2>3, OpenedClean
    <2> QED
      BY <2>1, <2>2, <2>4 DEF Thrown, Carries
  <1> QED
    BY <1>2, <1>3, <1>4, <1>5, <1>6, ThrownWait, ThrownBody DEF Next, WorkerStep

\* The owner's call throws when, and only when, a body has thrown, however deep it was
\* forked and whichever thread ran it.
THEOREM ErrorsReachCaller == Spec => []ErrorReachesCaller
  <1>1. Init => Thrown
    BY DEF Init, Thrown, Carries, Open, Unmade, Free
  <1>2. Inv /\ Inv' /\ Thrown /\ [Next]_vars => Thrown'
    BY ThrownStep
  <1>3. ASSUME Inv, Thrown PROVE ErrorReachesCaller
    <2> SUFFICES ASSUME NEW b \in Ids, batch[b].from = Caller, batch[b].at = "return"
                 PROVE  batch[b].error = raised
      BY DEF ErrorReachesCaller
    <2>1. Open(b) /\ caller = "calling" /\ batch[b].error \in BOOLEAN /\ raised \in BOOLEAN
      BY <1>3 DEF Open, Inv, ForkedFrom, TypeOK, Batches
    <2>2. {c \in Ids \ {b} : Open(c)} = {}
      <3>1. \A c \in Ids \ {b} : Open(c) => batch[c].from # Caller
        BY <1>3, <2>1 DEF Inv, ForkedOne
      <3> DEFINE S == {c \in Ids \ {b} : Open(c)}
      <3>2. \A c \in Ids \ S : ~Open(c) \/ batch[c].at = "return"
        OBVIOUS
      <3>3. S \in SUBSET {c \in Ids : Open(c)} /\ \A c \in S : batch[c].from # Caller
        BY <3>1
      <3> HIDE DEF S
      <3>4. S = {}
        BY <1>3, <3>2, <3>3, RootAlone
      <3> QED
        BY <3>4 DEF S
    <2>3. \A i \in Indices : task[b][i].at # "threw"
      BY <1>3, UnderOpen DEF Under
    <2>4. \A c \in Ids : Carries(c) => c = b /\ batch[b].error
      BY <2>2, <2>3 DEF Carries
    <2>5. batch[b].error => Carries(b)
      BY <2>1 DEF Carries
    <2> QED
      BY <1>3, <2>1, <2>4, <2>5 DEF Thrown
  <1> QED
    BY <1>1, <1>2, <1>3, Invariance, PTL DEF Spec

-----------------------------------------------------------------------------
(* Scratch arenas.                                                             *)

\* What a body may still add to the bodies that wait, when j levels are left to fork on and
\* its share of the budget is s: its own wait, and the waits of those it forks.
Worth(j, s) == IF s <= 1 \/ j <= 0 THEN 0
               ELSE IF j = 1 THEN 1
               ELSE IF j = 2 THEN (IF s >= 4 THEN 1 + s \div 2 ELSE 1)
               ELSE s - 1

\* The share of a child: the share of its siblings together is no more than the body's.
LEMMA ShareType ==
  ASSUME NEW s \in Nat, NEW c \in Nat, c >= 2
  PROVE  /\ ChildSplit(s, c) \in Nat
         /\ ChildSplit(s, c) > 1 => c * ChildSplit(s, c) <= s
  <1>1. s \div c \in Nat /\ c * (s \div c) <= s
    BY Z3
  <1> QED
    BY <1>1 DEF ChildSplit

\* It is a number.
LEMMA WorthType ==
  ASSUME NEW j \in Int, NEW s \in Nat
  PROVE  Worth(j, s) \in Nat
  <1>1. s \div 2 \in Nat
    BY Z3
  <1> QED
    BY <1>1 DEF Worth

\* Fewer calls of the same worth are worth no more.
LEMMA TimesLess ==
  ASSUME NEW n \in Nat, NEW c \in Nat, n <= c, NEW k \in Nat
  PROVE  n * k <= c * k /\ n * k \in Nat
  BY Z3

\* A body's wait and those of all it forks are within its worth.
LEMMA WorthForked ==
  ASSUME NEW j \in Nat, j >= 1, NEW s \in Nat, s > 1, NEW c \in Nat, c >= 2, NEW n \in Nat, n <= c,
         NEW t \in Nat, t > 1 => c * t <= s, NEW w, w = Worth(j - 1, t)
  PROVE  1 + n * w <= Worth(j, s)
  <1>1. t \in Nat /\ (t > 1 => c * t <= s)
    OBVIOUS
  <1>2. w \in Nat
    BY j - 1 \in Int, WorthType
  <1>3. n * w <= c * w /\ n * w \in Nat /\ c * w \in Nat
    BY <1>2, TimesLess
  <1>4. Worth(j, s) >= 1 /\ Worth(j, s) \in Nat
    BY WorthType, Z3 DEF Worth
  <1>5. CASE t <= 1 \/ j = 1
    <2>1. w = 0
      BY <1>1, <1>5 DEF Worth
    <2>2. n * w = 0
      BY <2>1
    <2> QED
      BY <1>4, <2>2
  <1>6. CASE t > 1 /\ j = 2
    <2>1. w = 1
      BY <1>1, <1>6 DEF Worth
    <2>2. c * 2 <= c * t
      BY <1>1, <1>6, Z3
    <2>3. c * 2 <= s
      BY <1>1, <1>6, <2>2
    <2>4. c <= s \div 2
      BY <2>3, Z3
    <2>5. s >= 4 /\ Worth(j, s) = 1 + s \div 2
      BY <1>6, <2>3 DEF Worth
    <2>6. s \div 2 \in Nat
      BY Z3
    <2>7. n * w = n
      BY <2>1
    <2> QED
      BY <2>4, <2>5, <2>6, <2>7
  <1>7. CASE t > 1 /\ j = 3
    <2>1. Worth(j, s) = s - 1
      BY <1>7 DEF Worth
    <2>2. c * t <= s
      BY <1>1, <1>7
    <2>3. CASE t < 4
      <3>1. w = 1
        BY <1>1, <1>7, <2>3 DEF Worth
      <3>2. c * 2 <= c * t
        BY <1>1, <1>7, Z3
      <3> QED
        BY <1>3, <2>1, <2>2, <3>1, <3>2
    <2>4. CASE t >= 4
      <3>1. w = 1 + t \div 2
        BY <1>1, <1>7, <2>4 DEF Worth
      <3>2. 2 * w <= 2 + t
        BY <1>1, <3>1, Z3
      <3>3. c * (2 * w) <= c * (2 + t)
        BY <1>1, <1>2, <3>2, Z3
      <3>4. 2 * (c * w) <= 2 * c + c * t
        BY <1>1, <1>2, <3>3, Z3
      <3>5. c * 4 <= c * t
        BY <1>1, <2>4, Z3
      <3> QED
        BY <1>1, <1>3, <2>1, <2>2, <3>4, <3>5, Z3
    <2> QED
      BY <1>1, <2>3, <2>4
  <1>8. CASE t > 1 /\ j > 3
    <2>1. Worth(j, s) = s - 1 /\ w = t - 1
      BY <1>1, <1>8 DEF Worth
    <2>2. c * w = c * t - c
      BY <1>1, <2>1, Z3
    <2> QED
      BY <1>1, <1>3, <1>8, <2>1, <2>2
  <1> QED
    BY <1>1, <1>5, <1>6, <1>7, <1>8

\* The waits below the owner's call are within the levels, for each thread.
LEMMA WorthRoot ==
  ASSUME NEW m \in Nat, m >= 1, NEW t \in Nat, NEW c \in Nat, c >= 2, NEW n \in Nat, n <= c,
         NEW s \in Nat, s > 1 => c * s <= 4 * t, NEW w, w = Worth(m - 1, s)
  PROVE  n * w <= m * t
  <1>0. 4 * t \in Nat /\ m * t \in Nat /\ t <= m * t
    BY Z3
  <1>1. s \in Nat /\ (s > 1 => c * s <= 4 * t)
    OBVIOUS
  <1>2. w \in Nat
    BY m - 1 \in Int, WorthType
  <1>3. n * w <= c * w /\ n * w \in Nat /\ c * w \in Nat
    BY <1>2, TimesLess
  <1>4. CASE s <= 1 \/ m = 1
    <2>1. w = 0
      BY <1>1, <1>4 DEF Worth
    <2>2. n * w = 0
      BY <2>1
    <2> QED
      BY <1>0, <2>2
  <1>5. CASE s > 1 /\ m = 2
    <2>1. w = 1
      BY <1>1, <1>5 DEF Worth
    <2>2. c * 2 <= c * s
      BY <1>1, <1>5, Z3
    <2>3. c * w = c /\ m * t = 2 * t
      BY <1>5, <2>1
    <2> QED
      BY <1>1, <1>3, <1>5, <2>2, <2>3
  <1>6. CASE s > 1 /\ m = 3
    <2>1. c * s <= 4 * t /\ m * t = 3 * t
      BY <1>1, <1>6
    <2>2. CASE s < 4
      <3>1. w = 1 /\ c * w = c
        BY <1>1, <1>6, <2>2 DEF Worth
      <3>2. c * 2 <= c * s
        BY <1>1, <1>6, Z3
      <3> QED
        BY <1>3, <2>1, <3>1, <3>2
    <2>3. CASE s >= 4
      <3>1. w = 1 + s \div 2
        BY <1>1, <1>6, <2>3 DEF Worth
      <3>2. 2 * w <= 2 + s
        BY <1>1, <3>1, Z3
      <3>3. c * (2 * w) <= c * (2 + s)
        BY <1>1, <1>2, <3>2, Z3
      <3>4. 2 * (c * w) <= 2 * c + c * s
        BY <1>1, <1>2, <3>3, Z3
      <3>5. c * 4 <= c * s
        BY <1>1, <2>3, Z3
      <3> QED
        BY <1>1, <1>3, <2>1, <3>4, <3>5, Z3
    <2> QED
      BY <1>1, <2>2, <2>3
  <1>7. CASE s > 1 /\ m > 3
    <2>1. w = s - 1
      BY <1>1, <1>7 DEF Worth
    <2>2. c * w = c * s - c
      BY <1>1, <2>1, Z3
    <2>3. 4 * t <= m * t
      BY <1>7, Z3
    <2> QED
      BY <1>1, <1>3, <1>7, <2>2, <2>3, <1>0
  <1> QED
    BY <1>1, <1>4, <1>5, <1>6, <1>7

\* Pairs <<m, k>>, counted in rows of w.
LEMMA Rows ==
  ASSUME NEW w \in Nat, NEW n \in Nat, NEW m \in Nat, NEW k \in 1..w, m < n
  PROVE  m * w + k \in 1..n * w
  <1>1. (m + 1) * w <= n * w /\ n * w \in Nat
    BY TimesLess, m + 1 <= n
  <1>2. (m + 1) * w = m * w + w /\ m * w \in Nat
    BY Z3
  <1> QED
    BY <1>1, <1>2

\* No two pairs have the same place.
LEMMA RowsOne ==
  ASSUME NEW w \in Nat, NEW m \in Nat, NEW l \in Nat, NEW k \in 1..w, NEW h \in 1..w,
         m * w + k = l * w + h
  PROVE  m = l /\ k = h
  <1>1. ASSUME NEW x \in Nat, NEW y \in Nat, x < y, NEW a \in 1..w, NEW b \in 1..w PROVE x * w + a < y * w + b
    <2>1. (x + 1) * w <= y * w /\ y * w \in Nat
      BY <1>1, TimesLess, x + 1 <= y
    <2>2. (x + 1) * w = x * w + w /\ x * w \in Nat
      BY Z3
    <2> QED
      BY <2>1, <2>2
  <1>2. m * w \in Nat /\ l * w \in Nat
    BY Z3
  <1>3. ~(m < l) /\ ~(l < m)
    BY <1>1, <1>2
  <1> QED
    BY <1>2, <1>3

-----------------------------------------------------------------------------

\* Credits: what the open batches may still add to the bodies that wait, and those that
\* wait, each as one element.
Share(b) == Worth(MaxSplitLevels - batch[b].level, batch[b].split)
Credit(b, i, k) == /\ Open(b) /\ i < batch[b].count
                   /\ \/ task[b][i].at \in {"free", "run"} /\ k \in 1..Share(b)
                      \/ task[b][i].at = "forked" /\ k = 0
Credits == {x \in Ids \X Indices \X Nat : Credit(x[1], x[2], x[3])}

\* With workers there are no more of them than levels of fork for each thread.
WaitsHeld == Pool # {} => IsFiniteSet(Credits) /\ Cardinality(Credits) <= MaxSplitLevels * Threads

\* There are as many threads as workers, and the owner.
LEMMA ThreadsType ==
  /\ IsFiniteSet(Pool) /\ Cardinality(Pool) \in Nat
  /\ Threads \in Nat \ {0} /\ (Pool # {} => Threads >= 2)
  <1>1. Pool \subseteq Workers
    BY DEF Pool
  <1>2. IsFiniteSet(Pool)
    BY <1>1, ThreadsAssumption, FS_Subset
  <1>3. Cardinality(Pool) \in Nat /\ (Cardinality(Pool) = 0 <=> Pool = {})
    BY <1>2, FS_CardinalityType, FS_EmptySet
  <1> QED
    BY <1>2, <1>3 DEF Threads

\* The pool neither grows nor shrinks.
LEMMA PoolSame ==
  ASSUME Inv, [Next]_vars
  PROVE  Pool' = Pool /\ Threads' = Threads
  <1> SUFFICES Pool' = Pool
    BY DEF Threads
  <1>a. worker \in [Workers -> {"none", "check", "asleep", "busy", "exited"}]
    BY DEF Inv, TypeOK
  <1>1. ASSUME worker' = worker PROVE Pool' = Pool
    BY <1>1 DEF Pool
  <1>2. ASSUME worker' \in Notified PROVE Pool' = Pool
    BY <1>2, <1>a DEF Pool, Notified, Awake
  <1>3. ASSUME NEW w \in Workers, NEW a \in {"check", "asleep", "busy", "exited"},
               worker' = [worker EXCEPT ![w] = a], worker[w] # "none"
        PROVE  Pool' = Pool
    BY <1>3, <1>a DEF Pool
  <1>4. CASE Call \/ Stop \/ Join \/ Gone \/ UNCHANGED vars
    BY <1>1, <1>4 DEF Call, Stop, Join, Gone, vars
  <1>5. CASE NotifyAll
    BY <1>2, <1>5 DEF NotifyAll
  <1>6. ASSUME NEW b \in Ids, WaitStep(b) PROVE Pool' = Pool
    BY <1>1, <1>2, <1>6 DEF WaitStep, Notify, Look, Help, Erase, Iterate, Return
  <1>7. ASSUME NEW b \in Ids, NEW i \in Indices, Fork(b, i) \/ Throw(b, i) \/ BodyEnds(b, i)
        PROVE  Pool' = Pool
    <2>1. CASE Fork(b, i) \/ Throw(b, i) \/ Finish(b, i) \/ Catch(b, i)
      BY <1>1, <2>1 DEF Fork, Throw, Finish, Catch
    <2>2. CASE Count(b, i)
      <3>1. task[b][i].by \in Workers => worker[task[b][i].by] = "busy"
        BY <2>2 DEF Count, Under, Inv, RunBy
      <3> QED
        BY <1>1, <1>3, <2>2, <3>1 DEF Count
    <2> QED
      BY <1>7, <2>1, <2>2 DEF BodyEnds
  <1>8. ASSUME NEW w \in Workers, WorkerStep(w) \/ Wake(w) PROVE Pool' = Pool
    BY <1>3, <1>8 DEF WorkerStep, Exit, Take, Sleep, Wake
  <1> QED
    BY <1>4, <1>5, <1>6, <1>7, <1>8 DEF Next

\* A step that opens no batch adds no credit.
Alike(g, f) == \A b \in Ids : /\ g[b].count = f[b].count /\ g[b].level = f[b].level
                              /\ g[b].split = f[b].split
Shrinks == /\ \A b \in Ids : Open(b)' => Open(b)
           /\ \A b \in Ids : Open(b)' => /\ batch'[b].count = batch[b].count
                                          /\ Share(b)' = Share(b)
           /\ \A b \in Ids, i \in Indices :
                /\ task'[b][i].at \in {"free", "run"} => task[b][i].at \in {"free", "run"}
                /\ task'[b][i].at = "forked" => task[b][i].at = "forked"

LEMMA WaitsShrink ==
  ASSUME WaitsHeld, Shrinks, Pool' = Pool, Threads' = Threads
  PROVE  WaitsHeld'
  <1>1. ASSUME NEW b \in Ids, NEW i \in Indices, NEW k \in Nat, Credit(b, i, k)'
        PROVE  Credit(b, i, k)
    <2>1. Open(b)' /\ i < batch'[b].count
      BY <1>1 DEF Credit
    <2>2. Open(b) /\ batch'[b].count = batch[b].count /\ Share(b)' = Share(b)
      BY <2>1 DEF Shrinks
    <2> QED
      BY <1>1, <2>1, <2>2 DEF Credit, Shrinks
  <1>2. Credits' \subseteq Credits
    BY <1>1 DEF Credits
  <1>3. ASSUME Pool # {}
        PROVE  IsFiniteSet(Credits') /\ Cardinality(Credits') <= MaxSplitLevels * Threads
    <2>1. IsFiniteSet(Credits) /\ Cardinality(Credits) <= MaxSplitLevels * Threads
      BY <1>3 DEF WaitsHeld
    <2>2. IsFiniteSet(Credits') /\ Cardinality(Credits') <= Cardinality(Credits)
      BY <1>2, <2>1, FS_Subset
    <2>3. Cardinality(Credits) \in Nat /\ Cardinality(Credits') \in Nat
      BY <2>1, <2>2, FS_CardinalityType
    <2>4. MaxSplitLevels * Threads \in Nat
      BY ThreadsType, BoundsAssumption
    <2> QED
      BY <2>1, <2>2, <2>3, <2>4
  <1> QED
    BY <1>3 DEF WaitsHeld

\* So a step that only moves open batches and ends bodies shrinks.
LEMMA AlikeShrinks ==
  ASSUME Alike(batch', batch), \A b \in Ids : batch'[b].at = batch[b].at \/ Open(b),
         \A b \in Ids, i \in Indices :
           /\ task'[b][i].at \in {"free", "run"} => task[b][i].at \in {"free", "run"}
           /\ task'[b][i].at = "forked" => task[b][i].at = "forked"
  PROVE  Shrinks
  BY DEF Alike, Shrinks, Share, Open

\* A claim shrinks, whoever makes it.
LEMMA ClaimShrinks ==
  ASSUME Inv, NEW c \in Ids, NEW by \in Workers \cup Ids, batch[c].next < batch[c].count, Begin(c, by),
         \/ batch' = [batch EXCEPT ![c].next = @ + 1]
         \/ by \in Ids /\ Open(by) /\ batch' = [batch EXCEPT ![c].next = @ + 1, ![by].at = "busy"]
  PROVE  Shrinks
  <1>a. batch \in [Ids -> Batches] /\ task \in [Ids -> [Indices -> Tasks]]
    BY DEF Inv, TypeOK
  <1> PICK g : g = [batch EXCEPT ![c].next = @ + 1]
    OBVIOUS
  <1>1. g \in [Ids -> Batches]
    <2>1. batch[c].next + 1 \in 0..MaxWidth
      BY BeginType
    <2> QED
      BY <2>1, BatchSet
  <1>2. Alike(g, batch) /\ \A d \in Ids : g[d].at = batch[d].at
    <2>1. g[c] = [batch[c] EXCEPT !.next = @ + 1] /\ \A d \in Ids \ {c} : g[d] = batch[d]
      BY <1>a
    <2> QED
      BY <1>a, <2>1 DEF Alike, Batches
  <1>0. \/ batch' = g
        \/ by \in Ids /\ Open(by) /\ batch' = [g EXCEPT ![by].at = "busy"]
    OBVIOUS
  <1>3. Alike(batch', batch) /\ \A d \in Ids : batch'[d].at = batch[d].at \/ Open(d)
    <2>1. CASE batch' = g
      BY <1>2, <2>1
    <2>2. CASE by \in Ids /\ Open(by) /\ batch' = [g EXCEPT ![by].at = "busy"]
      <3>1. batch'[by] = [g[by] EXCEPT !.at = "busy"] /\ \A d \in Ids \ {by} : batch'[d] = g[d]
        BY <1>1, <2>2
      <3>2. Alike(batch', g) /\ \A d \in Ids \ {by} : batch'[d].at = g[d].at
        BY <1>1, <2>2, <3>1 DEF Alike, Batches
      <3>3. Alike(batch', batch)
        BY <1>2, <3>2 DEF Alike
      <3>4. ASSUME NEW d \in Ids PROVE batch'[d].at = batch[d].at \/ Open(d)
        BY <1>2, <2>2, <3>2
      <3> QED
        BY <3>3, <3>4
    <2> QED
      BY <1>0, <2>1, <2>2
  <1>4. \A d \in Ids, j \in Indices : /\ task'[d][j].at = "run" => task[d][j].at \in {"free", "run"}
                                      /\ task'[d][j].at # "run" => task'[d][j] = task[d][j]
    <2>1. /\ batch[c].next \in Indices /\ task[c][batch[c].next] = Free
          /\ task' = [task EXCEPT ![c][batch[c].next] = [at |-> "run", by |-> by, hits |-> 1]]
      BY BeginType
    <2> QED
      BY <2>1, <1>a DEF Free
  <1> QED
    BY <1>3, <1>4, AlikeShrinks

\* So do the other steps of parallel_for,
LEMMA ShrinksWait ==
  ASSUME Inv, NEW b \in Ids, WaitStep(b)
  PROVE  Shrinks
  <1>a. batch \in [Ids -> Batches] /\ task \in [Ids -> [Indices -> Tasks]]
    BY DEF Inv, TypeOK
  <1>b. batch[b].at # "none" /\ batch[b].at # "over"
    BY DEF WaitStep, Notify, Look, Help, Erase, Iterate, Return
  <1>1. ASSUME NEW a, batch' = [batch EXCEPT ![b].at = a],
               \A d \in Ids, j \in Indices : /\ task'[d][j].at \in {"free", "run"} => task[d][j].at \in {"free", "run"}
                                             /\ task'[d][j].at = "forked" => task[d][j].at = "forked"
        PROVE  Shrinks
    <2>1. batch'[b] = [batch[b] EXCEPT !.at = a] /\ \A d \in Ids \ {b} : batch'[d] = batch[d]
      BY <1>1, <1>a
    <2>2. Alike(batch', batch)
      BY <1>a, <2>1 DEF Alike, Batches
    <2> QED
      BY <1>1, <1>b, <2>1, <2>2, AlikeShrinks DEF Open
  <1>2. CASE Notify(b) \/ Look(b) \/ Erase(b)
    BY <1>1, <1>2 DEF Notify, Look, Erase
  <1>3. CASE Help(b)
    <2>1. CASE MayHelp(b)
      <3>1. PICK c \in Ids : /\ Newest(c) /\ Begin(c, b)
                             /\ batch' = [batch EXCEPT ![c].next = @ + 1, ![b].at = "busy"]
        BY <1>3, <2>1 DEF Help
      <3> QED
        BY <3>1, <1>b, ClaimShrinks DEF Newest, Pending, Open
    <2>2. CASE ~MayHelp(b)
      BY <1>1, <1>3, <2>2 DEF Help
    <2> QED
      BY <2>1, <2>2
  <1>4. CASE Iterate(b)
    <2>1. CASE /\ batch[b].next < batch[b].count /\ Begin(b, b)
               /\ batch' = [batch EXCEPT ![b].next = @ + 1, ![b].at = "busy"]
      BY <1>b, <2>1, ClaimShrinks DEF Open
    <2>2. CASE batch' = [batch EXCEPT ![b].at = "return"] /\ UNCHANGED task
      BY <1>1, <2>2
    <2> QED
      BY <1>4, <2>1, <2>2 DEF Iterate
  <1>5. CASE Return(b)
    <2>1. CASE UNCHANGED task
      BY <1>1, <1>5, <2>1 DEF Return
    <2>2. CASE batch[b].from # Caller
      <3>1. batch[b].from \in Ids /\ batch[b].nth \in Indices
        BY <1>a, <1>b, <2>2 DEF Inv, ForkedFrom, Open, Batches
      <3>2. PICK a \in {"threw", "joined"} : task' = [task EXCEPT ![batch[b].from][batch[b].nth].at = a]
        BY <1>5, <2>2 DEF Return
      <3>3. \A d \in Ids, j \in Indices : task'[d][j].at \in {"free", "run", "forked"} => task'[d][j] = task[d][j]
        <4>1. PICK d \in Ids, j \in Indices : d = batch[b].from /\ j = batch[b].nth
          BY <3>1
        <4>2. task' = [task EXCEPT ![d][j].at = a]
          BY <3>2, <4>1
        <4>3. /\ task'[d][j] = [task[d][j] EXCEPT !.at = a] /\ task[d][j] \in Tasks
              /\ \A e \in Ids, k \in Indices : ~(e = d /\ k = j) => task'[e][k] = task[e][k]
          BY <1>a, <4>2
        <4>4. task'[d][j].at = a
          BY <4>3 DEF Tasks
        <4> QED
          BY <4>3, <4>4
      <3>4. batch' = [batch EXCEPT ![b].at = "over"]
        BY <1>5 DEF Return
      <3>5. \A d \in Ids, j \in Indices : /\ task'[d][j].at \in {"free", "run"} => task[d][j].at \in {"free", "run"}
                                          /\ task'[d][j].at = "forked" => task[d][j].at = "forked"
        BY <3>3
      <3> QED
        BY <1>1, <3>4, <3>5
    <2> QED
      BY <1>5, <2>1, <2>2 DEF Return
  <1> QED
    BY <1>2, <1>3, <1>4, <1>5 DEF WaitStep

\* and those of a body that does not fork.
LEMMA ShrinksBody ==
  ASSUME Inv, NEW b \in Ids, NEW i \in Indices, Throw(b, i) \/ BodyEnds(b, i)
  PROVE  Shrinks
  <1>a. batch \in [Ids -> Batches] /\ task \in [Ids -> [Indices -> Tasks]]
    BY DEF Inv, TypeOK
  <1>b. Under(b, i) /\ Open(b) /\ (task[b][i].by \in Ids => Open(task[b][i].by))
    <2>1. Under(b, i)
      BY DEF Throw, BodyEnds, Finish, Catch, Count, Under
    <2> QED
      BY <2>1, UnderOpen DEF Open, Inv, RunBy
  <1>1. \A d \in Ids, j \in Indices : task'[d][j].at \in {"free", "run", "forked"} => task'[d][j] = task[d][j]
    <2>1. CASE \E a \in {"threw", "count"} : task' = [task EXCEPT ![b][i].at = a]
      BY <2>1, TaskSet
    <2>2. CASE task' = Closed(b, i)
      BY <2>2, TaskOver
    <2> QED
      BY <2>1, <2>2 DEF Throw, BodyEnds, Finish, Catch, Count
  <1>2. Alike(batch', batch) /\ \A d \in Ids : (batch'[d].at = batch[d].at \/ Open(d))
    <2>1. CASE UNCHANGED batch
      BY <2>1 DEF Alike
    <2>2. CASE batch' = [batch EXCEPT ![b].at = "loop"] \/ batch' = [batch EXCEPT ![b].error = TRUE]
      <3>1. /\ batch'[b] = [batch[b] EXCEPT !.at = "loop"] \/ batch'[b] = [batch[b] EXCEPT !.error = TRUE]
            /\ \A d \in Ids \ {b} : batch'[d] = batch[d]
        BY <1>a, <2>2
      <3>2. Alike(batch', batch)
        BY <1>a, <3>1 DEF Alike, Batches
      <3>3. ASSUME NEW d \in Ids PROVE batch'[d].at = batch[d].at \/ Open(d)
        BY <1>a, <1>b, <3>1 DEF Batches
      <3> QED
        BY <3>2, <3>3
    <2>3. CASE batch' = [batch EXCEPT ![b].error = TRUE, ![b].at = "return"]
      <3>1. /\ batch'[b] = [batch[b] EXCEPT !.error = TRUE, !.at = "return"]
            /\ \A d \in Ids \ {b} : batch'[d] = batch[d]
        BY <1>a, <2>3
      <3>2. Alike(batch', batch)
        <4>0. PICK r : r = [batch[b] EXCEPT !.error = TRUE]
          OBVIOUS
        <4>1. batch'[b].count = batch[b].count /\ batch'[b].level = batch[b].level /\ batch'[b].split = batch[b].split
          <5>1. batch[b] \in Batches
            BY <1>a
          <5>2. r \in Batches /\ r.count = batch[b].count /\ r.level = batch[b].level /\ r.split = batch[b].split
            BY <4>0, <5>1 DEF Batches
          <5>3. batch'[b] = [r EXCEPT !.at = "return"]
            BY <3>1, <4>0
          <5> QED
            BY <5>2, <5>3 DEF Batches
        <4> QED
          BY <3>1, <4>1 DEF Alike
      <3>3. ASSUME NEW d \in Ids PROVE batch'[d].at = batch[d].at \/ Open(d)
        BY <1>a, <1>b, <3>1 DEF Batches
      <3> QED
        BY <3>2, <3>3
    <2>4. CASE Count(b, i)
      <3> PICK n : n = batch[b].remaining - 1
        OBVIOUS
      <3> PICK g : g = [batch EXCEPT ![b].remaining = n]
        OBVIOUS
      <3>1. Alike(g, batch) /\ \A d \in Ids : g[d].at = batch[d].at
        <4>1. g[b] = [batch[b] EXCEPT !.remaining = n] /\ \A d \in Ids \ {b} : g[d] = batch[d]
          BY <1>a
        <4> QED
          BY <1>a, <4>1 DEF Alike, Batches
      <3>2. CASE batch' = g
        BY <3>1, <3>2
      <3>3. CASE task[b][i].by \in Ids /\ batch' = [g EXCEPT ![task[b][i].by].at = "look"]
        <4>1. g \in [Ids -> Batches]
          <5>1. ~batch[b].looped
            BY <1>b, <2>4 DEF Count, Inv, RunBy
          <5>2. batch[b].remaining \in Nat \ {0} /\ batch[b].remaining \in 0..MaxWidth
            BY <1>a, <1>b, <5>1, UnderLeft DEF Batches
          <5>3. n \in 0..MaxWidth
            BY <5>2, BoundsAssumption
          <5> QED
            BY <1>a, <5>3, BatchTypes
        <4>2. PICK c \in Ids : c = task[b][i].by /\ Open(c)
          BY <1>b, <3>3
        <4>3. batch'[c] = [g[c] EXCEPT !.at = "look"] /\ \A d \in Ids \ {c} : batch'[d] = g[d]
          BY <3>3, <4>1, <4>2
        <4>4. Alike(batch', g)
          BY <4>1, <4>3 DEF Alike, Batches
        <4>5. Alike(batch', batch)
          BY <3>1, <4>4 DEF Alike
        <4>6. ASSUME NEW d \in Ids PROVE batch'[d].at = batch[d].at \/ Open(d)
          BY <3>1, <4>2, <4>3
        <4> QED
          BY <4>5, <4>6
      <3> QED
        BY <2>4, <3>2, <3>3 DEF Count
    <2> QED
      BY <2>1, <2>2, <2>3, <2>4 DEF Throw, BodyEnds, Finish, Catch
  <1> QED
    BY <1>1, <1>2, AlikeShrinks

\* A batch opened with its share shared out: its credits are as many as its calls' worths.
LEMMA OpenedCredits ==
  ASSUME Inv, NEW from \in Ids \cup {Caller}, NEW nth \in Nat, NEW n \in Sizes,
         NEW level \in 0..MaxSplitLevels + 1, NEW split \in Nat,
         ParallelFor(from, nth, n, level, split),
         NEW w, w = Worth(MaxSplitLevels - level, split), NEW new, new = made + 1,
         \A b \in Ids, i \in Indices : task'[b][i] # task[b][i] => task[b][i].at = "run"
  PROVE  /\ new \in Ids /\ ~Open(new)
         /\ w \in Nat
         /\ \A i \in Indices, k \in Nat : Credit(new, i, k)' => i < n /\ k \in 1..w
         /\ \A b \in Ids \ {new} : batch'[b] = batch[b]
  <1> USE BoundsAssumption
  <1>a. batch \in [Ids -> Batches] /\ task \in [Ids -> [Indices -> Tasks]]
    BY DEF Inv, TypeOK
  <1>1. new \in Ids /\ made \in Nat
    <2>1. made' = made + 1 /\ made' \in Ids
      BY ParallelForType
    <2>2. made \in Nat
      BY DEF Inv, TypeOK
    <2> QED
      BY <2>1, <2>2
  <1>2. PICK at \in {"loop", "notify"} : batch' = [batch EXCEPT ![new] = Opened(from, nth, n, level, split, at)]
    BY DEF ParallelFor
  <1>3. /\ batch'[new] = Opened(from, nth, n, level, split, at)
        /\ \A d \in Ids \ {new} : batch'[d] = batch[d]
    BY <1>a, <1>1, <1>2
  <1>4. batch'[new].count = n /\ batch'[new].level = level /\ batch'[new].split = split
    BY <1>3 DEF Opened
  <1>5. batch[new] = Unmade
    BY <1>1 DEF Inv, Made
  <1>6. ASSUME NEW i \in Indices PROVE task'[new][i].at = "free"
    <2>1. batch[new].next = 0 /\ i >= 0
      BY <1>1, <1>5 DEF Unmade, Indices
    <2>2. task[new][i] = Free
      BY <1>1, <2>1 DEF Inv, Claimed
    <2> QED
      BY <1>1, <2>2 DEF Free
  <1>7. Share(new)' = w
    BY <1>4 DEF Share
  <1>8. ASSUME NEW i \in Indices, NEW k \in Nat, Credit(new, i, k)' PROVE i < n /\ k \in 1..w
    BY <1>4, <1>6, <1>7, <1>8 DEF Credit
  <1>9. w \in Nat
    BY MaxSplitLevels - level \in Int, WorthType
  <1>10. ~Open(new)
    BY <1>5 DEF Open, Unmade
  <1> QED
    BY <1>1, <1>3, <1>8, <1>9, <1>10

\* A body that forks pays for its wait, and for all of the batch it opens, out of its own credits.
LEMMA WaitsFork ==
  ASSUME Inv, WaitsHeld, NEW b \in Ids, NEW i \in Indices, Fork(b, i), Pool' = Pool, Threads' = Threads
  PROVE  WaitsHeld'
  <1> USE BoundsAssumption
  <1>a. batch \in [Ids -> Batches] /\ task \in [Ids -> [Indices -> Tasks]]
    BY DEF Inv, TypeOK
  <1>1. PICK c \in Widths, n \in Sizes :
          /\ n <= c
          /\ Forks(batch[b].split, batch[b].level, c)
          /\ ParallelFor(b, i, n, batch[b].level + 1, ChildSplit(batch[b].split, c))
    BY DEF Fork
  <1>2. c \in Nat /\ c >= 2 /\ n \in Nat
    BY WidthsAssumption
  <1> PICK s, l, j : s = batch[b].split /\ l = batch[b].level /\ j = MaxSplitLevels - l
    OBVIOUS
  <1>3. s \in Nat /\ s > 1 /\ l \in Nat /\ l + 1 \in 0..MaxSplitLevels + 1 /\ j \in Nat /\ j >= 1
    BY <1>a, <1>1 DEF Forks, Batches
  <1> PICK t : t = ChildSplit(s, c)
    OBVIOUS
  <1>4. t \in Nat /\ (t > 1 => c * t <= s)
    BY <1>2, <1>3, ShareType
  <1> PICK w : w = Worth(j - 1, t)
    OBVIOUS
  <1>5. 1 + n * w <= Worth(j, s)
    BY <1>1, <1>2, <1>3, <1>4, WorthForked
  <1>6. task' = [task EXCEPT ![b][i].at = "forked"] /\ task[b][i].at = "run"
    BY DEF Fork
  <1>7. /\ task'[b][i].at = "forked"
        /\ \A d \in Ids, m \in Indices : ~(d = b /\ m = i) => task'[d][m] = task[d][m]
    BY <1>6, TaskSet
  <1> PICK new : new = made + 1
    OBVIOUS
  <1>8. /\ new \in Ids /\ ~Open(new) /\ w \in Nat
        /\ \A m \in Indices, k \in Nat : Credit(new, m, k)' => m < n /\ k \in 1..w
        /\ \A d \in Ids \ {new} : batch'[d] = batch[d]
    <2>1. w = Worth(MaxSplitLevels - (l + 1), t)
      BY <1>3, j - 1 = MaxSplitLevels - (l + 1)
    <2>2. ParallelFor(b, i, n, l + 1, t)
      BY <1>1
    <2>3. \A d \in Ids, m \in Indices : task'[d][m] # task[d][m] => task[d][m].at = "run"
      BY <1>6, <1>7
    <2>4. i \in Nat /\ b \in Ids \cup {Caller}
      BY DEF Indices
    <2> QED
      BY <1>3, <1>4, <2>1, <2>2, <2>3, <2>4, OpenedCredits
  <1>0. n * w \in Nat /\ Worth(j, s) \in Nat
    <2>1. n * w \in Nat
      BY <1>2, <1>8, Z3
    <2>2. j \in Int
      BY <1>3
    <2>3. Worth(j, s) \in Nat
      BY <1>3, <2>2, WorthType
    <2> QED
      BY <2>1, <2>3
  <1>9. Open(b) /\ i < batch[b].count /\ b # new /\ Share(b) = Worth(j, s)
    <2>1. Under(b, i)
      BY <1>6 DEF Under
    <2>2. Open(b) /\ i < batch[b].count
      BY <2>1, UnderOpen, UnderLeft DEF Open
    <2> QED
      BY <1>8, <2>2 DEF Share, Open
  <1>10. \A k \in 1..Worth(j, s) : <<b, i, k>> \in Credits
    BY <1>6, <1>9 DEF Credits, Credit
  <1> DEFINE f == [x \in Credits' |-> IF x[1] = new THEN <<b, i, 1 + (x[2] * w + x[3])>>
                                      ELSE IF x = <<b, i, 0>> THEN <<b, i, 1>> ELSE x]
  <1>11. ASSUME NEW d \in Ids, NEW m \in Indices, NEW k \in Nat, Credit(d, m, k)'
         PROVE  \/ d = new /\ m < n /\ k \in 1..w
                \/ d # new /\ d = b /\ m = i /\ k = 0
                \/ d # new /\ ~(d = b /\ m = i) /\ <<d, m, k>> \in Credits
    <2>1. CASE d = new
      BY <1>8, <1>11, <2>1
    <2>2. CASE d # new /\ d = b /\ m = i
      BY <1>7, <1>11, <2>2 DEF Credit
    <2>3. CASE d # new /\ ~(d = b /\ m = i)
      <3>1. batch'[d] = batch[d] /\ task'[d][m] = task[d][m]
        BY <1>7, <1>8, <2>3
      <3>2. Credit(d, m, k)
        BY <1>11, <3>1 DEF Credit, Open, Share
      <3> QED
        BY <2>3, <3>2 DEF Credits
    <2> QED
      BY <2>1, <2>2, <2>3
  <1>12. ASSUME NEW m \in Nat, NEW k \in 1..w, m < n
         PROVE  m * w + k \in Nat \ {0} /\ 1 + (m * w + k) \in 2..Worth(j, s)
    <2>1. m * w + k \in 1..n * w
      BY <1>2, <1>8, <1>12, Rows
    <2> QED
      BY <1>5, <1>0, <2>1
  <1>13. f \in [Credits' -> Credits]
    <2> SUFFICES ASSUME NEW x \in Credits' PROVE f[x] \in Credits
      OBVIOUS
    <2>0. PICK d \in Ids, m \in Indices, k \in Nat : x = <<d, m, k>> /\ Credit(d, m, k)'
      BY DEF Credits
    <2>1. CASE d = new /\ m < n /\ k \in 1..w
      <3>1. f[x] = <<b, i, 1 + (m * w + k)>>
        BY <2>0, <2>1
      <3>2. 1 + (m * w + k) \in 1..Worth(j, s)
        BY <1>12, <2>1 DEF Indices
      <3> QED
        BY <1>10, <3>1, <3>2
    <2>2. CASE d # new /\ d = b /\ m = i /\ k = 0
      <3>1. f[x] = <<b, i, 1>>
        BY <2>0, <2>2
      <3>2. 1 \in 1..Worth(j, s)
        BY <1>5, <1>0
      <3> QED
        BY <1>10, <3>1, <3>2
    <2>3. CASE d # new /\ ~(d = b /\ m = i) /\ <<d, m, k>> \in Credits
      BY <2>0, <2>3
    <2> QED
      BY <1>11, <2>0, <2>1, <2>2, <2>3
  <1>14. ASSUME NEW x \in Credits', NEW y \in Credits', f[x] = f[y]
         PROVE  x = y
    <2>1. PICK d \in Ids, m \in Indices, k \in Nat : x = <<d, m, k>> /\ Credit(d, m, k)'
      BY DEF Credits
    <2>2. PICK e \in Ids, o \in Indices, h \in Nat : y = <<e, o, h>> /\ Credit(e, o, h)'
      BY DEF Credits
    <2>3. \/ d = new /\ m < n /\ k \in 1..w /\ m \in Nat /\ f[x] = <<b, i, 1 + (m * w + k)>> /\ 1 + (m * w + k) # 1
          \/ d # new /\ d = b /\ m = i /\ k = 0 /\ f[x] = <<b, i, 1>>
          \/ d # new /\ ~(d = b /\ m = i) /\ f[x] = <<d, m, k>>
      BY <1>11, <1>12, <2>1 DEF Indices
    <2>4. \/ e = new /\ o < n /\ h \in 1..w /\ o \in Nat /\ f[y] = <<b, i, 1 + (o * w + h)>> /\ 1 + (o * w + h) # 1
          \/ e # new /\ e = b /\ o = i /\ h = 0 /\ f[y] = <<b, i, 1>>
          \/ e # new /\ ~(e = b /\ o = i) /\ f[y] = <<e, o, h>>
      BY <1>11, <1>12, <2>2 DEF Indices
    <2> HIDE DEF f
    <2>5. CASE d = new /\ e = new
      <3>1. 1 + (m * w + k) = 1 + (o * w + h)
        BY <1>14, <2>3, <2>4, <2>5
      <3>2. m * w + k \in Nat /\ o * w + h \in Nat
        BY <1>12, <2>3, <2>4, <2>5
      <3>3. m = o /\ k = h
        BY <1>8, <2>3, <2>4, <2>5, <3>1, <3>2, RowsOne
      <3> QED
        BY <2>1, <2>2, <2>5, <3>3
    <2>6. CASE ~(d = new /\ e = new)
      BY <1>14, <2>1, <2>2, <2>3, <2>4, <2>6
    <2> QED
      BY <2>5, <2>6
  <1>15. f \in Injection(Credits', Credits)
    <2> HIDE DEF f
    <2> QED
      BY <1>13, <1>14 DEF Injection, IsInjective
  <1>16. ASSUME Pool # {}
         PROVE  IsFiniteSet(Credits') /\ Cardinality(Credits') <= MaxSplitLevels * Threads
    <2>1. IsFiniteSet(Credits) /\ Cardinality(Credits) <= MaxSplitLevels * Threads
      BY <1>16 DEF WaitsHeld
    <2>2. IsFiniteSet(Credits') /\ Cardinality(Credits') <= Cardinality(Credits)
      BY ONLY <1>15, <2>1, FS_Injection
    <2>3. Cardinality(Credits) \in Nat /\ Cardinality(Credits') \in Nat
      BY <2>1, <2>2, FS_CardinalityType
    <2>4. MaxSplitLevels * Threads \in Nat
      BY ThreadsType
    <2> QED
      BY <2>1, <2>2, <2>3, <2>4
  <1> QED
    BY <1>16 DEF WaitsHeld

\* The owner's call finds no credits, and hands out no more than the levels for each thread.
LEMMA WaitsCall ==
  ASSUME Inv, Call, Pool' = Pool, Threads' = Threads
  PROVE  WaitsHeld'
  <1> USE BoundsAssumption
  <1>a. batch \in [Ids -> Batches] /\ task \in [Ids -> [Indices -> Tasks]]
    BY DEF Inv, TypeOK
  <1>b. {d \in Ids : Open(d)} = {}
    <2>1. \A d \in Ids : Open(d) => batch[d].from # Caller
      BY DEF Call, Inv, ForkedFrom
    <2> DEFINE S == {d \in Ids : Open(d)}
    <2>2. \A d \in Ids \ S : ~Open(d) \/ batch[d].at = "return"
      OBVIOUS
    <2>3. S \in SUBSET {d \in Ids : Open(d)} /\ \A d \in S : batch[d].from # Caller
      BY <2>1
    <2> HIDE DEF S
    <2>4. S = {}
      BY <2>2, <2>3, RootAlone
    <2> QED
      BY <2>4 DEF S
  <1> SUFFICES ASSUME Pool # {}
               PROVE  IsFiniteSet(Credits') /\ Cardinality(Credits') <= MaxSplitLevels * Threads
    BY DEF WaitsHeld
  <1>1. PICK c \in Widths, n \in Sizes :
          /\ n <= c
          /\ \/ /\ Forks(SplitBudget, 0, c)
                /\ ParallelFor(Caller, 0, n, 1, ChildSplit(SplitBudget, c))
             \/ ParallelFor(Caller, 0, n, 1, 1)
    BY DEF Call
  <1>2. c \in Nat /\ c >= 2 /\ n \in Nat /\ Threads \in Nat
    BY WidthsAssumption, ThreadsType
  <1>3. SplitBudget = 4 * Threads /\ SplitBudget \in Nat
    BY <1>2 DEF SplitBudget
  <1>4. PICK t \in Nat : /\ ParallelFor(Caller, 0, n, 1, t)
                         /\ \/ MaxSplitLevels >= 1 /\ (t > 1 => c * t <= 4 * Threads)
                            \/ t = 1
    <2>1. CASE Forks(SplitBudget, 0, c) /\ ParallelFor(Caller, 0, n, 1, ChildSplit(SplitBudget, c))
      <3>1. ChildSplit(4 * Threads, c) \in Nat
            /\ (ChildSplit(4 * Threads, c) > 1 => c * ChildSplit(4 * Threads, c) <= 4 * Threads)
        BY <1>2, <1>3, ShareType
      <3>2. MaxSplitLevels >= 1
        BY <2>1 DEF Forks
      <3> QED
        BY <1>3, <2>1, <3>1, <3>2
    <2>2. CASE ParallelFor(Caller, 0, n, 1, 1)
      BY <2>2
    <2> QED
      BY <1>1, <2>1, <2>2
  <1> PICK w : w = Worth(MaxSplitLevels - 1, t)
    OBVIOUS
  <1>5. n * w <= MaxSplitLevels * Threads
    <2>1. CASE MaxSplitLevels >= 1 /\ (t > 1 => c * t <= 4 * Threads)
      BY <1>1, <1>2, <2>1, WorthRoot
    <2>2. CASE t = 1
      <3>1. w = 0
        BY <2>2 DEF Worth
      <3>2. n * w = 0 /\ MaxSplitLevels * Threads \in Nat
        BY <1>2, <3>1, Z3
      <3> QED
        BY <3>2
    <2> QED
      BY <1>4, <2>1, <2>2
  <1> PICK new : new = made + 1
    OBVIOUS
  <1>6. /\ new \in Ids /\ w \in Nat
        /\ \A m \in Indices, k \in Nat : Credit(new, m, k)' => m < n /\ k \in 1..w
        /\ \A d \in Ids \ {new} : batch'[d] = batch[d]
    <2>1. \A d \in Ids, m \in Indices : task'[d][m] # task[d][m] => task[d][m].at = "run"
      BY DEF Call
    <2>2. Caller \in Ids \cup {Caller} /\ 0 \in Nat /\ 1 \in 0..MaxSplitLevels + 1
      OBVIOUS
    <2> QED
      BY <1>4, <2>1, <2>2, OpenedCredits
  <1>7. \A x \in Credits' : x[1] = new /\ x[2] \in Nat /\ x[2] < n /\ x[3] \in 1..w
    <2> SUFFICES ASSUME NEW d \in Ids, NEW m \in Indices, NEW k \in Nat, Credit(d, m, k)'
                 PROVE  d = new /\ m \in Nat /\ m < n /\ k \in 1..w
      BY DEF Credits
    <2>1. d = new
      <3> SUFFICES ASSUME d # new PROVE FALSE
        OBVIOUS
      <3>1. batch'[d] = batch[d] /\ ~Open(d)
        BY <1>b, <1>6
      <3> QED
        BY <3>1 DEF Credit, Open
    <2> QED
      BY <1>6, <2>1 DEF Indices
  <1>0. n * w \in Nat /\ MaxSplitLevels * Threads \in Nat
    BY <1>2, <1>6, Z3
  <1> DEFINE f == [x \in Credits' |-> x[2] * w + x[3]]
  <1>8. f \in [Credits' -> 1..MaxSplitLevels * Threads]
    <2> SUFFICES ASSUME NEW x \in Credits' PROVE f[x] \in 1..MaxSplitLevels * Threads
      OBVIOUS
    <2> PICK m, k : m = x[2] /\ k = x[3]
      OBVIOUS
    <2>1. m * w + k \in 1..n * w
      BY <1>2, <1>6, <1>7, Rows
    <2> QED
      BY <1>0, <1>5, <2>1
  <1>9. ASSUME NEW x \in Credits', NEW y \in Credits', f[x] = f[y] PROVE x = y
    <2>1. PICK m, k, o, h : x = <<new, m, k>> /\ y = <<new, o, h>>
      <3>1. PICK d \in Ids, m \in Indices, k \in Nat : x = <<d, m, k>>
        BY DEF Credits
      <3>2. PICK e \in Ids, o \in Indices, h \in Nat : y = <<e, o, h>>
        BY DEF Credits
      <3> QED
        BY <1>7, <3>1, <3>2
    <2>2. m \in Nat /\ o \in Nat /\ k \in 1..w /\ h \in 1..w
      BY <1>7, <2>1
    <2>3. m * w + k = o * w + h
      BY <1>9, <2>1
    <2>4. m = o /\ k = h
      BY <1>6, <2>2, <2>3, RowsOne
    <2> QED
      BY <2>1, <2>4
  <1>10. f \in Injection(Credits', 1..MaxSplitLevels * Threads)
    <2> HIDE DEF f
    <2> QED
      BY <1>8, <1>9 DEF Injection, IsInjective
  <1>11. /\ IsFiniteSet(1..MaxSplitLevels * Threads)
         /\ Cardinality(1..MaxSplitLevels * Threads) = MaxSplitLevels * Threads
    BY <1>0, FS_Interval
  <1> QED
    BY ONLY <1>10, <1>11, FS_Injection

\* Every step keeps the credits within their bound.
LEMMA WaitsStep ==
  ASSUME Inv, WaitsHeld, [Next]_vars
  PROVE  WaitsHeld'
  <1>0. Pool' = Pool /\ Threads' = Threads
    BY PoolSame
  <1>1. ASSUME UNCHANGED <<batch, task>> PROVE Shrinks
    BY <1>1 DEF Shrinks, Open, Share
  <1>2. CASE Stop \/ NotifyAll \/ Join \/ Gone \/ UNCHANGED vars
    BY <1>0, <1>1, <1>2, WaitsShrink DEF Stop, NotifyAll, Join, Gone, vars
  <1>3. CASE Call
    BY <1>0, <1>3, WaitsCall
  <1>4. ASSUME NEW b \in Ids, WaitStep(b) PROVE WaitsHeld'
    BY <1>0, <1>4, ShrinksWait, WaitsShrink
  <1>5. ASSUME NEW b \in Ids, NEW i \in Indices, Fork(b, i) \/ Throw(b, i) \/ BodyEnds(b, i) PROVE WaitsHeld'
    BY <1>0, <1>5, WaitsFork, ShrinksBody, WaitsShrink
  <1>6. ASSUME NEW w \in Workers, WorkerStep(w) \/ Wake(w) PROVE WaitsHeld'
    <2>1. CASE Take(w)
      <3>1. PICK c \in Ids : /\ Newest(c) /\ Begin(c, w)
                             /\ batch' = [batch EXCEPT ![c].next = @ + 1]
        BY <2>1 DEF Take
      <3>2. Shrinks
        BY <3>1, ClaimShrinks DEF Newest, Pending
      <3> QED
        BY <1>0, <3>2, WaitsShrink
    <2>2. CASE Exit(w) \/ Sleep(w) \/ Wake(w)
      BY <1>0, <1>1, <2>2, WaitsShrink DEF Exit, Sleep, Wake
    <2> QED
      BY <1>6, <2>1, <2>2 DEF WorkerStep
  <1> QED
    BY <1>2, <1>3, <1>4, <1>5, <1>6 DEF Next

-----------------------------------------------------------------------------

\* The bodies in work, those of them that wait for a batch they forked, and the waits and
\* workers that may have one on top.
InWork == {x \in Bodies : Under(x[1], x[2])}
Waiting == {x \in Bodies : task[x[1]][x[2]].at = "forked"}
OpenBatches == {b \in Ids : Open(b)}

\* Each body in work is run by a worker or by a wait, and by one that runs no other.
LEMMA InWorkBound ==
  ASSUME Inv
  PROVE  /\ IsFiniteSet(InWork) /\ IsFiniteSet(OpenBatches)
         /\ Cardinality(InWork) <= Cardinality(Pool) + Cardinality(OpenBatches)
  <1> USE BoundsAssumption, ThreadsAssumption
  <1> DEFINE f == [x \in InWork |-> task[x[1]][x[2]].by]
  <1>1. IsFiniteSet(Pool) /\ IsFiniteSet(OpenBatches)
    <2>1. IsFiniteSet(Ids)
      BY FS_Interval DEF Ids
    <2> QED
      BY <2>1, FS_Subset, ThreadsType DEF OpenBatches
  <1>2. f \in [InWork -> Pool \cup OpenBatches]
    <2> SUFFICES ASSUME NEW b \in Ids, NEW i \in Indices, Under(b, i)
                 PROVE  task[b][i].by \in Pool \cup OpenBatches
      BY DEF InWork, Bodies
    <2>1. CASE task[b][i].by \in Workers
      BY <2>1 DEF Inv, RunBy, Pool
    <2>2. CASE task[b][i].by \in Ids
      BY <2>2 DEF Inv, RunBy, OpenBatches, Open
    <2> QED
      BY <2>1, <2>2 DEF Inv, RunBy
  <1>3. ASSUME NEW x \in InWork, NEW y \in InWork, f[x] = f[y] PROVE x = y
    <2>1. PICK b \in Ids, i \in Indices : x = <<b, i>> /\ Under(b, i)
      BY DEF InWork, Bodies
    <2>2. PICK c \in Ids, j \in Indices : y = <<c, j>> /\ Under(c, j)
      BY DEF InWork, Bodies
    <2>3. task[b][i].by = task[c][j].by
      BY <1>3, <2>1, <2>2
    <2> QED
      BY <2>1, <2>2, <2>3 DEF Inv, RunByOne
  <1>4. f \in Injection(InWork, Pool \cup OpenBatches)
    <2> HIDE DEF f
    <2> QED
      BY <1>2, <1>3 DEF Injection, IsInjective
  <1>5. /\ IsFiniteSet(Pool \cup OpenBatches)
        /\ Cardinality(Pool \cup OpenBatches) = Cardinality(Pool) + Cardinality(OpenBatches)
    <2>1. Pool \cap OpenBatches = {}
      BY DEF Pool, OpenBatches
    <2>2. Cardinality(Pool \cap OpenBatches) = 0
      BY <2>1, FS_EmptySet
    <2>3. /\ IsFiniteSet(Pool \cup OpenBatches)
          /\ Cardinality(Pool \cup OpenBatches)
               = Cardinality(Pool) + Cardinality(OpenBatches) - Cardinality(Pool \cap OpenBatches)
      BY ONLY <1>1, FS_Union
    <2> QED
      BY <1>1, <2>2, <2>3, FS_CardinalityType
  <1>6. IsFiniteSet(InWork) /\ Cardinality(InWork) <= Cardinality(Pool \cup OpenBatches)
    BY ONLY <1>4, <1>5, FS_Injection
  <1> QED
    BY <1>1, <1>5, <1>6

\* Each open batch was forked by a body that waits for it, but for the owner's.
LEMMA OpenBound ==
  ASSUME Inv
  PROVE  IsFiniteSet(Waiting) /\ Cardinality(OpenBatches) <= Cardinality(Waiting) + 1
  <1> USE BoundsAssumption
  <1> DEFINE Forked == {b \in OpenBatches : batch[b].from # Caller}
             Roots == {b \in OpenBatches : batch[b].from = Caller}
             f == [b \in Forked |-> <<batch[b].from, batch[b].nth>>]
  <1>1. Waiting \subseteq InWork /\ IsFiniteSet(InWork) /\ IsFiniteSet(OpenBatches)
    BY InWorkBound DEF Waiting, InWork, Under
  <1>2. IsFiniteSet(Waiting)
    BY <1>1, FS_Subset
  <1>3. f \in [Forked -> Waiting]
    <2> SUFFICES ASSUME NEW b \in Ids, Open(b), batch[b].from # Caller
                 PROVE  <<batch[b].from, batch[b].nth>> \in Waiting
      BY DEF OpenBatches
    <2>1. batch[b].from \in Ids
      BY DEF Inv, TypeOK, Batches
    <2> QED
      BY <2>1 DEF Inv, ForkedFrom, Waiting, Bodies
  <1>4. \A b, c \in Forked : f[b] = f[c] => b = c
    BY DEF Inv, ForkedOne, OpenBatches
  <1>5. Cardinality(Forked) <= Cardinality(Waiting)
    <2>1. f \in Injection(Forked, Waiting)
      <3> HIDE DEF f
      <3> QED
        BY <1>3, <1>4 DEF Injection, IsInjective
    <2> QED
      BY ONLY <1>2, <2>1, FS_Injection
  <1>6. IsFiniteSet(Roots) /\ Cardinality(Roots) <= 1
    <2>1. CASE Roots = {}
      BY <2>1, FS_EmptySet
    <2>2. CASE Roots # {}
      <3>1. PICK b \in Roots : TRUE
        BY <2>2
      <3>2. Roots = {b}
        BY <3>1 DEF Inv, ForkedOne, OpenBatches
      <3>3. IsFiniteSet({b}) /\ Cardinality({b}) = 1
        BY FS_Singleton
      <3> HIDE DEF Roots
      <3> QED
        BY <3>2, <3>3
    <2> QED
      BY <2>1, <2>2
  <1>7. /\ IsFiniteSet(Forked)
        /\ Cardinality(Forked \cup Roots) = Cardinality(Forked) + Cardinality(Roots) - Cardinality(Forked \cap Roots)
    BY <1>1, <1>6, FS_Subset, FS_Union
  <1>8. Cardinality(Forked) \in Nat /\ Cardinality(Roots) \in Nat /\ Cardinality(Forked \cap Roots) = 0
    <2>1. Forked \cap Roots = {}
      OBVIOUS
    <2> QED
      BY <1>6, <1>7, <2>1, FS_EmptySet, FS_CardinalityType
  <1>9. OpenBatches = Forked \cup Roots
    OBVIOUS
  <1>10. Cardinality(Waiting) \in Nat
    BY <1>2, FS_CardinalityType
  <1> HIDE DEF Forked, Roots
  <1> QED
    BY <1>2, <1>5, <1>6, <1>7, <1>8, <1>9, <1>10

\* So of the bodies in work as many do not wait as there are threads,
LEMMA TopsBound ==
  ASSUME Inv
  PROVE  Cardinality(InWork \ Waiting) <= Threads /\ IsFiniteSet(InWork \ Waiting)
  <1>1. Waiting \subseteq InWork
    BY DEF Waiting, InWork, Under
  <1>2. IsFiniteSet(InWork) /\ InWork \cap Waiting = Waiting
    BY <1>1, InWorkBound
  <1>3. /\ IsFiniteSet(InWork \ Waiting)
        /\ Cardinality(InWork \ Waiting) = Cardinality(InWork) - Cardinality(Waiting)
    BY <1>2, FS_Difference
  <1>4. /\ Cardinality(InWork) \in Nat /\ Cardinality(Waiting) \in Nat
        /\ Cardinality(OpenBatches) \in Nat /\ Cardinality(Pool) \in Nat
    BY InWorkBound, OpenBound, ThreadsType, FS_CardinalityType
  <1> QED
    BY <1>3, <1>4, InWorkBound, OpenBound DEF Threads

\* and those that wait are held by their credits.
LEMMA WaitingBound ==
  ASSUME Inv, WaitsHeld, Pool # {}
  PROVE  IsFiniteSet(Waiting) /\ Cardinality(Waiting) <= MaxSplitLevels * Threads
  <1> DEFINE f == [x \in Waiting |-> <<x[1], x[2], 0>>]
  <1>1. IsFiniteSet(Credits) /\ Cardinality(Credits) <= MaxSplitLevels * Threads
    BY DEF WaitsHeld
  <1>2. f \in [Waiting -> Credits]
    <2> SUFFICES ASSUME NEW b \in Ids, NEW i \in Indices, task[b][i].at = "forked"
                 PROVE  <<b, i, 0>> \in Credits
      BY DEF Waiting, Bodies
    <2>1. Under(b, i)
      BY DEF Under
    <2>2. Open(b) /\ i < batch[b].count
      BY <2>1, UnderOpen, UnderLeft DEF Open
    <2> QED
      BY <2>2 DEF Credits, Credit
  <1>3. \A x, y \in Waiting : f[x] = f[y] => x = y
    BY DEF Waiting, Bodies
  <1>4. f \in Injection(Waiting, Credits)
    <2> HIDE DEF f
    <2> QED
      BY <1>2, <1>3 DEF Injection, IsInjective
  <1>5. IsFiniteSet(Waiting) /\ Cardinality(Waiting) <= Cardinality(Credits)
    BY ONLY <1>1, <1>4, FS_Injection
  <1>6. Cardinality(Waiting) \in Nat /\ Cardinality(Credits) \in Nat /\ MaxSplitLevels * Threads \in Nat
    BY <1>1, <1>5, FS_CardinalityType, ThreadsType, BoundsAssumption
  <1> QED
    BY <1>1, <1>5, <1>6

\* No more scratch arenas are checked out at once than the memory estimate budgets for,
\* whatever the tree's widths and however the threads help each other.
THEOREM ArenasAreBounded == Spec => []ArenasBounded
  <1>1. Init => WaitsHeld
    <2> SUFFICES ASSUME Init PROVE WaitsHeld
      OBVIOUS
    <2>1. Credits = {}
      BY DEF Credits, Credit, Open, Init, Unmade
    <2>2. MaxSplitLevels * Threads \in Nat
      BY ThreadsType, BoundsAssumption
    <2> QED
      BY <2>1, <2>2, FS_EmptySet DEF WaitsHeld
  <1>2. Inv /\ WaitsHeld /\ [Next]_vars => WaitsHeld'
    BY WaitsStep
  <1>3. ASSUME Inv, WaitsHeld PROVE ArenasBounded
    <2> SUFFICES ASSUME Pool # {} PROVE LiveArenas <= Threads * (MaxSplitLevels + 1) + 1
      BY DEF ArenasBounded
    <2> DEFINE Live == {x \in Bodies : task[x[1]][x[2]].at \in {"run", "forked", "joined"}}
               Tops == InWork \ Waiting
    <2>1. IsFiniteSet(Tops) /\ Cardinality(Tops) <= Threads
      BY <1>3, TopsBound
    <2>2. IsFiniteSet(Waiting) /\ Cardinality(Waiting) <= MaxSplitLevels * Threads
      BY <1>3, WaitingBound
    <2>3. Live \in SUBSET (Tops \cup Waiting) /\ Tops \cap Waiting = {}
      BY DEF InWork, Waiting, Under
    <2> HIDE DEF Live, Tops
    <2>4. /\ IsFiniteSet(Tops \cup Waiting)
          /\ Cardinality(Tops \cup Waiting) = Cardinality(Tops) + Cardinality(Waiting)
      <3>1. /\ IsFiniteSet(Tops \cup Waiting)
            /\ Cardinality(Tops \cup Waiting)
                 = Cardinality(Tops) + Cardinality(Waiting) - Cardinality(Tops \cap Waiting)
        BY <2>1, <2>2, FS_Union
      <3>2. Cardinality(Tops \cap Waiting) = 0
        BY <2>3, FS_EmptySet
      <3>3. Cardinality(Tops) \in Nat /\ Cardinality(Waiting) \in Nat
        BY <2>1, <2>2, FS_CardinalityType
      <3> QED
        BY <3>1, <3>2, <3>3
    <2>5. IsFiniteSet(Live) /\ Cardinality(Live) <= Cardinality(Tops \cup Waiting)
      BY ONLY <2>3, <2>4, FS_Subset
    <2>6. /\ Cardinality(Live) \in Nat /\ Cardinality(Tops) \in Nat /\ Cardinality(Waiting) \in Nat
          /\ Threads \in Nat /\ MaxSplitLevels * Threads \in Nat
      BY <2>1, <2>2, <2>5, FS_CardinalityType, ThreadsType, BoundsAssumption
    <2>7. Threads * (MaxSplitLevels + 1) = MaxSplitLevels * Threads + Threads
      BY <2>6, BoundsAssumption, Z3
    <2> QED
      BY <2>1, <2>2, <2>4, <2>5, <2>6, <2>7 DEF LiveArenas, Live
  <1> QED
    BY <1>1, <1>2, <1>3, Invariance, PTL DEF Spec

=============================================================================
