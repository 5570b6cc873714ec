-------------------------- MODULE CompareQueueProofs --------------------------
(* For any number of watchers, users, jobs, attempts and faults, and whether   *)
(* or not handlers overlap: the types of CompareQueue, and that a stop, once   *)
(* no sweep holds the job from before it, is for good.  With handlers that do  *)
(* not overlap: that what a row says of its result is true, and that nothing   *)
(* fails unless something failed.                                              *)
EXTENDS CompareQueue, SequenceTheorems, TLAPS

-----------------------------------------------------------------------------
(* The inductive invariant.                                                    *)

Main(w) == call[<<w, "main">>]
Beats(w) == call[<<w, "beat">>]
OffWork == {"idle", "claiming", "down"}

\* The modes whose handler asks, when an output is missing, whether a stop was
\* applied, and the children they run.
Asking == {"compare", "pushfold", "publish"}
AskingChildren == {"solve", "extract", "dump"}
ChildKinds == AskingChildren \cup {"resolve", "reextract"}

\* What a request is depends on the slot it is in and on how far it has come.
CallFormed(s, c) == c.at # "free" =>
  /\ c.kind \in {"claim", "report", "publish"} => s[1] \in Watchers
  /\ c.kind \in {"cancel", "delete"} => s[1] \in Users
  /\ c.at \in {"sweep", "pop"} => c.kind = "claim"
  /\ c.at = "blobs" => c.kind = "delete"
  /\ c.at = "save" => c.kind # "claim"
  /\ c.kind # "claim" => c.job \in Jobs
  /\ c.kind = "claim" /\ c.at # "reply" => c.job = NoJob
  /\ c.job \in Jobs => job[c.job].status # "absent"

\* A watcher's process, its request and its heartbeat are of the same job.
WatcherFormed(w, p, c, b) ==
  /\ p.pc \notin OffWork => p.job \in Jobs /\ job[p.job].status # "absent"
  /\ p.pc = "claiming" <=> (c.at # "free" /\ c.kind = "claim")
  /\ p.pc = "reporting" <=> (c.at # "free" /\ c.kind # "claim")
  /\ c.at # "free" /\ c.kind # "claim" => c.job = p.job
  /\ c.at # "free" /\ c.kind = "report" => c.to # "beat"
  /\ c.at # "free" /\ c.kind = "report" /\ c.to = "Running" => p.todo # <<>>
  /\ p.pc \in {"claimed", "running", "stopping"} => p.todo # <<>>
  /\ p.pc = "stopping" => p.applied /\ Engine(p)
  /\ p.mode \in Asking => \A i \in 1..Len(p.todo) : p.todo[i] \in AskingChildren
  /\ p.pc \in {"claimed", "running", "stopping", "solved", "uploading"} => p.out = "result"
  /\ c.at # "free" /\ (c.kind = "publish" \/ (c.kind = "report" /\ c.to \notin Terminal)) => p.out = "result"
  /\ p.pc = "reporting" /\ c.kind = "publish" => p.mode = "publish"
  /\ b.at # "free" => b.kind = "report" /\ b.to = "beat" /\ b.job = p.job /\ p.pc \notin OffWork

Formed == /\ \A s \in Slots : CallFormed(s, call[s])
          /\ \A w \in Watchers : WatcherFormed(w, watcher[w], Main(w), Beats(w))

TypeInv == TypeOK /\ Formed

-----------------------------------------------------------------------------
(* What is fixed.                                                              *)

LEMMA SlotTypes ==
  /\ \A w \in Watchers : /\ <<w, "main">> \in Slots /\ <<w, "beat">> \in Slots /\ <<w, "late">> \in Slots
                         /\ <<w, "main">>[1] = w /\ <<w, "main">>[2] = "main"
                         /\ <<w, "beat">>[1] = w /\ <<w, "beat">>[2] = "beat"
                         /\ <<w, "late">>[1] = w /\ <<w, "late">>[2] = "late"
                         /\ <<w, "main">> # <<w, "beat">> /\ <<w, "main">> # <<w, "late">>
                         /\ <<w, "beat">> # <<w, "late">> /\ w \notin Users
  /\ \A v, w \in Watchers : v # w => \A a, b \in {"main", "beat", "late"} : <<v, a>> # <<w, b>>
  /\ \A u \in Users : <<u, "main">> \in Slots /\ <<u, "main">>[1] = u
                      /\ \A w \in Watchers, a \in {"main", "beat", "late"} : <<u, "main">> # <<w, a>>
  /\ \A s \in Slots : s[1] \in Watchers \cup Users
  /\ \A s \in Slots : s[1] \in Users => s[2] = "main"
  BY NullAssumption DEF Slots

\* The children of each mode.
LEMMA ChildrenTypes ==
  \A mode \in DOMAIN Children :
    /\ Children[mode] \in Seq(ChildKinds) /\ Len(Children[mode]) \in 1..4
    /\ mode \in Asking => \A i \in 1..Len(Children[mode]) : Children[mode][i] \in AskingChildren
  <1>1. DOMAIN Children = {"compare", "twocores", "multiway", "pushfold", "publish"}
    BY DEF Children
  <1>2. /\ Children["compare"] = <<"solve", "extract">>
        /\ Children["twocores"] = <<"solve", "resolve", "extract", "reextract">>
        /\ Children["multiway"] = <<"solve", "extract">>
        /\ Children["pushfold"] = <<"solve", "dump">>
        /\ Children["publish"] = <<"solve">>
    BY DEF Children
  <1>3. LET t == <<"solve", "extract">> IN
        t \in Seq(ChildKinds) /\ Len(t) = 2 /\ \A i \in 1..2 : t[i] \in AskingChildren
    BY DEF AskingChildren, ChildKinds
  <1>4. LET t == <<"solve", "dump">> IN
        t \in Seq(ChildKinds) /\ Len(t) = 2 /\ \A i \in 1..2 : t[i] \in AskingChildren
    BY DEF AskingChildren, ChildKinds
  <1>5. LET t == <<"solve">> IN
        t \in Seq(ChildKinds) /\ Len(t) = 1 /\ \A i \in 1..1 : t[i] \in AskingChildren
    BY DEF AskingChildren, ChildKinds
  <1>6. <<"solve", "resolve", "extract", "reextract">> \in Seq(ChildKinds)
    BY DEF AskingChildren, ChildKinds
  <1>7. Len(<<"solve", "resolve", "extract", "reextract">>) = 4
    OBVIOUS
  <1>8. "twocores" \notin Asking /\ 1 \in 1..4 /\ 2 \in 1..4 /\ 4 \in 1..4
    BY DEF Asking
  <1> QED
    BY <1>1, <1>2, <1>3, <1>4, <1>5, <1>6, <1>7, <1>8

\* The rest of a plan is a plan.
LEMMA PlanTypes ==
  /\ \A mode \in DOMAIN Children : Children[mode] \in Plans /\ Children[mode] # <<>>
  /\ \A t \in Plans : t \in Seq(ChildKinds)
  /\ \A t \in Plans : t # <<>> => Tail(t) \in Plans
  /\ <<"extract">> \in Plans /\ <<>> \in Plans
  <1>1. ASSUME NEW mode \in DOMAIN Children
        PROVE  Children[mode] \in Plans /\ Children[mode] # <<>>
    <2>1. SubSeq(Children[mode], 1, Len(Children[mode])) = Children[mode]
      BY ChildrenTypes, SubSeqFull
    <2>2. Children[mode] \in Plans
      BY <2>1 DEF Plans
    <2>3. Len(Children[mode]) # 0
      BY SMTT(40), ChildrenTypes
    <2>4. Len(<<>>) = 0
      OBVIOUS
    <2> HIDE DEF Children
    <2> QED
      BY <2>2, <2>3, <2>4
  <1>2. ASSUME NEW t \in Plans
        PROVE  t \in Seq(ChildKinds) /\ (t # <<>> => Tail(t) \in Plans)
    <2>1. PICK mode \in DOMAIN Children, i \in 1..5 : t = SubSeq(Children[mode], i, Len(Children[mode]))
      BY DEF Plans
    <2> DEFINE s == Children[mode]
    <2>2. s \in Seq(ChildKinds) /\ Len(s) \in 1..4
      BY ChildrenTypes
    <2> HIDE DEF s
    <2>3. t = SubSeq(s, i, Len(s))
      BY <2>1 DEF s
    <2>4. CASE i <= Len(s)
      <3> DEFINE n == Len(s)
      <3>0. n \in 1..4 /\ i \in 1..5 /\ i <= n
        BY <2>2, <2>4
      <3> HIDE DEF n
      <3>1. i \in 1..n /\ n \in i..n /\ i + 1 \in 1..5 /\ n \in Nat /\ i \in Nat
        BY <3>0
      <3> USE DEF n
      <3>2. t \in Seq(ChildKinds)
        BY <2>2, <2>3, <3>1, SubSeqProperties
      <3>3. Tail(t) = SubSeq(s, i + 1, Len(s))
        BY <2>2, <2>3, <3>1, HeadTailOfSubSeq
      <3>4. SubSeq(s, i + 1, Len(s)) \in Plans
        BY SMTT(40), <3>1 DEF Plans, s
      <3> QED
        BY <3>2, <3>3, <3>4
    <2>5. CASE i > Len(s)
      <3>1. t = <<>>
        BY <2>2, <2>3, <2>5, SubSeqEmpty
      <3> QED
        BY <3>1
    <2> QED
      BY <2>2, <2>4, <2>5
  <1>3. <<"extract">> \in Plans /\ <<>> \in Plans
    <2>1. "compare" \in DOMAIN Children /\ Children["compare"] = <<"solve", "extract">>
      BY DEF Children
    <2>2. Tail(Children["compare"]) = <<"extract">> /\ Tail(<<"extract">>) = <<>>
      BY <2>1
    <2> QED
      BY <1>1, <1>2, <2>1, <2>2
  <1> QED
    BY <1>1, <1>2, <1>3

\* The records a run starts from.
LEMMA ConstantTypes ==
  /\ Absent \in Rows /\ Free \in Calls /\ Idle \in Processes
  /\ NoJob \notin Jobs /\ Nobody \notin Watchers
  /\ \A x \in Active : StageAfter[x] \in Active \cup Terminal
  /\ Free.at = "free" /\ Idle.pc = "idle" /\ Unswept \in [Jobs -> {"kept", "Queued", "Failed", "Cancelled"}]
  <1>1. "compare" \in DOMAIN Children
    BY DEF Children
  <1>2. NoJob \notin Jobs
    BY DEF Jobs, NoJob
  <1>3. Absent \in Rows
    BY <1>1 DEF Absent, Rows
  <1>4. Unswept \in [Jobs -> {"kept", "Queued", "Failed", "Cancelled"}]
    BY DEF Unswept
  <1>5. Free \in Calls /\ Free.at = "free"
    BY <1>4 DEF Free, Calls
  <1>6. Idle \in Processes /\ Idle.pc = "idle"
    BY <1>1, PlanTypes DEF Idle, Processes, Steps
  <1>7. \A x \in Active : StageAfter[x] \in Active \cup Terminal
    BY DEF Active, StageAfter, Terminal
  <1> QED
    BY <1>2, <1>3, <1>4, <1>5, <1>6, <1>7, NullAssumption

\* What TypeOK says of each element, so that a leaf need not expand it.
LEMMA ElementTypes ==
  ASSUME TypeOK
  PROVE  /\ \A s \in Slots : call[s] \in Calls
         /\ \A j \in Jobs : job[j] \in Rows
         /\ \A w \in Watchers : watcher[w] \in Processes /\ Main(w) \in Calls /\ Beats(w) \in Calls
         /\ faults \in Nat /\ (faults < MaxFaults => faults + 1 \in 0..MaxFaults)
  <1>1. faults \in Nat /\ (faults < MaxFaults => faults + 1 \in 0..MaxFaults)
    BY BoundsAssumption DEF TypeOK
  <1> QED
    BY <1>1, SlotTypes DEF TypeOK, Main, Beats

-----------------------------------------------------------------------------
(* The types.                                                                  *)

\* A row that is inserted stays, if only for the record.
RowsStay == \A j \in Jobs : job[j].status # "absent" => job'[j].status # "absent"

\* What has changed is formed, and the rest was.
LEMMA Framed ==
  ASSUME TypeInv, RowsStay, job' \in [Jobs -> Rows], blob' \in SUBSET Jobs, faults' \in 0..MaxFaults,
         call' \in [Slots -> Calls], watcher' \in [Watchers -> Processes],
         \A s \in Slots : call'[s] = call[s] \/ CallFormed(s, call'[s]),
         \A w \in Watchers :
           \/ watcher'[w] = watcher[w] /\ call'[<<w, "main">>] = Main(w) /\ call'[<<w, "beat">>] = Beats(w)
           \/ WatcherFormed(w, watcher'[w], call'[<<w, "main">>], call'[<<w, "beat">>])
  PROVE  TypeInv'
  <1>1. TypeOK'
    BY DEF TypeOK
  <1>2. ASSUME NEW s \in Slots PROVE CallFormed(s, call[s])'
    <2>1. CallFormed(s, call'[s])
      BY DEF TypeInv, Formed
    <2> QED
      BY <2>1 DEF CallFormed, RowsStay
  <1>3. ASSUME NEW w \in Watchers PROVE WatcherFormed(w, watcher[w], Main(w), Beats(w))'
    <2>1. WatcherFormed(w, watcher'[w], call'[<<w, "main">>], call'[<<w, "beat">>])
      BY DEF TypeInv, Formed
    <2>2. watcher'[w].job \in Jobs /\ job[watcher'[w].job].status # "absent" =>
            job'[watcher'[w].job].status # "absent"
      BY DEF RowsStay
    <2> QED
      BY <2>1, <2>2 DEF WatcherFormed, Main, Beats, Engine, Child
  <1> QED
    BY <1>1, <1>2, <1>3 DEF TypeInv, Formed

\* A step of the API on the request in slot s, which stays what it is or is over.
LEMMA ServeForm ==
  ASSUME TypeInv, NEW s \in Slots, NEW c \in Calls, call[s].at # "free",
         call' = [call EXCEPT ![s] = c], UNCHANGED <<watcher, faults>>, RowsStay,
         job' \in [Jobs -> Rows], blob' \in SUBSET Jobs, CallFormed(s, c),
         IF c.at = "free" THEN s[2] = "late" \/ s[1] \in Users
         ELSE /\ c.kind = call[s].kind
              /\ c.kind # "claim" => c.job = call[s].job
              /\ c.kind = "report" => c.to = call[s].to
  PROVE  TypeInv'
  <1>1. call' \in [Slots -> Calls] /\ call'[s] = c /\ \A t \in Slots \ {s} : call'[t] = call[t]
    BY DEF TypeInv, TypeOK
  <1>2. watcher' \in [Watchers -> Processes] /\ faults' \in 0..MaxFaults
    BY DEF TypeInv, TypeOK
  <1>3. ASSUME NEW w \in Watchers
        PROVE  \/ watcher'[w] = watcher[w] /\ call'[<<w, "main">>] = Main(w) /\ call'[<<w, "beat">>] = Beats(w)
               \/ WatcherFormed(w, watcher'[w], call'[<<w, "main">>], call'[<<w, "beat">>])
    <2>1. CASE s \notin {<<w, "main">>, <<w, "beat">>}
      BY <1>1, <2>1, SlotTypes DEF Main, Beats
    <2>2. WatcherFormed(w, watcher[w], call[<<w, "main">>], call[<<w, "beat">>])
      BY DEF TypeInv, Formed, Main, Beats
    <2>3. CASE s = <<w, "main">>
      <3>1. call'[<<w, "beat">>] = call[<<w, "beat">>] /\ c.at # "free" /\ s[1] \in Watchers
        BY <1>1, <2>3, SlotTypes
      <3> QED
        BY <1>1, <2>2, <2>3, <3>1 DEF WatcherFormed
    <2>4. CASE s = <<w, "beat">>
      <3>1. call'[<<w, "main">>] = call[<<w, "main">>] /\ c.at # "free" /\ s[1] \in Watchers
        BY <1>1, <2>4, SlotTypes
      <3> QED
        BY <1>1, <2>2, <2>4, <3>1 DEF WatcherFormed
    <2> QED
      BY <2>1, <2>3, <2>4
  <1> QED
    BY <1>1, <1>2, <1>3, Framed

\* What the answer to a request is.
LEMMA AnsweredForm ==
  ASSUME TypeInv, NEW s \in Slots, NEW c \in Calls, call[s].at # "free", call' = Answered(s, c),
         UNCHANGED <<watcher, faults>>, RowsStay, job' \in [Jobs -> Rows], blob' \in SUBSET Jobs,
         c.kind = call[s].kind, c.to = call[s].to, c.kind \notin {"cancel", "delete"},
         IF c.kind = "claim" THEN c.job \in Jobs => job[c.job].status # "absent" ELSE c.job = call[s].job
  PROVE  TypeInv'
  <1>1. CASE s[2] = "late"
    <2>1. call' = [call EXCEPT ![s] = Free] /\ CallFormed(s, Free)
      BY <1>1, ConstantTypes DEF Answered, CallFormed
    <2> QED
      BY <1>1, <2>1, ConstantTypes, ServeForm
  <1>2. CASE s[2] # "late"
    <2> DEFINE d == [c EXCEPT !.at = "reply"]
    <2>1. d \in Calls /\ d.at = "reply" /\ d.kind = c.kind /\ d.to = c.to /\ d.job = c.job
      BY DEF Calls
    <2>2. call' = [call EXCEPT ![s] = d]
      BY <1>2 DEF Answered
    <2> HIDE DEF d
    <2>3. CallFormed(s, call[s])
      BY DEF TypeInv, Formed
    <2>4. CallFormed(s, d)
      BY <2>1, <2>3 DEF CallFormed
    <2> QED
      BY <2>1, <2>2, <2>4, ServeForm
  <1> QED
    BY <1>1, <1>2

\* A step of the watcher: its process, its request, its heartbeat, and what it
\* leaves behind of the last two.
LEMMA WorkForm ==
  ASSUME TypeInv, NEW w \in Watchers, NEW p \in Processes, NEW m \in Calls, NEW b \in Calls,
         UNCHANGED job, blob' \in SUBSET Jobs, faults' \in 0..MaxFaults,
         watcher' = [watcher EXCEPT ![w] = p],
         call' \in [Slots -> Calls], call'[<<w, "main">>] = m, call'[<<w, "beat">>] = b,
         call'[<<w, "late">>] \in {Free, Main(w), Beats(w), call[<<w, "late">>]},
         \A s \in Slots \ {<<w, "main">>, <<w, "beat">>, <<w, "late">>} : call'[s] = call[s],
         m = Main(w) \/ CallFormed(<<w, "main">>, m), b = Beats(w) \/ CallFormed(<<w, "beat">>, b),
         WatcherFormed(w, p, m, b)
  PROVE  TypeInv'
  <1>1. RowsStay /\ job' \in [Jobs -> Rows] /\ watcher' \in [Watchers -> Processes]
    BY DEF RowsStay, TypeInv, TypeOK
  <1>2. ASSUME NEW s \in Slots PROVE call'[s] = call[s] \/ CallFormed(s, call'[s])
    <2>1. CASE s = <<w, "main">>
      BY <2>1 DEF Main
    <2>2. CASE s = <<w, "beat">>
      BY <2>2 DEF Beats
    <2>3. CASE s = <<w, "late">>
      <3>1. CallFormed(<<w, "main">>, Main(w)) /\ CallFormed(<<w, "beat">>, Beats(w))
        BY SlotTypes DEF TypeInv, Formed, Main, Beats
      <3>2. s[1] = w
        BY <2>3, SlotTypes
      <3>3. CallFormed(s, Main(w)) /\ CallFormed(s, Beats(w)) /\ CallFormed(s, Free)
        BY <3>1, <3>2, SlotTypes, ConstantTypes DEF CallFormed
      <3> QED
        BY <2>3, <3>3
    <2> QED
      BY <2>1, <2>2, <2>3
  <1>3. ASSUME NEW v \in Watchers
        PROVE  \/ watcher'[v] = watcher[v] /\ call'[<<v, "main">>] = Main(v) /\ call'[<<v, "beat">>] = Beats(v)
               \/ WatcherFormed(v, watcher'[v], call'[<<v, "main">>], call'[<<v, "beat">>])
    <2>1. CASE v = w
      <3>1. watcher'[w] = p
        BY DEF TypeInv, TypeOK
      <3> QED
        BY <2>1, <3>1
    <2>2. CASE v # w
      <3>1. watcher'[v] = watcher[v]
        BY <2>2 DEF TypeInv, TypeOK
      <3>2. /\ <<v, "main">> \in Slots \ {<<w, "main">>, <<w, "beat">>, <<w, "late">>}
            /\ <<v, "beat">> \in Slots \ {<<w, "main">>, <<w, "beat">>, <<w, "late">>}
        BY <2>2, SlotTypes
      <3> QED
        BY <3>1, <3>2 DEF Main, Beats
    <2> QED
      BY <2>1, <2>2
  <1> QED
    BY <1>1, <1>2, <1>3, Framed

\* One row changes.
LEMMA RowSaved ==
  ASSUME TypeInv, NEW j \in Jobs, NEW n \in Rows, job' = [job EXCEPT ![j] = n],
         n.status # "absent"
  PROVE  /\ job' \in [Jobs -> Rows] /\ RowsStay /\ job'[j] = n
         /\ \A i \in Jobs \ {j} : job'[i] = job[i]
  BY DEF TypeInv, TypeOK, RowsStay

\* The fields of the row that is claimed, is reported, or is marked.
LEMMA ClaimedRow ==
  ASSUME TypeInv, NEW j \in Jobs, NEW w \in Watchers,
         job' = [job EXCEPT ![j].status = "Claimed", ![j].owner = w, ![j].fresh = TRUE, ![j].attempts = @ + 1]
  PROVE  /\ job' \in [Jobs -> Rows] /\ RowsStay /\ \A i \in Jobs \ {j} : job'[i] = job[i]
         /\ job'[j].status = "Claimed" /\ job'[j].owner = w /\ job'[j].fresh
         /\ job'[j].mode = job[j].mode /\ job'[j].stop = job[j].stop /\ job'[j].result = job[j].result
  <1> DEFINE n == [job[j] EXCEPT !.status = "Claimed", !.owner = w, !.fresh = TRUE, !.attempts = @ + 1]
  <1>1. job[j] \in Rows
    BY DEF TypeInv, TypeOK
  <1>2. job[j].attempts + 1 \in Nat
    BY <1>1 DEF Rows
  <1>3. /\ n \in Rows /\ n.status = "Claimed" /\ n.owner = w /\ n.fresh
        /\ n.mode = job[j].mode /\ n.stop = job[j].stop /\ n.result = job[j].result
    BY <1>1, <1>2 DEF Rows, Active
  <1>4. job' = [job EXCEPT ![j] = n]
    BY DEF TypeInv, TypeOK
  <1> HIDE DEF n
  <1> QED
    BY <1>3, <1>4, RowSaved

LEMMA ReportedRow ==
  ASSUME NEW row \in Rows, NEW c \in Calls, row.status # "absent"
  PROVE  LET n == Reported(row, c) IN
         /\ n \in Rows /\ n.status = (IF c.to = "beat" THEN row.status ELSE c.to) /\ n.status # "absent"
         /\ n.fresh /\ n.result = (row.result \/ c.result) /\ n.owner = row.owner /\ n.mode = row.mode
         /\ n.stop = row.stop
  <1> DEFINE st == IF c.to = "beat" THEN row.status ELSE c.to
             res == row.result \/ c.result
             n == [row EXCEPT !.fresh = TRUE, !.status = st, !.result = res]
  <1>1. st \in Active \cup Terminal \cup {"absent", "Queued", "gone"} /\ st # "absent" /\ res \in BOOLEAN
    BY DEF Rows, Calls, Active, Terminal
  <1>2. Reported(row, c) = n
    BY DEF Reported, Rows
  <1> HIDE DEF st, res
  <1>3. /\ n \in Rows /\ n.status = st /\ n.fresh = TRUE /\ n.result = res /\ n.owner = row.owner
        /\ n.mode = row.mode /\ n.stop = row.stop
    BY <1>1 DEF Rows
  <1> QED
    BY <1>1, <1>2, <1>3 DEF st, res

LEMMA TypeSweepRead ==
  ASSUME TypeInv, NEW s \in Slots, SweepRead(s)
  PROVE  TypeInv'
  <1> DEFINE swept == [j \in Jobs |-> IF Stale(job[j]) THEN Verdict(job[j]) ELSE "kept"]
             c == [call[s] EXCEPT !.at = IF swept = Unswept THEN "pop" ELSE "sweep", !.swept = swept]
  <1>1. /\ call[s].at = "sent" /\ call[s].kind = "claim" /\ UNCHANGED <<job, blob, watcher, faults>>
        /\ call' = [call EXCEPT ![s] = c]
    BY DEF SweepRead, Arrived, TypeInv, TypeOK
  <1>2. call[s] \in Calls /\ CallFormed(s, call[s])
    BY DEF TypeInv, TypeOK, Formed
  <1>3. swept \in [Jobs -> {"kept", "Queued", "Failed", "Cancelled"}]
    BY DEF Verdict
  <1> HIDE DEF swept
  <1>4. c \in Calls /\ c.at \in {"pop", "sweep"} /\ c.kind = "claim" /\ c.job = call[s].job /\ c.to = call[s].to
    BY <1>1, <1>2, <1>3 DEF Calls
  <1>5. RowsStay /\ job' \in [Jobs -> Rows] /\ blob' \in SUBSET Jobs
    BY <1>1 DEF RowsStay, TypeInv, TypeOK
  <1>6. CallFormed(s, c)
    BY <1>1, <1>2, <1>4 DEF CallFormed
  <1> HIDE DEF c
  <1> QED
    BY <1>1, <1>4, <1>5, <1>6, ServeForm

\* The rows after a sweep.
LEMMA SweptRows ==
  ASSUME TypeInv, NEW swept \in [Jobs -> {"kept", "Queued", "Failed", "Cancelled"}],
         job' = [j \in Jobs |-> IF swept[j] = "kept" THEN job[j]
                                ELSE [job[j] EXCEPT !.owner = Nobody, !.status = swept[j]]]
  PROVE  /\ job' \in [Jobs -> Rows] /\ RowsStay
         /\ \A j \in Jobs : IF swept[j] = "kept" THEN job'[j] = job[j]
                            ELSE /\ job'[j].status = swept[j]
                                 /\ job'[j].owner = Nobody /\ job'[j].mode = job[j].mode
                                 /\ job'[j].fresh = job[j].fresh
                                 /\ job'[j].stop = job[j].stop /\ job'[j].result = job[j].result
  <1>1. \A j \in Jobs : job[j] \in Rows
    BY DEF TypeInv, TypeOK
  <1>2. \A j \in Jobs : swept[j] # "kept" =>
          LET n == [job[j] EXCEPT !.owner = Nobody, !.status = swept[j]] IN
          /\ n \in Rows /\ n.status = swept[j] /\ n.owner = Nobody /\ n.mode = job[j].mode
          /\ n.fresh = job[j].fresh /\ n.stop = job[j].stop /\ n.result = job[j].result
    BY <1>1 DEF Rows, Terminal
  <1> QED
    BY <1>1, <1>2 DEF RowsStay

LEMMA TypeSweepSave ==
  ASSUME TypeInv, NEW s \in Slots, SweepSave(s)
  PROVE  TypeInv'
  <1>1. call[s] \in Calls /\ CallFormed(s, call[s]) /\ call[s].at = "sweep" /\ call[s].kind = "claim"
    BY DEF SweepSave, TypeInv, TypeOK, Formed, CallFormed
  <1>2. UNCHANGED <<blob, watcher, faults>> /\ blob' \in SUBSET Jobs
    BY DEF SweepSave, TypeInv, TypeOK
  <1>3. CASE call' = Answered(s, Free) /\ UNCHANGED job
    <2> DEFINE d == IF s[2] # "late" THEN [Free EXCEPT !.at = "reply"] ELSE Free
    <2>1. /\ d \in Calls /\ call' = [call EXCEPT ![s] = d]
          /\ IF s[2] # "late" THEN d.at = "reply" /\ d.kind = "claim" /\ d.job = NoJob /\ d.to = "beat" ELSE d = Free
      BY <1>3, ConstantTypes DEF Answered, Free, Calls
    <2> HIDE DEF d
    <2>2. CallFormed(s, d)
      BY <1>1, <2>1, ConstantTypes DEF CallFormed, Free
    <2>3. RowsStay /\ job' \in [Jobs -> Rows]
      BY <1>3 DEF RowsStay, TypeInv, TypeOK
    <2> QED
      BY <1>1, <1>2, <2>1, <2>2, <2>3, ServeForm DEF Free
  <1>4. CASE /\ job' = [j \in Jobs |-> IF call[s].swept[j] = "kept" THEN job[j]
                                       ELSE [job[j] EXCEPT !.owner = Nobody, !.status = call[s].swept[j]]]
             /\ call' = [call EXCEPT ![s].at = "pop", ![s].swept = Unswept]
    <2> DEFINE c == [call[s] EXCEPT !.at = "pop", !.swept = Unswept]
    <2>1. c \in Calls /\ c.at = "pop" /\ c.kind = "claim" /\ c.job = call[s].job /\ c.to = call[s].to
      BY <1>1, ConstantTypes DEF Calls
    <2>2. call' = [call EXCEPT ![s] = c]
      BY <1>4 DEF TypeInv, TypeOK
    <2>3. CallFormed(s, c)
      BY <1>1, <2>1 DEF CallFormed
    <2> HIDE DEF c
    <2>4. call[s].swept \in [Jobs -> {"kept", "Queued", "Failed", "Cancelled"}]
      BY <1>1 DEF Calls
    <2>5. job' \in [Jobs -> Rows] /\ RowsStay
      BY <1>4, <2>4, SweptRows
    <2> QED
      BY <1>1, <1>2, <2>1, <2>2, <2>3, <2>5, ServeForm
  <1> QED
    BY <1>3, <1>4 DEF SweepSave

LEMMA TypeClaimNext ==
  ASSUME TypeInv, NEW s \in Slots, ClaimNext(s)
  PROVE  TypeInv'
  <1>1. /\ call[s] \in Calls /\ CallFormed(s, call[s]) /\ call[s].at = "pop" /\ call[s].kind = "claim"
        /\ s[1] \in Watchers /\ call[s].job = NoJob
    BY DEF ClaimNext, TypeInv, TypeOK, Formed, CallFormed
  <1>2. UNCHANGED <<blob, watcher, faults>> /\ blob' \in SUBSET Jobs
    BY DEF ClaimNext, TypeInv, TypeOK
  <1>3. CASE call' = Answered(s, call[s]) /\ UNCHANGED job
    <2>1. RowsStay /\ job' \in [Jobs -> Rows]
      BY <1>3 DEF RowsStay, TypeInv, TypeOK
    <2> QED
      BY <1>1, <1>2, <1>3, <2>1, ConstantTypes, AnsweredForm
  <1>4. ASSUME NEW j \in QueuedRows,
               job' = [job EXCEPT ![j].status = "Claimed", ![j].owner = s[1], ![j].fresh = TRUE,
                                  ![j].attempts = @ + 1],
               call' = Answered(s, [call[s] EXCEPT !.job = j])
        PROVE  TypeInv'
    <2>1. j \in Jobs /\ job[j].status = "Queued"
      BY DEF QueuedRows
    <2> DEFINE c == [call[s] EXCEPT !.job = j]
    <2>2. c \in Calls /\ c.kind = "claim" /\ c.job = j /\ c.to = call[s].to
      BY <1>1, <2>1 DEF Calls
    <2>3. call' = Answered(s, c)
      BY <1>4
    <2> HIDE DEF c
    <2>4. job' \in [Jobs -> Rows] /\ RowsStay
      BY <1>1, <1>4, <2>1, ClaimedRow
    <2> QED
      BY <1>1, <1>2, <2>1, <2>2, <2>3, <2>4, AnsweredForm
  <1> QED
    BY <1>3, <1>4 DEF ClaimNext

LEMMA TypeReportRead ==
  ASSUME TypeInv, NEW s \in Slots, ReportRead(s)
  PROVE  TypeInv'
  <1>1. /\ call[s] \in Calls /\ CallFormed(s, call[s]) /\ call[s].at = "sent" /\ call[s].kind = "report"
        /\ UNCHANGED <<job, blob, watcher, faults>>
    BY DEF ReportRead, Arrived, TypeInv, TypeOK, Formed
  <1>2. RowsStay /\ job' \in [Jobs -> Rows] /\ blob' \in SUBSET Jobs
    BY <1>1 DEF RowsStay, TypeInv, TypeOK
  <1>3. call[s].job \in Jobs /\ job[call[s].job].stop \in BOOLEAN
    BY <1>1 DEF CallFormed, TypeInv, TypeOK, Rows
  <1>4. CASE call' = Answered(s, call[s])
    BY <1>1, <1>2, <1>4, AnsweredForm
  <1>5. CASE call' = [call EXCEPT ![s].at = "save", ![s].stop = job[call[s].job].stop]
    <2> DEFINE c == [call[s] EXCEPT !.at = "save", !.stop = job[call[s].job].stop]
    <2>1. c \in Calls /\ c.at = "save" /\ c.kind = "report" /\ c.job = call[s].job /\ c.to = call[s].to
      BY <1>1, <1>3 DEF Calls
    <2>2. call' = [call EXCEPT ![s] = c]
      BY <1>5 DEF TypeInv, TypeOK
    <2>3. CallFormed(s, c)
      BY <1>1, <2>1 DEF CallFormed
    <2> HIDE DEF c
    <2> QED
      BY <1>1, <1>2, <2>1, <2>2, <2>3, ServeForm
  <1>6. CASE call' = Answered(s, [call[s] EXCEPT !.conflict = TRUE])
    <2> DEFINE c == [call[s] EXCEPT !.conflict = TRUE]
    <2>1. c \in Calls /\ c.kind = "report" /\ c.job = call[s].job /\ c.to = call[s].to
      BY <1>1 DEF Calls
    <2> HIDE DEF c
    <2> QED
      BY <1>1, <1>2, <1>6, <2>1, AnsweredForm DEF c
  <1> QED
    BY <1>4, <1>5, <1>6 DEF ReportRead

\* A report is saved into a row that has not gone.
LEMMA ReportSaved ==
  ASSUME TypeInv, NEW s \in Slots, ReportSave(s)
  PROVE  /\ call[s] \in Calls /\ CallFormed(s, call[s]) /\ call[s].at = "save" /\ call[s].kind = "report"
         /\ call[s].job \in Jobs /\ UNCHANGED <<blob, watcher, faults>>
         /\ \/ /\ job[call[s].job].status = "gone" /\ UNCHANGED job
               /\ call' = Answered(s, [call[s] EXCEPT !.stop = FALSE])
            \/ LET c == call[s]  j == c.job IN
               /\ job[j].status # "gone" /\ call' = Answered(s, c)
               /\ job' \in [Jobs -> Rows] /\ RowsStay /\ \A i \in Jobs \ {j} : job'[i] = job[i]
               /\ job'[j].status = IF c.to = "beat" THEN job[j].status ELSE c.to
               /\ job'[j].fresh /\ job'[j].result = (job[j].result \/ c.result)
               /\ job'[j].owner = job[j].owner /\ job'[j].mode = job[j].mode /\ job'[j].stop = job[j].stop
  <1>1. /\ call[s] \in Calls /\ CallFormed(s, call[s]) /\ call[s].at = "save" /\ call[s].kind = "report"
        /\ UNCHANGED <<blob, watcher, faults>>
    BY DEF ReportSave, TypeInv, TypeOK, Formed
  <1>2. call[s].job \in Jobs /\ job[call[s].job] \in Rows /\ job[call[s].job].status # "absent"
    BY <1>1 DEF CallFormed, TypeInv, TypeOK
  <1>3. CASE job[call[s].job].status = "gone"
    BY <1>1, <1>2, <1>3 DEF ReportSave
  <1>4. CASE job[call[s].job].status # "gone"
    <2> DEFINE j == call[s].job
               n == Reported(job[j], call[s])
    <2>1. call' = Answered(s, call[s]) /\ job' = [job EXCEPT ![j] = n]
      BY <1>4 DEF ReportSave, TypeInv, TypeOK
    <2>2. /\ n \in Rows /\ n.status = (IF call[s].to = "beat" THEN job[j].status ELSE call[s].to)
          /\ n.status # "absent" /\ n.fresh /\ n.result = (job[j].result \/ call[s].result)
          /\ n.owner = job[j].owner /\ n.mode = job[j].mode /\ n.stop = job[j].stop
      BY <1>1, <1>2, ReportedRow
    <2> HIDE DEF n
    <2>3. job' \in [Jobs -> Rows] /\ RowsStay /\ job'[j] = n /\ \A i \in Jobs \ {j} : job'[i] = job[i]
      BY <1>2, <2>1, <2>2, RowSaved
    <2> QED
      BY <1>1, <1>2, <1>4, <2>1, <2>2, <2>3
  <1> QED
    BY <1>3, <1>4

LEMMA TypeReportSave ==
  ASSUME TypeInv, NEW s \in Slots, ReportSave(s)
  PROVE  TypeInv'
  <1>1. /\ call[s] \in Calls /\ call[s].at = "save" /\ call[s].kind = "report"
        /\ UNCHANGED <<blob, watcher, faults>>
    BY ReportSaved
  <1>2. CASE UNCHANGED job /\ call' = Answered(s, [call[s] EXCEPT !.stop = FALSE])
    <2> DEFINE c == [call[s] EXCEPT !.stop = FALSE]
    <2>1. c \in Calls /\ c.kind = "report" /\ c.job = call[s].job /\ c.to = call[s].to
      BY <1>1 DEF Calls
    <2>2. RowsStay /\ job' \in [Jobs -> Rows] /\ blob' \in SUBSET Jobs /\ call' = Answered(s, c)
      BY <1>1, <1>2 DEF RowsStay, TypeInv, TypeOK
    <2> HIDE DEF c
    <2> QED
      BY <1>1, <2>1, <2>2, AnsweredForm
  <1>3. CASE call' = Answered(s, call[s]) /\ job' \in [Jobs -> Rows] /\ RowsStay
    <2>1. blob' \in SUBSET Jobs
      BY <1>1 DEF TypeInv, TypeOK
    <2> QED
      BY <1>1, <1>3, <2>1, AnsweredForm
  <1> QED
    BY <1>2, <1>3, ReportSaved

LEMMA TypePublishRead ==
  ASSUME TypeInv, NEW s \in Slots, PublishRead(s)
  PROVE  TypeInv'
  <1>1. /\ call[s] \in Calls /\ CallFormed(s, call[s]) /\ call[s].at = "sent" /\ call[s].kind = "publish"
        /\ UNCHANGED <<job, watcher, faults>>
    BY DEF PublishRead, Arrived, TypeInv, TypeOK, Formed
  <1>2. RowsStay /\ job' \in [Jobs -> Rows] /\ call[s].job \in Jobs
    BY <1>1 DEF RowsStay, TypeInv, TypeOK, CallFormed
  <1>3. blob' \in SUBSET Jobs
    BY <1>2 DEF PublishRead, TypeInv, TypeOK
  <1>4. CASE call' = [call EXCEPT ![s].at = "save"]
    <2> DEFINE c == [call[s] EXCEPT !.at = "save"]
    <2>1. c \in Calls /\ c.at = "save" /\ c.kind = "publish" /\ c.job = call[s].job /\ c.to = call[s].to
      BY <1>1 DEF Calls
    <2>2. call' = [call EXCEPT ![s] = c]
      BY <1>4 DEF TypeInv, TypeOK
    <2>3. CallFormed(s, c)
      BY <1>1, <2>1 DEF CallFormed
    <2> HIDE DEF c
    <2> QED
      BY <1>1, <1>2, <1>3, <2>1, <2>2, <2>3, ServeForm
  <1>5. CASE call' = Answered(s, [call[s] EXCEPT !.conflict = TRUE])
    <2> DEFINE c == [call[s] EXCEPT !.conflict = TRUE]
    <2>1. c \in Calls /\ c.kind = "publish" /\ c.job = call[s].job /\ c.to = call[s].to
      BY <1>1 DEF Calls
    <2>2. call' = Answered(s, c)
      BY <1>5
    <2> HIDE DEF c
    <2> QED
      BY <1>1, <1>2, <1>3, <2>1, <2>2, AnsweredForm
  <1> QED
    BY <1>4, <1>5 DEF PublishRead

LEMMA PublishSaved ==
  ASSUME TypeInv, NEW s \in Slots, PublishSave(s)
  PROVE  /\ call[s] \in Calls /\ CallFormed(s, call[s]) /\ call[s].at = "save" /\ call[s].kind = "publish"
         /\ call[s].job \in Jobs /\ UNCHANGED <<blob, watcher, faults>>
         /\ \/ /\ job[call[s].job].status = "gone" /\ UNCHANGED job
               /\ call' = Answered(s, [call[s] EXCEPT !.conflict = TRUE])
            \/ LET c == call[s]  j == c.job IN
               /\ job[j].status # "gone" /\ call' = Answered(s, c)
               /\ job' \in [Jobs -> Rows] /\ RowsStay /\ \A i \in Jobs \ {j} : job'[i] = job[i]
               /\ job'[j].status = job[j].status /\ job'[j].fresh /\ job'[j].result
               /\ job'[j].owner = job[j].owner /\ job'[j].mode = job[j].mode /\ job'[j].stop = job[j].stop
  <1>1. /\ call[s] \in Calls /\ CallFormed(s, call[s]) /\ call[s].at = "save" /\ call[s].kind = "publish"
        /\ UNCHANGED <<blob, watcher, faults>>
    BY DEF PublishSave, TypeInv, TypeOK, Formed
  <1>2. call[s].job \in Jobs /\ job[call[s].job] \in Rows /\ job[call[s].job].status # "absent"
    BY <1>1 DEF CallFormed, TypeInv, TypeOK
  <1>3. CASE job[call[s].job].status = "gone"
    BY <1>1, <1>2, <1>3 DEF PublishSave
  <1>4. CASE job[call[s].job].status # "gone"
    <2> DEFINE j == call[s].job
               n == [job[j] EXCEPT !.fresh = TRUE, !.result = TRUE]
    <2>1. call' = Answered(s, call[s]) /\ job' = [job EXCEPT ![j] = n]
      BY <1>4 DEF PublishSave, TypeInv, TypeOK
    <2>2. /\ n \in Rows /\ n.status = job[j].status /\ n.fresh /\ n.result
          /\ n.owner = job[j].owner /\ n.mode = job[j].mode /\ n.stop = job[j].stop
      BY <1>2 DEF Rows
    <2> HIDE DEF n
    <2>3. job' \in [Jobs -> Rows] /\ RowsStay /\ job'[j] = n /\ \A i \in Jobs \ {j} : job'[i] = job[i]
      BY <1>2, <2>1, <2>2, RowSaved
    <2> QED
      BY <1>1, <1>2, <1>4, <2>1, <2>2, <2>3
  <1> QED
    BY <1>3, <1>4

LEMMA TypePublishSave ==
  ASSUME TypeInv, NEW s \in Slots, PublishSave(s)
  PROVE  TypeInv'
  <1>1. /\ call[s] \in Calls /\ call[s].at = "save" /\ call[s].kind = "publish"
        /\ UNCHANGED <<blob, watcher, faults>>
    BY PublishSaved
  <1>2. blob' \in SUBSET Jobs
    BY <1>1 DEF TypeInv, TypeOK
  <1>3. CASE UNCHANGED job /\ call' = Answered(s, [call[s] EXCEPT !.conflict = TRUE])
    <2> DEFINE c == [call[s] EXCEPT !.conflict = TRUE]
    <2>1. c \in Calls /\ c.kind = "publish" /\ c.job = call[s].job /\ c.to = call[s].to
      BY <1>1 DEF Calls
    <2>2. RowsStay /\ job' \in [Jobs -> Rows] /\ call' = Answered(s, c)
      BY <1>3 DEF RowsStay, TypeInv, TypeOK
    <2> HIDE DEF c
    <2> QED
      BY <1>1, <1>2, <2>1, <2>2, AnsweredForm
  <1>4. CASE call' = Answered(s, call[s]) /\ job' \in [Jobs -> Rows] /\ RowsStay
    BY <1>1, <1>2, <1>4, AnsweredForm
  <1> QED
    BY <1>3, <1>4, PublishSaved

\* The requests of the owner: over, or kept with other fields.
LEMMA OwnerForm ==
  ASSUME TypeInv, NEW s \in Slots, call[s].at # "free", call[s].kind \in {"cancel", "delete"},
         NEW c \in Calls, call' = [call EXCEPT ![s] = c], UNCHANGED <<watcher, faults>>, RowsStay,
         job' \in [Jobs -> Rows], blob' \in SUBSET Jobs,
         c = Free \/ (c.kind = call[s].kind /\ c.job = call[s].job
                      /\ (c.at = "save" \/ (c.at = "blobs" /\ c.kind = "delete")))
  PROVE  TypeInv'
  <1>1. CallFormed(s, call[s]) /\ s[1] \in Users
    BY DEF TypeInv, Formed, CallFormed
  <1>2. CallFormed(s, c)
    BY <1>1, ConstantTypes DEF CallFormed
  <1> QED
    BY <1>1, <1>2, ConstantTypes, ServeForm

LEMMA TypeCancelRead ==
  ASSUME TypeInv, NEW s \in Slots, CancelRead(s)
  PROVE  TypeInv'
  <1> DEFINE row == job[call[s].job]
             d == [call[s] EXCEPT !.at = "save", !.to = IF row.status = "Queued" THEN "Cancelled" ELSE "beat"]
             c == IF row.status \in Terminal \cup {"gone"} THEN Free ELSE d
  <1>1. /\ call[s] \in Calls /\ call[s].at = "sent" /\ call[s].kind = "cancel"
        /\ UNCHANGED <<job, blob, watcher, faults>> /\ call' = [call EXCEPT ![s] = c]
    BY DEF CancelRead, Arrived, TypeInv, TypeOK
  <1>2. d \in Calls /\ d.at = "save" /\ d.kind = "cancel" /\ d.job = call[s].job
    BY <1>1 DEF Calls, Terminal
  <1>3. RowsStay /\ job' \in [Jobs -> Rows] /\ blob' \in SUBSET Jobs
    BY <1>1 DEF RowsStay, TypeInv, TypeOK
  <1>4. c \in Calls /\ (c = Free \/ (c.kind = "cancel" /\ c.job = call[s].job /\ c.at = "save"))
    BY <1>2, ConstantTypes
  <1> HIDE DEF c
  <1> QED
    BY <1>1, <1>3, <1>4, OwnerForm

\* A stop is saved into a row that has not gone.
LEMMA CancelSaved ==
  ASSUME TypeInv, NEW s \in Slots, CancelSave(s)
  PROVE  /\ call[s] \in Calls /\ CallFormed(s, call[s]) /\ call[s].at = "save" /\ call[s].kind = "cancel"
         /\ call[s].job \in Jobs /\ UNCHANGED <<blob, watcher, faults>>
         /\ call' = [call EXCEPT ![s] = Free] /\ job' \in [Jobs -> Rows] /\ RowsStay
         /\ \/ job[call[s].job].status = "gone" /\ UNCHANGED job
            \/ LET c == call[s]  j == c.job IN
               /\ job[j].status # "gone" /\ \A i \in Jobs \ {j} : job'[i] = job[i]
               /\ job'[j].status = (IF c.to = "Cancelled" THEN c.to ELSE job[j].status)
               /\ job'[j].fresh = job[j].fresh /\ job'[j].result = job[j].result
               /\ job'[j].owner = job[j].owner /\ job'[j].mode = job[j].mode
  <1>1. /\ call[s] \in Calls /\ CallFormed(s, call[s]) /\ call[s].at = "save" /\ call[s].kind = "cancel"
        /\ UNCHANGED <<blob, watcher, faults>> /\ call' = [call EXCEPT ![s] = Free]
    BY DEF CancelSave, TypeInv, TypeOK, Formed
  <1>2. call[s].job \in Jobs /\ job[call[s].job] \in Rows /\ job[call[s].job].status # "absent"
    BY <1>1 DEF CallFormed, TypeInv, TypeOK
  <1>3. CASE job[call[s].job].status = "gone"
    BY <1>1, <1>2, <1>3 DEF CancelSave, RowsStay, TypeInv, TypeOK
  <1>4. CASE job[call[s].job].status # "gone"
    <2> DEFINE j == call[s].job
               st == IF call[s].to = "Cancelled" THEN call[s].to ELSE job[j].status
               n == [job[j] EXCEPT !.stop = TRUE, !.status = st]
    <2>1. job' = [job EXCEPT ![j] = n]
      BY <1>2, <1>4 DEF CancelSave, TypeInv, TypeOK, Rows
    <2>2. st \in Active \cup Terminal \cup {"absent", "Queued", "gone"} /\ st # "absent"
      BY <1>2 DEF Rows, Terminal
    <2> HIDE DEF st
    <2>3. /\ n \in Rows /\ n.status = st /\ n.fresh = job[j].fresh /\ n.result = job[j].result
          /\ n.owner = job[j].owner /\ n.mode = job[j].mode
      BY <1>2, <2>2 DEF Rows
    <2> HIDE DEF n
    <2>4. job' \in [Jobs -> Rows] /\ RowsStay /\ job'[j] = n /\ \A i \in Jobs \ {j} : job'[i] = job[i]
      BY <1>2, <2>1, <2>2, <2>3, RowSaved
    <2> QED
      BY <1>1, <1>2, <1>4, <2>3, <2>4 DEF st
  <1> QED
    BY <1>3, <1>4

LEMMA TypeCancelSave ==
  ASSUME TypeInv, NEW s \in Slots, CancelSave(s)
  PROVE  TypeInv'
  <1>1. blob' \in SUBSET Jobs
    BY CancelSaved DEF TypeInv, TypeOK
  <1> QED
    BY <1>1, CancelSaved, ConstantTypes, OwnerForm

LEMMA TypeDeleteRead ==
  ASSUME TypeInv, NEW s \in Slots, DeleteRead(s)
  PROVE  TypeInv'
  <1> DEFINE row == job[call[s].job]
             d == [call[s] EXCEPT !.at = "blobs", !.result = row.result /\ row.mode # "publish"]
             c == IF MayDelete(row) THEN d ELSE Free
  <1>1. /\ call[s] \in Calls /\ CallFormed(s, call[s]) /\ call[s].at = "sent" /\ call[s].kind = "delete"
        /\ UNCHANGED <<job, blob, watcher, faults>> /\ call' = [call EXCEPT ![s] = c]
    BY DEF DeleteRead, Arrived, TypeInv, TypeOK, Formed
  <1>2. (row.result /\ row.mode # "publish") \in BOOLEAN
    OBVIOUS
  <1>3. d \in Calls /\ d.at = "blobs" /\ d.kind = "delete" /\ d.job = call[s].job
    BY <1>1, <1>2 DEF Calls
  <1>4. RowsStay /\ job' \in [Jobs -> Rows] /\ blob' \in SUBSET Jobs
    BY <1>1 DEF RowsStay, TypeInv, TypeOK
  <1>5. c \in Calls /\ (c = Free \/ (c.kind = "delete" /\ c.job = call[s].job /\ c.at = "blobs"))
    BY <1>3, ConstantTypes
  <1> HIDE DEF c
  <1> QED
    BY <1>1, <1>4, <1>5, OwnerForm

LEMMA TypeDeleteBlobs ==
  ASSUME TypeInv, NEW s \in Slots, DeleteBlobs(s)
  PROVE  TypeInv'
  <1> DEFINE c == [call[s] EXCEPT !.at = "save"]
  <1>1. /\ call[s] \in Calls /\ CallFormed(s, call[s]) /\ call[s].at = "blobs"
        /\ UNCHANGED <<job, watcher, faults>> /\ call' = [call EXCEPT ![s] = c]
    BY DEF DeleteBlobs, TypeInv, TypeOK, Formed
  <1>2. call[s].kind = "delete"
    BY <1>1 DEF CallFormed
  <1>3. c \in Calls /\ c.at = "save" /\ c.kind = "delete" /\ c.job = call[s].job
    BY <1>1, <1>2 DEF Calls
  <1>4. RowsStay /\ job' \in [Jobs -> Rows] /\ blob' \in SUBSET Jobs
    BY <1>1 DEF DeleteBlobs, RowsStay, TypeInv, TypeOK
  <1> HIDE DEF c
  <1> QED
    BY <1>1, <1>2, <1>3, <1>4, OwnerForm

\* The row goes.
LEMMA DeleteSaved ==
  ASSUME TypeInv, NEW s \in Slots, DeleteSave(s)
  PROVE  /\ call[s] \in Calls /\ CallFormed(s, call[s]) /\ call[s].at = "save" /\ call[s].kind = "delete"
         /\ call[s].job \in Jobs /\ UNCHANGED <<blob, watcher, faults>>
         /\ call' = [call EXCEPT ![s] = Free] /\ job' \in [Jobs -> Rows] /\ RowsStay
         /\ \A i \in Jobs \ {call[s].job} : job'[i] = job[i]
         /\ job'[call[s].job].status = "gone" /\ job'[call[s].job].mode = job[call[s].job].mode
         /\ ~job'[call[s].job].stop
  <1>1. /\ call[s] \in Calls /\ CallFormed(s, call[s]) /\ call[s].at = "save" /\ call[s].kind = "delete"
        /\ UNCHANGED <<blob, watcher, faults>> /\ call' = [call EXCEPT ![s] = Free]
    BY DEF DeleteSave, TypeInv, TypeOK, Formed
  <1>2. call[s].job \in Jobs /\ job[call[s].job] \in Rows
    BY <1>1 DEF CallFormed, TypeInv, TypeOK
  <1> DEFINE j == call[s].job
             n == [Absent EXCEPT !.status = "gone", !.mode = job[j].mode]
  <1>3. n \in Rows /\ n.status = "gone" /\ n.mode = job[j].mode /\ n.stop = FALSE
    BY <1>2, ConstantTypes DEF Rows, Absent
  <1>4. job' = [job EXCEPT ![j] = n]
    BY DEF DeleteSave
  <1> HIDE DEF n
  <1>5. job' \in [Jobs -> Rows] /\ RowsStay /\ job'[j] = n /\ \A i \in Jobs \ {j} : job'[i] = job[i]
    BY <1>2, <1>3, <1>4, RowSaved
  <1> QED
    BY <1>1, <1>2, <1>3, <1>5

LEMMA TypeDeleteSave ==
  ASSUME TypeInv, NEW s \in Slots, DeleteSave(s)
  PROVE  TypeInv'
  <1>1. blob' \in SUBSET Jobs
    BY DeleteSaved DEF TypeInv, TypeOK
  <1> QED
    BY <1>1, DeleteSaved, ConstantTypes, OwnerForm

LEMMA TypeServe ==
  ASSUME TypeInv, NEW s \in Slots, Serve(s)
  PROVE  TypeInv'
  BY TypeSweepRead, TypeSweepSave, TypeClaimNext, TypeReportRead, TypeReportSave, TypePublishRead,
     TypePublishSave, TypeCancelRead, TypeCancelSave, TypeDeleteRead, TypeDeleteBlobs, TypeDeleteSave
  DEF Serve

\* A row is inserted.
LEMMA Created ==
  ASSUME TypeInv, NEW j \in Jobs, NEW mode \in Modes, Create(j, mode)
  PROVE  /\ job' \in [Jobs -> Rows] /\ RowsStay /\ \A i \in Jobs \ {j} : job'[i] = job[i]
         /\ job[j].status = "absent" /\ job'[j].status = "Queued" /\ ~job'[j].stop
  <1> DEFINE n == [Absent EXCEPT !.status = "Queued", !.mode = mode]
  <1>1. n \in Rows /\ n.status = "Queued" /\ n.stop = FALSE
    BY ConstantTypes, ModesAssumption DEF Rows, Absent
  <1>2. job' = [job EXCEPT ![j] = n] /\ job[j].status = "absent"
    BY DEF Create
  <1> HIDE DEF n
  <1> QED
    BY <1>1, <1>2, RowSaved

LEMMA TypeCreate ==
  ASSUME TypeInv, NEW j \in Jobs, NEW mode \in Modes, Create(j, mode)
  PROVE  TypeInv'
  <1>1. UNCHANGED <<blob, call, watcher, faults>>
    BY DEF Create
  <1> QED
    BY <1>1, Created, Framed DEF TypeInv, TypeOK, Main, Beats

LEMMA TypeAsk ==
  ASSUME TypeInv, NEW u \in Users, NEW kind \in {"cancel", "delete"}, NEW j \in Jobs, Ask(u, kind, j)
  PROVE  TypeInv'
  <1> DEFINE c == [Free EXCEPT !.at = "sent", !.kind = kind, !.job = j]
             s == <<u, "main">>
  <1>1. c \in Calls /\ c.at = "sent" /\ c.kind = kind /\ c.job = j
    BY ConstantTypes DEF Calls, Free
  <1>2. /\ call' = [call EXCEPT ![s] = c] /\ job[j].status # "absent"
        /\ UNCHANGED <<job, blob, watcher, faults>>
    BY DEF Ask
  <1>3. s \in Slots /\ s[1] = u /\ \A w \in Watchers, a \in {"main", "beat"} : <<w, a>> # s
    BY SlotTypes
  <1> HIDE DEF c
  <1>4. CallFormed(s, c)
    BY <1>1, <1>2, <1>3 DEF CallFormed
  <1> HIDE DEF s
  <1>5. call' \in [Slots -> Calls] /\ call'[s] = c /\ \A t \in Slots \ {s} : call'[t] = call[t]
    BY <1>1, <1>2, <1>3 DEF TypeInv, TypeOK
  <1>6. RowsStay
    BY <1>2 DEF RowsStay
  <1>7. \A w \in Watchers : call'[<<w, "main">>] = Main(w) /\ call'[<<w, "beat">>] = Beats(w)
    BY <1>3, <1>5, SlotTypes DEF Main, Beats
  <1> QED
    BY <1>2, <1>4, <1>5, <1>6, <1>7, Framed DEF TypeInv, TypeOK

LEMMA Aged ==
  ASSUME TypeInv, NEW j \in Jobs, AgeOut(j)
  PROVE  /\ job' \in [Jobs -> Rows] /\ RowsStay /\ \A i \in Jobs \ {j} : job'[i] = job[i]
         /\ job[j].status \in Active /\ job[j].fresh /\ ~job'[j].fresh
         /\ job'[j].status = job[j].status /\ job'[j].owner = job[j].owner /\ job'[j].mode = job[j].mode
         /\ job'[j].stop = job[j].stop /\ job'[j].result = job[j].result
         /\ job'[j].attempts = job[j].attempts /\ faults' \in 0..MaxFaults /\ faults' = (IF AtWork(j) THEN faults + 1 ELSE faults)
  <1> DEFINE n == [job[j] EXCEPT !.fresh = FALSE]
  <1>1. job[j] \in Rows /\ job[j].status \in Active /\ job[j].fresh
    BY DEF AgeOut, TypeInv, TypeOK
  <1>2. /\ n \in Rows /\ n.status = job[j].status /\ n.owner = job[j].owner /\ n.mode = job[j].mode
        /\ n.stop = job[j].stop /\ n.result = job[j].result /\ n.fresh = FALSE
        /\ n.attempts = job[j].attempts
    BY <1>1 DEF Rows
  <1>3. job' = [job EXCEPT ![j] = n]
    BY DEF AgeOut, TypeInv, TypeOK
  <1> HIDE DEF n
  <1>4. n.status # "absent"
    BY <1>1, <1>2 DEF Active
  <1>5. job' \in [Jobs -> Rows] /\ RowsStay /\ job'[j] = n /\ \A i \in Jobs \ {j} : job'[i] = job[i]
    BY <1>2, <1>3, <1>4, RowSaved
  <1>6. faults' \in 0..MaxFaults /\ faults' = (IF AtWork(j) THEN faults + 1 ELSE faults)
    BY ElementTypes DEF AgeOut, TypeInv, TypeOK
  <1> QED
    BY <1>1, <1>2, <1>5, <1>6

LEMMA TypeAgeOut ==
  ASSUME TypeInv, NEW j \in Jobs, AgeOut(j)
  PROVE  TypeInv'
  <1>1. UNCHANGED <<blob, call, watcher>>
    BY DEF AgeOut
  <1> QED
    BY <1>1, Aged, Framed DEF TypeInv, TypeOK, Main, Beats

LEMMA TypeAbort ==
  ASSUME TypeInv, NEW u \in Users, Abort(u)
  PROVE  TypeInv'
  <1> DEFINE s == <<u, "main">>
  <1>1. /\ call' = [call EXCEPT ![s] = Free] /\ UNCHANGED <<job, blob, watcher>>
        /\ faults' \in 0..MaxFaults
    BY ElementTypes DEF Abort, TypeInv
  <1>2. s \in Slots /\ \A w \in Watchers, a \in {"main", "beat"} : <<w, a>> # s
    BY SlotTypes
  <1> HIDE DEF s
  <1>3. call' \in [Slots -> Calls] /\ call'[s] = Free /\ \A t \in Slots \ {s} : call'[t] = call[t]
    BY <1>1, <1>2, ConstantTypes DEF TypeInv, TypeOK
  <1>4. RowsStay /\ CallFormed(s, Free)
    BY <1>1, ConstantTypes DEF RowsStay, CallFormed
  <1>5. \A w \in Watchers : call'[<<w, "main">>] = Main(w) /\ call'[<<w, "beat">>] = Beats(w)
    BY <1>2, <1>3, SlotTypes DEF Main, Beats
  <1> QED
    BY <1>1, <1>3, <1>4, <1>5, Framed DEF TypeInv, TypeOK

-----------------------------------------------------------------------------
(* The types of a watcher's steps.                                             *)

\* What is known of a watcher before its step.
LEMMA Worker ==
  ASSUME TypeInv, NEW w \in Watchers
  PROVE  /\ watcher[w] \in Processes /\ Main(w) \in Calls /\ Beats(w) \in Calls
         /\ WatcherFormed(w, watcher[w], Main(w), Beats(w))
         /\ CallFormed(<<w, "main">>, Main(w)) /\ CallFormed(<<w, "beat">>, Beats(w))
         /\ CallFormed(<<w, "main">>, Free) /\ CallFormed(<<w, "beat">>, Free)
         /\ watcher[w].pc \in OffWork => Beats(w).at = "free"
         /\ watcher[w].pc \notin {"claiming", "reporting"} => Main(w).at = "free"
  <1>1. watcher[w] \in Processes /\ Main(w) \in Calls /\ Beats(w) \in Calls
    BY ElementTypes DEF TypeInv
  <1>2. WatcherFormed(w, watcher[w], Main(w), Beats(w))
    BY DEF TypeInv, Formed
  <1>3. CallFormed(<<w, "main">>, Main(w)) /\ CallFormed(<<w, "beat">>, Beats(w))
    BY SlotTypes DEF TypeInv, Formed, Main, Beats
  <1>4. CallFormed(<<w, "main">>, Free) /\ CallFormed(<<w, "beat">>, Free)
    BY ConstantTypes DEF CallFormed
  <1>5. /\ watcher[w].pc \in OffWork => Beats(w).at = "free"
        /\ watcher[w].pc \notin {"claiming", "reporting"} => Main(w).at = "free"
    BY <1>2 DEF WatcherFormed
  <1> QED
    BY <1>1, <1>2, <1>3, <1>4, <1>5

\* A step that leaves nothing behind.
LEMMA WorkFormed ==
  ASSUME TypeInv, NEW w \in Watchers, NEW p \in Processes, NEW m \in Calls,
         UNCHANGED job, blob' \in SUBSET Jobs, faults' \in 0..MaxFaults,
         watcher' = [watcher EXCEPT ![w] = p], call' = [call EXCEPT ![<<w, "main">>] = m],
         m = Main(w) \/ CallFormed(<<w, "main">>, m),
         WatcherFormed(w, p, m, Beats(w))
  PROVE  TypeInv'
  <1> DEFINE s == <<w, "main">>
  <1>1. call' \in [Slots -> Calls] /\ call'[s] = m /\ \A t \in Slots \ {s} : call'[t] = call[t]
    BY ZenonT(60), SlotTypes DEF TypeInv, TypeOK
  <1>2. call'[<<w, "beat">>] = Beats(w) /\ call'[<<w, "late">>] = call[<<w, "late">>]
    BY <1>1, SlotTypes DEF Beats
  <1> QED
    BY <1>1, <1>2, Worker, WorkForm

\* One that leaves the requests alone.
LEMMA AloneFormed ==
  ASSUME TypeInv, NEW w \in Watchers, NEW p \in Processes,
         UNCHANGED <<job, call>>, blob' \in SUBSET Jobs, faults' \in 0..MaxFaults,
         watcher' = [watcher EXCEPT ![w] = p], WatcherFormed(w, p, Main(w), Beats(w))
  PROVE  TypeInv'
  <1>1. call' = [call EXCEPT ![<<w, "main">>] = Main(w)]
    BY SlotTypes DEF TypeInv, TypeOK, Main
  <1> QED
    BY <1>1, Worker, WorkFormed

\* A report as it is sent, with a result or without.
Sent(w, to, res) == [Report(w, to) EXCEPT !.at = "sent", !.result = res]

LEMMA ReportCall ==
  ASSUME NEW w \in Watchers, watcher[w] \in Processes, NEW to \in Active \cup Terminal \cup {"beat"},
         NEW res \in BOOLEAN
  PROVE  /\ Sent(w, to, res) \in Calls
         /\ Sent(w, to, res).at = "sent" /\ Sent(w, to, res).kind = "report"
         /\ Sent(w, to, res).job = watcher[w].job /\ Sent(w, to, res).to = to
         /\ Sent(w, to, res).result = res /\ Sent(w, to, res).conflict = FALSE
         /\ res = FALSE => [Report(w, to) EXCEPT !.at = "sent"] = Sent(w, to, res)
  <1> DEFINE r == Report(w, to)
             jj == watcher[w].job
  <1>1. jj \in Jobs \cup {NoJob}
    BY DEF Processes
  <1> HIDE DEF jj
  <1>2. r = [Free EXCEPT !.kind = "report", !.job = jj, !.to = to]
    BY DEF Report, jj
  <1> HIDE DEF r
  <1>3. Free.result = FALSE /\ Free.conflict = FALSE
    BY DEF Free
  <1>4. r \in Calls /\ r.kind = "report" /\ r.job = jj /\ r.to = to /\ r.result = FALSE /\ r.conflict = FALSE
    BY <1>1, <1>2, <1>3, ConstantTypes DEF Calls
  <1> DEFINE c == [r EXCEPT !.at = "sent", !.result = res]
  <1>5. /\ c \in Calls /\ c.at = "sent" /\ c.kind = "report" /\ c.job = jj /\ c.to = to
        /\ c.result = res /\ c.conflict = FALSE
        /\ res = FALSE => [r EXCEPT !.at = "sent"] = c
    BY <1>4 DEF Calls
  <1>6. Sent(w, to, res) = c
    BY DEF Sent, r
  <1> HIDE DEF c
  <1> QED
    BY <1>5, <1>6 DEF jj, r

\* A watcher that goes to another step, and may end another way.
Step(p, pc, out) == [p EXCEPT !.pc = pc, !.out = out]

LEMMA Stepped ==
  ASSUME NEW p \in Processes, NEW pc \in Steps, NEW out \in {"result", "Cancelled", "Failed"}
  PROVE  /\ Step(p, pc, out) \in Processes
         /\ Step(p, pc, out).pc = pc /\ Step(p, pc, out).out = out /\ Step(p, pc, out).job = p.job
         /\ Step(p, pc, out).mode = p.mode /\ Step(p, pc, out).todo = p.todo
         /\ Step(p, pc, out).applied = p.applied /\ Step(p, pc, out).artifact = p.artifact
         /\ Step(p, pc, out).disowned = p.disowned /\ Step(p, pc, out).requested = p.requested
         /\ Raised(p, out) = Step(p, "closing", out)
         /\ out = p.out => [p EXCEPT !.pc = pc] = Step(p, pc, out)
  BY DEF Processes, Step, Raised

LEMMA SteppedOn ==
  ASSUME NEW p \in Processes, NEW pc \in Steps
  PROVE  /\ [p EXCEPT !.pc = pc] = Step(p, pc, p.out)
         /\ Step(p, pc, p.out) \in Processes
         /\ Step(p, pc, p.out).pc = pc /\ Step(p, pc, p.out).out = p.out /\ Step(p, pc, p.out).job = p.job
         /\ Step(p, pc, p.out).mode = p.mode /\ Step(p, pc, p.out).todo = p.todo
         /\ Step(p, pc, p.out).applied = p.applied /\ Step(p, pc, p.out).artifact = p.artifact
         /\ Step(p, pc, p.out).disowned = p.disowned /\ Step(p, pc, p.out).requested = p.requested
  BY DEF Processes, Step

LEMMA TypePoll ==
  ASSUME TypeInv, NEW w \in Watchers, Poll(w)
  PROVE  TypeInv'
  <1> DEFINE p == [Idle EXCEPT !.pc = "claiming"]
             m == [Free EXCEPT !.at = "sent"]
  <1>1. /\ watcher[w].pc = "idle" /\ UNCHANGED <<job, blob, faults>>
        /\ watcher' = [watcher EXCEPT ![w] = p] /\ call' = [call EXCEPT ![<<w, "main">>] = m]
    BY DEF Poll, Become, Send
  <1>2. m \in Calls /\ m.at = "sent" /\ m.kind = "claim" /\ m.job = NoJob
    BY ConstantTypes DEF Calls, Free
  <1>3. p \in Processes /\ p.pc = "claiming" /\ p.todo = <<>> /\ p.out = "result"
    BY ConstantTypes DEF Processes, Idle, Steps
  <1> HIDE DEF p, m
  <1>4. CallFormed(<<w, "main">>, m)
    BY <1>2, SlotTypes, ConstantTypes DEF CallFormed
  <1>5. Beats(w).at = "free" /\ Len(<<>>) = 0
    BY <1>1, Worker DEF OffWork
  <1>6. WatcherFormed(w, p, m, Beats(w))
    BY <1>2, <1>3, <1>5 DEF WatcherFormed, OffWork
  <1> QED
    BY <1>1, <1>2, <1>3, <1>4, <1>6, WorkFormed DEF TypeInv, TypeOK

LEMMA TypeReportStage ==
  ASSUME TypeInv, NEW w \in Watchers, ReportStage(w)
  PROVE  TypeInv'
  <1>1. PICK to \in {"Running", "Uploading"} :
          /\ watcher[w].pc = IF to = "Running" THEN "claimed" ELSE "solved"
          /\ call' = [call EXCEPT ![<<w, "main">>] = [Report(w, to) EXCEPT !.at = "sent"]]
    <2>1. \/ watcher[w].pc = "claimed" /\ Send(w, Report(w, "Running"))
          \/ watcher[w].pc = "solved" /\ Send(w, Report(w, "Uploading"))
      BY DEF ReportStage
    <2>2. CASE watcher[w].pc = "claimed" /\ Send(w, Report(w, "Running"))
      BY <2>2 DEF Send
    <2>3. CASE watcher[w].pc = "solved" /\ Send(w, Report(w, "Uploading"))
      BY <2>3 DEF Send
    <2> QED
      BY <2>1, <2>2, <2>3
  <1> DEFINE p == [watcher[w] EXCEPT !.pc = "reporting"]
             m == Sent(w, to, FALSE)
  <1>2. UNCHANGED <<job, blob, faults>> /\ watcher' = [watcher EXCEPT ![w] = p]
    BY DEF ReportStage, Become
  <1>3. m \in Calls /\ m.at = "sent" /\ m.kind = "report" /\ m.job = watcher[w].job /\ m.to = to
    <2>1. to \in Active \cup Terminal \cup {"beat"}
      BY DEF Active
    <2> QED
      BY <2>1, Worker, ReportCall
  <1>4. /\ p \in Processes /\ p.pc = "reporting" /\ p.out = watcher[w].out /\ p.job = watcher[w].job
        /\ p.mode = watcher[w].mode /\ p.todo = watcher[w].todo
    BY Worker DEF Processes, Steps
  <1>5. call' = [call EXCEPT ![<<w, "main">>] = m]
    <2>1. to \in Active \cup Terminal \cup {"beat"} /\ FALSE \in BOOLEAN
      BY DEF Active
    <2>2. [Report(w, to) EXCEPT !.at = "sent"] = m
      BY <2>1, Worker, ReportCall
    <2> QED
      BY <1>1, <2>2
  <1> HIDE DEF p, m
  <1>6. watcher[w].job \in Jobs /\ job[watcher[w].job].status # "absent"
    BY <1>1, Worker DEF WatcherFormed, OffWork
  <1>7. CallFormed(<<w, "main">>, m)
    BY <1>3, <1>6, SlotTypes DEF CallFormed
  <1>8. WatcherFormed(w, p, m, Beats(w))
    BY ZenonT(60), <1>1, <1>3, <1>4, <1>6, Worker DEF WatcherFormed, OffWork, Terminal
  <1> QED
    BY <1>2, <1>3, <1>4, <1>5, <1>7, <1>8, WorkFormed DEF TypeInv, TypeOK

\* What a heartbeat's answer is observed as.
LEMMA ObservedForm ==
  ASSUME NEW p \in Processes, NEW c \in Calls
  PROVE  LET n == Observed(p, c) IN
         /\ n \in Processes /\ n.pc = p.pc /\ n.out = p.out /\ n.job = p.job /\ n.mode = p.mode
         /\ n.todo = p.todo /\ n.applied = p.applied /\ n.artifact = p.artifact
  <1> DEFINE dis == p.disowned \/ c.conflict
             req == p.requested \/ c.conflict \/ c.stop
             n == [p EXCEPT !.disowned = dis, !.requested = req]
  <1>1. dis \in BOOLEAN /\ req \in BOOLEAN
    BY DEF Processes, Calls
  <1>2. Observed(p, c) = n
    BY DEF Observed, Processes
  <1> HIDE DEF dis, req
  <1>3. /\ n \in Processes /\ n.pc = p.pc /\ n.out = p.out /\ n.job = p.job /\ n.mode = p.mode
        /\ n.todo = p.todo /\ n.applied = p.applied /\ n.artifact = p.artifact
    BY <1>1 DEF Processes
  <1> QED
    BY <1>2, <1>3

\* What a watcher becomes when its request is over.
LEMMA AfterForm ==
  ASSUME TypeInv, NEW w \in Watchers, Main(w).at # "free", NEW c \in Calls, c.kind = Main(w).kind,
         c.job = Main(w).job, c.to = Main(w).to, c.at \in {"reply", "free"},
         NEW b \in {Beats(w), Free}, After(w, c) = Idle => b = Free
  PROVE  After(w, c) \in Processes /\ WatcherFormed(w, After(w, c), Free, b)
  <1> DEFINE p == watcher[w]
             a == After(w, c)
  <1>0. /\ p \in Processes /\ WatcherFormed(w, p, Main(w), Beats(w)) /\ CallFormed(<<w, "main">>, Main(w))
        /\ Free.at = "free"
    BY Worker, ConstantTypes
  <1>1. CASE a = Idle
    <2>1. WatcherFormed(w, Idle, Free, Free)
      <3>1. Idle.pc = "idle" /\ Idle.todo = <<>> /\ Len(<<>>) = 0
        BY DEF Idle
      <3> QED
        BY <1>0, <3>1 DEF WatcherFormed, OffWork
    <2> QED
      BY <1>1, <2>1, ConstantTypes
  <1>2. CASE c.kind = "claim" /\ c.at = "reply" /\ c.job # NoJob
    <2> DEFINE mode == job[c.job].mode
               n == [Idle EXCEPT !.pc = "claimed", !.job = c.job, !.mode = mode, !.todo = Children[mode]]
    <2>1. c.job \in Jobs /\ job[c.job].status # "absent" /\ mode \in DOMAIN Children
      BY <1>0, <1>2 DEF Calls, CallFormed, TypeInv, TypeOK, Rows
    <2>2. a = n
      BY <1>2 DEF After
    <2>3. /\ Children[mode] \in Plans /\ Children[mode] # <<>>
          /\ mode \in Asking => \A i \in 1..Len(Children[mode]) : Children[mode][i] \in AskingChildren
      BY <2>1, PlanTypes, ChildrenTypes
    <2> DEFINE todo == Children[mode]
    <2> HIDE DEF mode, todo
    <2>4. /\ n \in Processes /\ n.pc = "claimed" /\ n.job = c.job /\ n.mode = mode /\ n.todo = todo
          /\ n.out = "result"
      BY <2>1, <2>3, ConstantTypes DEF Processes, Idle, Steps, todo
    <2> HIDE DEF n
    <2>5. b.at = "free"
      BY <1>0, <1>2 DEF WatcherFormed, OffWork
    <2>6. WatcherFormed(w, n, Free, b)
      BY <1>0, <2>1, <2>3, <2>4, <2>5 DEF WatcherFormed, OffWork, todo
    <2> QED
      BY <2>2, <2>4, <2>6
  <1>3. ASSUME c.kind # "claim", NEW x \in {"closing", "running", "uploading"},
               NEW o \in {"result", "Cancelled", "Failed"}, NEW q \in Processes,
               q.job = p.job, q.mode = p.mode, q.todo = p.todo, a = Step(q, x, o),
               x # "closing" => o = "result", x = "running" => p.todo # <<>>
        PROVE  a \in Processes /\ WatcherFormed(w, a, Free, b)
    <2>0. x \in Steps
      BY DEF Steps
    <2>1. a \in Processes /\ a.pc = x /\ a.out = o /\ a.job = p.job /\ a.mode = p.mode /\ a.todo = p.todo
      BY <1>3, <2>0, Stepped
    <2> HIDE DEF a
    <2>2. p.pc = "reporting" /\ p.job \in Jobs /\ job[p.job].status # "absent"
      BY <1>0, <1>3 DEF WatcherFormed, OffWork
    <2>3. WatcherFormed(w, a, Free, b)
      BY <1>0, <1>3, <2>1, <2>2 DEF WatcherFormed, OffWork
    <2> QED
      BY <2>1, <2>3
  <1>4. CASE c.kind = "publish"
    <2> DEFINE o == IF c.at = "reply" /\ ~c.conflict THEN p.out ELSE "Failed"
    <2>1. a = Step(p, "closing", o)
      BY <1>0, <1>4 DEF After, Processes, Step
    <2>2. o \in {"result", "Cancelled", "Failed"}
      BY <1>0 DEF Processes
    <2> HIDE DEF o, a
    <2> QED
      BY <1>0, <1>3, <1>4, <2>1, <2>2 DEF a
  <1>5. CASE c.kind = "report" /\ c.to = "Running" /\ ~(c.at = "reply" /\ c.conflict)
    <2> DEFINE q == IF c.at = "reply" THEN Observed(p, c) ELSE p
    <2>1. q \in Processes /\ q.job = p.job /\ q.mode = p.mode /\ q.todo = p.todo /\ q.out = p.out
      BY <1>0, ObservedForm
    <2>2. p.out = "result" /\ p.todo # <<>>
      BY <1>0, <1>5 DEF WatcherFormed, Terminal
    <2>3. a = [q EXCEPT !.pc = "running"]
      BY <1>5 DEF After
    <2> HIDE DEF q, a
    <2>4. a = Step(q, "running", "result")
      <3>1. "running" \in Steps
        BY DEF Steps
      <3> QED
        BY <2>1, <2>2, <2>3, <3>1, Stepped
    <2> QED
      BY <1>3, <1>5, <2>1, <2>2, <2>4 DEF a
  <1>6. CASE c.kind = "report" /\ c.to = "Uploading"
    <2>1. p.out = "result"
      BY <1>0, <1>6 DEF WatcherFormed, Terminal
    <2>2. a = [p EXCEPT !.pc = "uploading"]
      BY <1>6 DEF After
    <2> HIDE DEF a
    <2>3. a = Step(p, "uploading", "result")
      <3>1. "uploading" \in Steps
        BY DEF Steps
      <3> QED
        BY <1>0, <2>1, <2>2, <3>1, Stepped
    <2> QED
      BY <1>0, <1>3, <1>6, <2>3 DEF a
  <1>7. a = Idle \/ (c.kind = "claim" /\ c.at = "reply" /\ c.job # NoJob) \/ c.kind = "publish"
        \/ (c.kind = "report" /\ c.to = "Running" /\ ~(c.at = "reply" /\ c.conflict))
        \/ (c.kind = "report" /\ c.to = "Uploading")
    <2>1. c.kind \in {"claim", "report", "publish"}
      BY <1>0, SlotTypes DEF CallFormed, Calls
    <2> QED
      BY <2>1 DEF After
  <1> QED
    BY <1>1, <1>2, <1>4, <1>5, <1>6, <1>7

LEMMA TypeReceive ==
  ASSUME TypeInv, NEW w \in Watchers, Receive(w)
  PROVE  TypeInv'
  <1>1. /\ Main(w).at = "reply" /\ UNCHANGED <<job, blob, faults>>
        /\ watcher' = [watcher EXCEPT ![w] = After(w, Main(w))]
        /\ After(w, Main(w)) = Idle => Beats(w) = Free
        /\ call' = [call EXCEPT ![<<w, "main">>] = Free]
    BY DEF Receive, Leaves, Become, Main, Beats
  <1>2. After(w, Main(w)) \in Processes /\ WatcherFormed(w, After(w, Main(w)), Free, Beats(w))
    BY <1>1, Worker, AfterForm
  <1> QED
    BY <1>1, <1>2, Worker, ConstantTypes, WorkFormed DEF TypeInv, TypeOK

LEMMA TypeHear ==
  ASSUME TypeInv, NEW w \in Watchers, Hear(w)
  PROVE  TypeInv'
  <1> DEFINE p == Observed(watcher[w], Beats(w))
             s == <<w, "beat">>
  <1>1. /\ Beats(w).at = "reply" /\ UNCHANGED <<job, blob, faults>>
        /\ watcher' = [watcher EXCEPT ![w] = p] /\ call' = [call EXCEPT ![s] = Free]
    BY DEF Hear, Become, Beats
  <1>2. /\ p \in Processes /\ p.pc = watcher[w].pc /\ p.out = watcher[w].out /\ p.job = watcher[w].job
        /\ p.mode = watcher[w].mode /\ p.todo = watcher[w].todo /\ p.applied = watcher[w].applied
    BY Worker, ObservedForm
  <1> HIDE DEF p
  <1>3. WatcherFormed(w, p, Main(w), Free)
    <2>1. Engine(p) = Engine(watcher[w])
      BY <1>2 DEF Engine, Child
    <2>2. WatcherFormed(w, watcher[w], Main(w), Beats(w)) /\ Free.at = "free"
      BY Worker, ConstantTypes
    <2> QED
      BY <1>2, <2>1, <2>2 DEF WatcherFormed
  <1>4. s \in Slots /\ s # <<w, "main">> /\ s # <<w, "late">> /\ <<w, "main">> \in Slots /\ <<w, "late">> \in Slots
    BY SlotTypes
  <1>5. call' \in [Slots -> Calls] /\ call'[s] = Free /\ \A t \in Slots \ {s} : call'[t] = call[t]
    BY <1>1, <1>4, ConstantTypes DEF TypeInv, TypeOK
  <1>6. call'[<<w, "main">>] = Main(w) /\ call'[<<w, "late">>] = call[<<w, "late">>]
    BY <1>4, <1>5 DEF Main
  <1>7. blob' \in SUBSET Jobs /\ faults' \in 0..MaxFaults /\ UNCHANGED job
    BY <1>1 DEF TypeInv, TypeOK
  <1>8. Main(w) \in Calls /\ CallFormed(<<w, "beat">>, Free)
    BY Worker
  <1> QED
    BY <1>1, <1>2, <1>3, <1>5, <1>6, <1>7, <1>8, ConstantTypes, WorkForm

LEMMA TypeBeat ==
  ASSUME TypeInv, NEW w \in Watchers, Beat(w)
  PROVE  TypeInv'
  <1> DEFINE p == watcher[w]
             s == <<w, "beat">>
             b == Sent(w, "beat", FALSE)
  <1>0. "beat" \in Active \cup Terminal \cup {"beat"} /\ FALSE \in BOOLEAN
    OBVIOUS
  <1>1. /\ p.pc \notin OffWork /\ UNCHANGED <<job, blob, watcher, faults>>
        /\ call' = [call EXCEPT ![s] = b]
    <2>1. /\ p.pc \notin OffWork /\ UNCHANGED <<job, blob, watcher, faults>>
          /\ call' = [call EXCEPT ![s] = [Report(w, "beat") EXCEPT !.at = "sent"]]
      BY DEF Beat, Beating, OffWork
    <2>2. [Report(w, "beat") EXCEPT !.at = "sent"] = b
      BY <1>0, Worker, ReportCall
    <2> QED
      BY <2>1, <2>2
  <1>2. b \in Calls /\ b.at = "sent" /\ b.kind = "report" /\ b.job = p.job /\ b.to = "beat"
    BY ZenonT(60), <1>0, Worker, ReportCall
  <1> HIDE DEF b
  <1>3. p.job \in Jobs /\ job[p.job].status # "absent" /\ WatcherFormed(w, p, Main(w), Beats(w))
    BY <1>1, Worker DEF WatcherFormed
  <1>4. CallFormed(s, b) /\ WatcherFormed(w, p, Main(w), b)
    BY <1>1, <1>2, <1>3, SlotTypes DEF CallFormed, WatcherFormed
  <1>5. s \in Slots /\ s # <<w, "main">> /\ s # <<w, "late">> /\ <<w, "main">> \in Slots /\ <<w, "late">> \in Slots
    BY SlotTypes
  <1>6. call' \in [Slots -> Calls] /\ call'[s] = b /\ \A t \in Slots \ {s} : call'[t] = call[t]
    BY <1>1, <1>2, <1>5 DEF TypeInv, TypeOK
  <1>7. call'[<<w, "main">>] = Main(w) /\ call'[<<w, "late">>] = call[<<w, "late">>]
    BY <1>5, <1>6 DEF Main
  <1>8. blob' \in SUBSET Jobs /\ faults' \in 0..MaxFaults /\ UNCHANGED job /\ watcher' = [watcher EXCEPT ![w] = p]
    BY <1>1 DEF TypeInv, TypeOK
  <1>9. p \in Processes /\ Main(w) \in Calls
    BY Worker
  <1> QED
    BY <1>2, <1>4, <1>6, <1>7, <1>8, <1>9, WorkForm

\* A process that goes on with its job, its requests as they were.
LEMMA GoesOn ==
  ASSUME TypeInv, NEW w \in Watchers, watcher[w].pc \notin OffWork \cup {"reporting"}, NEW p \in Processes,
         p.job = watcher[w].job, p.mode = watcher[w].mode, p.pc \notin OffWork \cup {"reporting"},
         p.pc \in {"claimed", "running", "stopping"} => p.todo # <<>>,
         p.pc = "stopping" => p.applied /\ Engine(p),
         p.mode \in Asking => \A i \in 1..Len(p.todo) : p.todo[i] \in AskingChildren,
         p.pc # "closing" => p.out = "result"
  PROVE  WatcherFormed(w, p, Main(w), Beats(w)) /\ Main(w).at = "free"
  <1>1. WatcherFormed(w, watcher[w], Main(w), Beats(w))
    BY Worker
  <1>2. Main(w).at = "free" /\ p.pc # "claiming"
    BY <1>1 DEF WatcherFormed, OffWork
  <1> QED
    BY <1>1, <1>2 DEF WatcherFormed

\* What a watcher is when a child of its job has ended: it closes, runs the next
\* or is done with them.
LEMMA AdvancedForm ==
  ASSUME NEW p \in Processes, p.todo # <<>>,
         p.mode \in Asking => \A i \in 1..Len(p.todo) : p.todo[i] \in AskingChildren
  PROVE  /\ Advanced(p) \in Processes /\ Advanced(p).job = p.job /\ Advanced(p).mode = p.mode
         /\ Advanced(p).applied = p.applied
         /\ Advanced(p).pc \in {"closing", "running", "solved"}
         /\ Advanced(p).out = (IF Engine(p) /\ p.disowned THEN "Cancelled" ELSE p.out)
         /\ Engine(p) /\ p.disowned <=> Advanced(p).pc = "closing"
         /\ Advanced(p).pc = "running" => Advanced(p).todo # <<>>
         /\ p.mode \in Asking =>
              \A i \in 1..Len(Advanced(p).todo) : Advanced(p).todo[i] \in AskingChildren
  <1>1. CASE Engine(p) /\ p.disowned
    <2>1. Advanced(p) = Step(p, "closing", "Cancelled") /\ "closing" \in Steps
      BY <1>1 DEF Advanced, Step, Steps
    <2> QED
      BY <1>1, <2>1, Stepped
  <1>2. CASE ~(Engine(p) /\ p.disowned)
    <2> DEFINE todo == IF p.applied /\ p.todo = Children.twocores THEN <<"extract">> ELSE Tail(p.todo)
               art == p.artifact \/ Engine(p)
               pc == IF todo = <<>> THEN "solved" ELSE "running"
               n == [p EXCEPT !.todo = todo, !.artifact = art, !.pc = pc]
    <2>1. todo \in Plans
      BY PlanTypes DEF Processes
    <2>2. p.mode \in Asking => \A i \in 1..Len(todo) : todo[i] \in AskingChildren
      <3>1. p.todo \in Seq(ChildKinds)
        BY PlanTypes DEF Processes
      <3>2. CASE todo = <<"extract">>
        <4> HIDE DEF todo
        <4>1. Len(todo) = 1 /\ todo[1] = "extract"
          BY <3>2
        <4> QED
          BY <4>1 DEF AskingChildren
      <3>3. CASE todo = Tail(p.todo)
        <4> HIDE DEF todo
        <4>1. /\ Len(todo) = Len(p.todo) - 1 /\ Len(p.todo) \in Nat
              /\ \A i \in 1..Len(todo) : todo[i] = p.todo[i + 1]
          BY <3>1, <3>3, HeadTailProperties
        <4> QED
          BY <4>1
      <3> QED
        BY <3>2, <3>3
    <2>3. Advanced(p) = n
      BY <1>2 DEF Advanced, Processes
    <2>4. art \in BOOLEAN /\ pc \in {"running", "solved"} /\ (pc = "running" => todo # <<>>)
      BY DEF Processes, Engine
    <2> HIDE DEF todo, art, pc
    <2>5. /\ n \in Processes /\ n.job = p.job /\ n.mode = p.mode /\ n.applied = p.applied
          /\ n.pc = pc /\ n.out = p.out /\ n.todo = todo
      BY <2>1, <2>4 DEF Processes, Steps
    <2> HIDE DEF n
    <2> QED
      BY <1>2, <2>2, <2>3, <2>4, <2>5
  <1> QED
    BY <1>1, <1>2

LEMMA TypeChildSucceeds ==
  ASSUME TypeInv, NEW w \in Watchers, ChildSucceeds(w)
  PROVE  TypeInv'
  <1> DEFINE p == watcher[w]
             n == Advanced(p)
  <1>1. p.pc = "running" /\ UNCHANGED <<job, blob, call, faults>> /\ watcher' = [watcher EXCEPT ![w] = n]
    BY DEF ChildSucceeds, Become
  <1>2. p \in Processes /\ WatcherFormed(w, p, Main(w), Beats(w))
    BY Worker
  <1>3. /\ p.todo # <<>> /\ p.out = "result"
        /\ p.mode \in Asking => \A i \in 1..Len(p.todo) : p.todo[i] \in AskingChildren
    BY <1>1, <1>2 DEF WatcherFormed
  <1>4. /\ n \in Processes /\ n.job = p.job /\ n.mode = p.mode /\ n.pc \in {"closing", "running", "solved"}
        /\ n.pc = "running" => n.todo # <<>>
        /\ p.mode \in Asking => \A i \in 1..Len(n.todo) : n.todo[i] \in AskingChildren
        /\ n.pc # "closing" => n.out = "result"
    BY <1>2, <1>3, AdvancedForm
  <1> HIDE DEF n
  <1>5. WatcherFormed(w, n, Main(w), Beats(w))
    BY <1>1, <1>4, GoesOn DEF OffWork
  <1> QED
    BY <1>1, <1>4, <1>5, AloneFormed DEF TypeInv, TypeOK

\* A handler that raises closes its job.
LEMMA RaisedFormed ==
  ASSUME TypeInv, NEW w \in Watchers, watcher[w].pc \notin OffWork \cup {"reporting"},
         NEW out \in {"Cancelled", "Failed"}, UNCHANGED <<job, blob, call>>, faults' \in 0..MaxFaults,
         watcher' = [watcher EXCEPT ![w] = Raised(watcher[w], out)]
  PROVE  TypeInv'
  <1> DEFINE p == watcher[w]
             n == Step(p, "closing", out)
  <1>1. p \in Processes /\ "closing" \in Steps /\ out \in {"result", "Cancelled", "Failed"}
    BY Worker DEF Steps
  <1>2. n \in Processes /\ n.pc = "closing" /\ n.job = p.job /\ n.mode = p.mode /\ n.todo = p.todo
        /\ Raised(p, out) = n
    BY <1>1, Stepped
  <1> HIDE DEF n
  <1>3. p.mode \in Asking => \A i \in 1..Len(p.todo) : p.todo[i] \in AskingChildren
    BY Worker DEF WatcherFormed
  <1>4. WatcherFormed(w, n, Main(w), Beats(w))
    BY <1>2, <1>3, GoesOn DEF OffWork
  <1> QED
    BY <1>2, <1>4, AloneFormed DEF TypeInv, TypeOK

LEMMA TypeChildFails ==
  ASSUME TypeInv, NEW w \in Watchers, ChildFails(w)
  PROVE  TypeInv'
  <1>1. /\ watcher[w].pc \notin OffWork \cup {"reporting"} /\ UNCHANGED <<job, blob, call>>
        /\ faults' \in 0..MaxFaults
    BY ElementTypes DEF ChildFails, OffWork, TypeInv
  <1>2. \E out \in {"Cancelled", "Failed"} : watcher' = [watcher EXCEPT ![w] = Raised(watcher[w], out)]
    BY DEF ChildFails, Become, Missing
  <1> QED
    BY <1>1, <1>2, RaisedFormed

LEMMA TypeUploadFails ==
  ASSUME TypeInv, NEW w \in Watchers, UploadFails(w)
  PROVE  TypeInv'
  <1>1. /\ watcher[w].pc \notin OffWork \cup {"reporting"} /\ UNCHANGED <<job, blob, call>>
        /\ faults' \in 0..MaxFaults /\ watcher' = [watcher EXCEPT ![w] = Raised(watcher[w], "Failed")]
    BY ElementTypes DEF UploadFails, Become, OffWork, TypeInv
  <1> QED
    BY <1>1, RaisedFormed

\* The child that was stopped left its output, or left nothing.
LEMMA StoppedForm ==
  ASSUME TypeInv, NEW w \in Watchers, UNCHANGED <<job, blob, call, faults>>, NEW p \in Processes,
         watcher[w].pc \in {"running", "stopping"}, p.job = watcher[w].job, p.mode = watcher[w].mode,
         p.todo = watcher[w].todo, p.out = watcher[w].out,
         \E next \in {Advanced(p), Raised(p, Missing(p))} : watcher' = [watcher EXCEPT ![w] = next]
  PROVE  TypeInv'
  <1>1. /\ p.todo # <<>> /\ p.out = "result" /\ watcher[w].pc \notin OffWork \cup {"reporting"}
        /\ p.mode \in Asking => \A i \in 1..Len(p.todo) : p.todo[i] \in AskingChildren
    BY Worker DEF WatcherFormed, OffWork
  <1> DEFINE n == Advanced(p)
             r == Raised(p, Missing(p))
  <1>2. /\ n \in Processes /\ n.job = p.job /\ n.mode = p.mode /\ n.pc \in {"closing", "running", "solved"}
        /\ n.pc = "running" => n.todo # <<>>
        /\ p.mode \in Asking => \A i \in 1..Len(n.todo) : n.todo[i] \in AskingChildren
        /\ n.pc # "closing" => n.out = "result"
    BY <1>1, AdvancedForm
  <1>3. r \in Processes /\ r.pc = "closing" /\ r.job = p.job /\ r.mode = p.mode /\ r.todo = p.todo
    <2>1. Missing(p) \in {"result", "Cancelled", "Failed"} /\ "closing" \in Steps
      BY DEF Missing, Steps
    <2> QED
      BY SMTT(40), <2>1, Stepped
  <1> HIDE DEF n, r
  <1>4. WatcherFormed(w, n, Main(w), Beats(w))
    BY <1>1, <1>2, GoesOn DEF OffWork
  <1>5. WatcherFormed(w, r, Main(w), Beats(w))
    BY <1>1, <1>3, GoesOn DEF OffWork
  <1>6. watcher' = [watcher EXCEPT ![w] = n] \/ watcher' = [watcher EXCEPT ![w] = r]
    BY DEF n, r
  <1> QED
    BY <1>2, <1>3, <1>4, <1>5, <1>6, AloneFormed DEF TypeInv, TypeOK

\* The process as it notices the request.
Noticed(p) == [p EXCEPT !.applied = TRUE]

LEMMA NoticedForm ==
  ASSUME NEW p \in Processes
  PROVE  /\ Noticed(p) \in Processes /\ Noticed(p).applied = TRUE /\ Noticed(p).pc = p.pc
         /\ Noticed(p).job = p.job /\ Noticed(p).mode = p.mode /\ Noticed(p).todo = p.todo
         /\ Noticed(p).out = p.out /\ Noticed(p).disowned = p.disowned
         /\ Noticed(p).artifact = p.artifact
         /\ Engine(Noticed(p)) = Engine(p) /\ Child(Noticed(p)) = Child(p)
  <1>1. /\ Noticed(p) \in Processes /\ Noticed(p).applied = TRUE /\ Noticed(p).pc = p.pc
        /\ Noticed(p).job = p.job /\ Noticed(p).mode = p.mode /\ Noticed(p).todo = p.todo
        /\ Noticed(p).out = p.out /\ Noticed(p).disowned = p.disowned
        /\ Noticed(p).artifact = p.artifact
    BY DEF Processes, Noticed
  <1> QED
    BY <1>1 DEF Engine, Child

LEMMA TypeApplyStop ==
  ASSUME TypeInv, NEW w \in Watchers, ApplyStop(w)
  PROVE  TypeInv'
  <1> DEFINE q == watcher[w]
             p == Noticed(q)
  <1>1. /\ q.pc = "running" /\ UNCHANGED <<job, blob, call, faults>>
        /\ IF Engine(p) THEN watcher' = [watcher EXCEPT ![w] = [p EXCEPT !.pc = "stopping"]]
           ELSE \E next \in {Advanced(p), Raised(p, Missing(p))} : watcher' = [watcher EXCEPT ![w] = next]
    BY DEF ApplyStop, Become, Noticed
  <1>2. /\ p \in Processes /\ p.applied = TRUE /\ p.pc = q.pc /\ p.job = q.job /\ p.mode = q.mode
        /\ p.todo = q.todo /\ p.out = q.out
    BY Worker, NoticedForm
  <1> HIDE DEF p
  <1>3. CASE ~Engine(p)
    BY <1>1, <1>2, <1>3, StoppedForm
  <1>4. CASE Engine(p)
    <2> DEFINE n == Step(p, "stopping", p.out)
    <2>1. /\ n \in Processes /\ n.pc = "stopping" /\ n.job = p.job /\ n.mode = p.mode /\ n.todo = p.todo
          /\ n.applied = p.applied /\ n.out = p.out /\ n = [p EXCEPT !.pc = "stopping"]
      <3>1. "stopping" \in Steps
        BY DEF Steps
      <3> QED
        BY <1>2, <3>1, SteppedOn
    <2> HIDE DEF n
    <2>2. /\ p.todo # <<>> /\ p.out = "result"
          /\ p.mode \in Asking => \A i \in 1..Len(p.todo) : p.todo[i] \in AskingChildren
      BY <1>1, <1>2, Worker DEF WatcherFormed
    <2>3. Engine(n)
      BY <1>4, <2>1 DEF Engine, Child
    <2>4. WatcherFormed(w, n, Main(w), Beats(w))
      BY <1>1, <1>2, <2>1, <2>2, <2>3, GoesOn DEF OffWork
    <2> QED
      BY <1>1, <1>4, <2>1, <2>4, AloneFormed DEF TypeInv, TypeOK
  <1> QED
    BY <1>3, <1>4

LEMMA TypeEngineStops ==
  ASSUME TypeInv, NEW w \in Watchers, EngineStops(w)
  PROVE  TypeInv'
  <1>1. /\ watcher[w].pc = "stopping" /\ UNCHANGED <<job, blob, call, faults>>
        /\ \E next \in {Advanced(watcher[w]), Raised(watcher[w], Missing(watcher[w]))} :
             watcher' = [watcher EXCEPT ![w] = next]
    BY DEF EngineStops, Become
  <1> QED
    BY <1>1, Worker, StoppedForm

\* A watcher that sends a report or its artifact.
LEMMA SendsForm ==
  ASSUME TypeInv, NEW w \in Watchers, watcher[w].pc \notin OffWork \cup {"reporting"}, NEW m \in Calls,
         m.at = "sent", m.kind \in {"report", "publish"}, m.job = watcher[w].job,
         m.kind = "report" => m.to # "beat", m.kind = "report" /\ m.to = "Running" => watcher[w].todo # <<>>,
         m.kind = "publish" => watcher[w].mode = "publish",
         m.kind = "publish" \/ m.to \notin Terminal => watcher[w].out = "result",
         UNCHANGED job, blob' \in SUBSET Jobs, faults' \in 0..MaxFaults,
         call' = [call EXCEPT ![<<w, "main">>] = m],
         watcher' = [watcher EXCEPT ![w] = [watcher[w] EXCEPT !.pc = "reporting"]]
  PROVE  TypeInv'
  <1> DEFINE q == watcher[w]
             p == Step(q, "reporting", q.out)
  <1>1. /\ p \in Processes /\ p.pc = "reporting" /\ p.job = q.job /\ p.mode = q.mode /\ p.todo = q.todo
        /\ p.out = q.out /\ watcher' = [watcher EXCEPT ![w] = p]
    <2>1. "reporting" \in Steps /\ q \in Processes
      BY Worker DEF Steps
    <2> QED
      BY <2>1, SteppedOn
  <1> HIDE DEF p
  <1>2. WatcherFormed(w, q, Main(w), Beats(w)) /\ q.job \in Jobs /\ job[q.job].status # "absent"
    BY Worker DEF WatcherFormed
  <1>3. CallFormed(<<w, "main">>, m)
    BY <1>2, SlotTypes DEF CallFormed
  <1>4. WatcherFormed(w, p, m, Beats(w))
    BY <1>1, <1>2 DEF WatcherFormed, OffWork
  <1> QED
    BY <1>1, <1>3, <1>4, WorkFormed

LEMMA TypeUpload ==
  ASSUME TypeInv, NEW w \in Watchers, Upload(w)
  PROVE  TypeInv'
  <1> DEFINE q == watcher[w]
  <1>1. /\ q.pc = "uploading" /\ UNCHANGED <<job, faults>> /\ q \in Processes
        /\ WatcherFormed(w, q, Main(w), Beats(w))
    BY Worker DEF Upload
  <1>2. q.job \in Jobs /\ q.out = "result" /\ q.pc \notin OffWork \cup {"reporting"}
        /\ (q.mode \in Asking => \A i \in 1..Len(q.todo) : q.todo[i] \in AskingChildren)
    BY <1>1 DEF WatcherFormed, OffWork
  <1>3. ASSUME blob' = blob \cup {q.job}, watcher' = [watcher EXCEPT ![w] = [q EXCEPT !.pc = "closing"]],
               UNCHANGED call
        PROVE  TypeInv'
    <2> DEFINE p == Step(q, "closing", q.out)
    <2>1. /\ p \in Processes /\ p.pc = "closing" /\ p.job = q.job /\ p.mode = q.mode /\ p.todo = q.todo
          /\ p.out = q.out /\ watcher' = [watcher EXCEPT ![w] = p]
      <3>1. "closing" \in Steps
        BY DEF Steps
      <3> QED
        BY <1>1, <1>3, <3>1, SteppedOn
    <2> HIDE DEF p
    <2>2. WatcherFormed(w, p, Main(w), Beats(w))
      BY <1>2, <2>1, GoesOn DEF OffWork
    <2> QED
      BY ZenonT(60), <1>1, <1>2, <1>3, <2>1, <2>2, AloneFormed DEF TypeInv, TypeOK
  <1>4. ASSUME q.mode = "publish", Send(w, [Free EXCEPT !.kind = "publish", !.job = q.job]),
               watcher' = [watcher EXCEPT ![w] = [q EXCEPT !.pc = "reporting"]], UNCHANGED blob
        PROVE  TypeInv'
    <2> DEFINE m == [Free EXCEPT !.kind = "publish", !.job = q.job, !.at = "sent"]
    <2>1. m \in Calls /\ m.at = "sent" /\ m.kind = "publish" /\ m.job = q.job
      BY <1>2, ConstantTypes DEF Calls
    <2>2. call' = [call EXCEPT ![<<w, "main">>] = m]
      BY <1>4 DEF Send
    <2> HIDE DEF m
    <2> QED
      BY <1>1, <1>2, <1>4, <2>1, <2>2, SendsForm DEF TypeInv, TypeOK
  <1> QED
    BY <1>3, <1>4 DEF Upload, Become

LEMMA TypeClose ==
  ASSUME TypeInv, NEW w \in Watchers, Close(w)
  PROVE  TypeInv'
  <1> DEFINE q == watcher[w]
  <1>1. /\ q.pc = "closing" /\ UNCHANGED <<job, blob, faults>> /\ q \in Processes
        /\ watcher' = [watcher EXCEPT ![w] = [q EXCEPT !.pc = "reporting"]]
    BY Worker DEF Close, Become
  <1>2. PICK to \in {"Done", "Cancelled", "Failed"}, res \in BOOLEAN :
          call' = [call EXCEPT ![<<w, "main">>] = Sent(w, to, res)]
    <2>1. CASE q.out = "result"
      <3> DEFINE to == TerminalStatus(q)
                 res == q.mode # "publish"
      <3>1. call' = [call EXCEPT ![<<w, "main">>] = [[Report(w, to) EXCEPT !.result = res] EXCEPT !.at = "sent"]]
        BY <1>1, <2>1 DEF Close, Send
      <3>2. to \in {"Done", "Cancelled", "Failed"} /\ res \in BOOLEAN
        BY DEF TerminalStatus
      <3>3. [[Report(w, to) EXCEPT !.result = res] EXCEPT !.at = "sent"] = Sent(w, to, res)
        BY DEF Report, Free, Sent
      <3> QED
        BY <3>1, <3>2, <3>3
    <2>2. CASE q.out # "result"
      <3>1. call' = [call EXCEPT ![<<w, "main">>] = [Report(w, q.out) EXCEPT !.at = "sent"]]
        BY <1>1, <2>2 DEF Close, Send
      <3>2. q.out \in {"Done", "Cancelled", "Failed"} /\ q.out \in Active \cup Terminal \cup {"beat"}
        BY <1>1, <2>2 DEF Processes, Terminal
      <3>3. [Report(w, q.out) EXCEPT !.at = "sent"] = Sent(w, q.out, FALSE)
        BY <1>1, <3>2, ReportCall
      <3> QED
        BY <3>1, <3>2, <3>3
    <2> QED
      BY <2>1, <2>2
  <1> DEFINE m == Sent(w, to, res)
  <1>3. /\ m \in Calls /\ m.at = "sent" /\ m.kind = "report" /\ m.job = q.job /\ m.to = to
    <2>1. to \in Active \cup Terminal \cup {"beat"}
      BY DEF Terminal
    <2>2. /\ Sent(w, to, TRUE) \in Calls /\ Sent(w, to, TRUE).at = "sent"
          /\ Sent(w, to, TRUE).kind = "report" /\ Sent(w, to, TRUE).job = watcher[w].job
          /\ Sent(w, to, TRUE).to = to
      BY <2>1, Worker, ReportCall
    <2>3. /\ Sent(w, to, FALSE) \in Calls /\ Sent(w, to, FALSE).at = "sent"
          /\ Sent(w, to, FALSE).kind = "report" /\ Sent(w, to, FALSE).job = watcher[w].job
          /\ Sent(w, to, FALSE).to = to
      BY <2>1, Worker, ReportCall
    <2>4. res = TRUE \/ res = FALSE
      OBVIOUS
    <2> QED
      BY <2>2, <2>3, <2>4
  <1> HIDE DEF m
  <1>4. to \in Terminal /\ to # "beat" /\ to # "Running" /\ q.pc \notin OffWork \cup {"reporting"}
    BY <1>1 DEF Terminal, OffWork
  <1>5. call' = [call EXCEPT ![<<w, "main">>] = m]
    BY <1>2 DEF m
  <1> QED
    BY <1>1, <1>3, <1>4, <1>5, SendsForm DEF TypeInv, TypeOK

\* The slots of a watcher after a step that sets the three of them.
LEMMA ThreeSlots ==
  ASSUME TypeInv, NEW w \in Watchers, NEW m \in Calls, NEW b \in Calls, NEW l \in Calls,
         call' = [call EXCEPT ![<<w, "main">>] = m, ![<<w, "beat">>] = b, ![<<w, "late">>] = l]
  PROVE  /\ call' \in [Slots -> Calls] /\ call'[<<w, "main">>] = m /\ call'[<<w, "beat">>] = b
         /\ call'[<<w, "late">>] = l
         /\ \A s \in Slots \ {<<w, "main">>, <<w, "beat">>, <<w, "late">>} : call'[s] = call[s]
  <1> DEFINE x == <<w, "main">>
             y == <<w, "beat">>
             z == <<w, "late">>
  <1>1. x \in Slots /\ y \in Slots /\ z \in Slots /\ x # y /\ x # z /\ y # z
    BY SlotTypes
  <1> HIDE DEF x, y, z
  <1>2. call' = [call EXCEPT ![x] = m, ![y] = b, ![z] = l] /\ call \in [Slots -> Calls]
    BY DEF x, y, z, TypeInv, TypeOK
  <1>3. /\ call' \in [Slots -> Calls] /\ call'[x] = m /\ call'[y] = b /\ call'[z] = l
        /\ \A s \in Slots \ {x, y, z} : call'[s] = call[s]
    BY <1>1, <1>2
  <1> QED
    BY <1>3 DEF x, y, z

\* A request that is over, as its watcher sees it.
Ended(c) == [c EXCEPT !.at = "free"]

LEMMA EndedForm ==
  ASSUME NEW c \in Calls
  PROVE  Ended(c) \in Calls /\ Ended(c).at = "free" /\ Ended(c).kind = c.kind /\ Ended(c).job = c.job
         /\ Ended(c).to = c.to /\ Ended(c).conflict = c.conflict
  BY DEF Ended, Calls

LEMMA TypeLose ==
  ASSUME TypeInv, NEW w \in Watchers, Lose(w)
  PROVE  TypeInv'
  <1> DEFINE e == Ended(Main(w))
             a == After(w, e)
  <1>1. /\ Main(w).at # "free" /\ UNCHANGED <<job, blob>> /\ watcher' = [watcher EXCEPT ![w] = a]
        /\ a = Idle => Beats(w) = Free
        /\ call' = [call EXCEPT ![<<w, "main">>] = Free] /\ faults' \in 0..MaxFaults
    BY ElementTypes DEF Lose, Leaves, Become, Main, Beats, Ended, TypeInv
  <1>2. e \in Calls /\ e.at = "free" /\ e.kind = Main(w).kind /\ e.job = Main(w).job /\ e.to = Main(w).to
    BY Worker, EndedForm
  <1> HIDE DEF e
  <1>3. a \in Processes /\ WatcherFormed(w, a, Free, Beats(w))
    BY <1>1, <1>2, AfterForm
  <1> HIDE DEF a
  <1> QED
    BY <1>1, <1>3, Worker, ConstantTypes, WorkFormed DEF TypeInv, TypeOK

LEMMA TypeLoseBeat ==
  ASSUME TypeInv, NEW w \in Watchers, LoseBeat(w)
  PROVE  TypeInv'
  <1> DEFINE L == <<w, "late">>
             B == <<w, "beat">>
  <1>1. L \in Slots /\ B \in Slots /\ L # B
    BY SlotTypes
  <1>2. UNCHANGED <<job, blob, watcher>> /\ faults' \in 0..MaxFaults /\ call \in [Slots -> Calls]
    BY ElementTypes DEF LoseBeat, TypeInv, TypeOK
  <1>3. PICK l \in {Beats(w), call[L]} : call' = [call EXCEPT ![B] = Free, ![L] = l]
    <2>1. PICK kept \in {Free, Beats(w)} :
            call' = [call EXCEPT ![B] = Free, ![L] = IF kept = Free THEN @ ELSE kept]
      BY DEF LoseBeat, Beats
    <2> HIDE DEF L, B
    <2>2. CASE kept = Free
      BY <1>1, <1>2, <2>1, <2>2
    <2>3. CASE kept # Free
      BY <1>1, <1>2, <2>1, <2>3
    <2> QED
      BY <2>2, <2>3
  <1>4. l \in Calls /\ Free \in Calls /\ Main(w) \in Calls
    BY <1>1, <1>2, Worker, ConstantTypes
  <1>5. call' = [call EXCEPT ![<<w, "main">>] = Main(w), ![<<w, "beat">>] = Free, ![<<w, "late">>] = l]
    <2> DEFINE M == <<w, "main">>
    <2>1. M \in Slots /\ L # M /\ B # M /\ Main(w) = call[M]
      BY SlotTypes DEF Main
    <2> HIDE DEF M, L, B
    <2>2. call' = [call EXCEPT ![M] = Main(w), ![B] = Free, ![L] = l]
      BY <1>1, <1>2, <1>3, <1>4, <2>1
    <2> QED
      BY <2>2 DEF M, L, B
  <1>6. /\ call' \in [Slots -> Calls] /\ call'[<<w, "main">>] = Main(w) /\ call'[<<w, "beat">>] = Free
        /\ call'[<<w, "late">>] = l
        /\ \A s \in Slots \ {<<w, "main">>, <<w, "beat">>, <<w, "late">>} : call'[s] = call[s]
    BY <1>4, <1>5, ThreeSlots
  <1>7. WatcherFormed(w, watcher[w], Main(w), Free)
    BY Worker, ConstantTypes DEF WatcherFormed
  <1>8. /\ watcher' = [watcher EXCEPT ![w] = watcher[w]] /\ watcher[w] \in Processes
        /\ blob' \in SUBSET Jobs /\ CallFormed(<<w, "beat">>, Free)
    BY <1>2, Worker DEF TypeInv, TypeOK
  <1>9. l \in {Free, Main(w), Beats(w), call[<<w, "late">>]}
    BY <1>3
  <1> QED
    BY <1>2, <1>4, <1>6, <1>7, <1>8, <1>9, WorkForm

LEMMA TypeGiveUp ==
  ASSUME TypeInv, NEW w \in Watchers, GiveUp(w)
  PROVE  TypeInv'
  <1> DEFINE e == Ended(Main(w))
             a == After(w, e)
  <1>1. /\ Main(w).at # "free" /\ UNCHANGED <<job, blob>> /\ watcher' = [watcher EXCEPT ![w] = a]
        /\ a = Idle => Beats(w) = Free
        /\ call' = [call EXCEPT ![<<w, "main">>] = Free, ![<<w, "late">>] = Main(w)]
        /\ faults' \in 0..MaxFaults
    BY ElementTypes DEF GiveUp, Leaves, Become, Main, Beats, Ended, TypeInv
  <1>2. e \in Calls /\ e.at = "free" /\ e.kind = Main(w).kind /\ e.job = Main(w).job /\ e.to = Main(w).to
    BY Worker, EndedForm
  <1> HIDE DEF e
  <1>3. a \in Processes /\ WatcherFormed(w, a, Free, Beats(w))
    BY <1>1, <1>2, AfterForm
  <1> HIDE DEF a
  <1>4. Free \in Calls /\ Main(w) \in Calls /\ Beats(w) \in Calls /\ CallFormed(<<w, "main">>, Free)
    BY Worker, ConstantTypes
  <1>5. call' = [call EXCEPT ![<<w, "main">>] = Free, ![<<w, "beat">>] = Beats(w), ![<<w, "late">>] = Main(w)]
    <2> DEFINE M == <<w, "main">>
               L == <<w, "late">>
               B == <<w, "beat">>
    <2>1. M \in Slots /\ L \in Slots /\ B \in Slots /\ L # M /\ B # M /\ L # B /\ Beats(w) = call[B]
      BY SlotTypes DEF Beats
    <2>2. call' = [call EXCEPT ![M] = Free, ![L] = Main(w)] /\ call \in [Slots -> Calls]
      BY <1>1 DEF TypeInv, TypeOK
    <2> HIDE DEF M, L, B
    <2>3. call' = [call EXCEPT ![M] = Free, ![B] = Beats(w), ![L] = Main(w)]
      BY <1>4, <2>1, <2>2
    <2> QED
      BY <2>3 DEF M, L, B
  <1>6. /\ call' \in [Slots -> Calls] /\ call'[<<w, "main">>] = Free /\ call'[<<w, "beat">>] = Beats(w)
        /\ call'[<<w, "late">>] = Main(w)
        /\ \A s \in Slots \ {<<w, "main">>, <<w, "beat">>, <<w, "late">>} : call'[s] = call[s]
    BY <1>4, <1>5, ThreeSlots
  <1> QED
    BY <1>1, <1>3, <1>4, <1>6, WorkForm DEF TypeInv, TypeOK

LEMMA TypeCrash ==
  ASSUME TypeInv, NEW w \in Watchers, Crash(w)
  PROVE  TypeInv'
  <1> DEFINE M == <<w, "main">>
             L == <<w, "late">>
             B == <<w, "beat">>
             d == [Idle EXCEPT !.pc = "down"]
  <1>1. M \in Slots /\ L \in Slots /\ B \in Slots /\ L # B /\ M # L /\ M # B
    BY SlotTypes
  <1>2. /\ UNCHANGED <<job, blob>> /\ faults' \in 0..MaxFaults /\ call \in [Slots -> Calls]
        /\ watcher' = [watcher EXCEPT ![w] = d]
    BY ElementTypes DEF Crash, Become, TypeInv, TypeOK
  <1>3. PICK l \in {Main(w), call[L]} : call' = [call EXCEPT ![M] = Free, ![B] = Free, ![L] = l]
    <2>1. PICK kept \in {Free, Main(w)} :
            call' = [call EXCEPT ![M] = Free, ![B] = Free, ![L] = IF kept = Free THEN @ ELSE kept]
      BY DEF Crash, Main
    <2> HIDE DEF L, B, M
    <2>2. CASE kept = Free
      BY <1>1, <1>2, <2>1, <2>2
    <2>3. CASE kept # Free
      BY <1>1, <1>2, <2>1, <2>3
    <2> QED
      BY <2>2, <2>3
  <1>4. l \in Calls /\ Free \in Calls
    BY <1>1, <1>2, <1>3, Worker, ConstantTypes
  <1>6. /\ call' \in [Slots -> Calls] /\ call'[<<w, "main">>] = Free /\ call'[<<w, "beat">>] = Free
        /\ call'[<<w, "late">>] = l
        /\ \A s \in Slots \ {<<w, "main">>, <<w, "beat">>, <<w, "late">>} : call'[s] = call[s]
    BY <1>3, <1>4, ThreeSlots
  <1>7. d \in Processes /\ d.pc = "down" /\ d.todo = <<>> /\ Len(<<>>) = 0
    BY ConstantTypes DEF Processes, Idle, Steps
  <1> HIDE DEF d
  <1>8. WatcherFormed(w, d, Free, Free)
    BY <1>7, ConstantTypes DEF WatcherFormed, OffWork
  <1>9. l \in {Free, Main(w), Beats(w), call[<<w, "late">>]} /\ blob' \in SUBSET Jobs
        /\ CallFormed(<<w, "beat">>, Free) /\ CallFormed(<<w, "main">>, Free)
    BY <1>2, <1>3, Worker DEF TypeInv, TypeOK
  <1> QED
    BY <1>2, <1>4, <1>6, <1>7, <1>8, <1>9, WorkForm

LEMMA TypeRestart ==
  ASSUME TypeInv, NEW w \in Watchers, Restart(w)
  PROVE  TypeInv'
  <1>1. watcher[w].pc = "down" /\ UNCHANGED <<job, blob, call, faults>> /\ watcher' = [watcher EXCEPT ![w] = Idle]
    BY DEF Restart, Become
  <1>2. Idle \in Processes /\ Idle.pc = "idle" /\ Idle.todo = <<>> /\ Len(<<>>) = 0
    BY ConstantTypes DEF Idle
  <1>3. Main(w).at = "free" /\ Beats(w).at = "free"
    BY <1>1, Worker DEF OffWork
  <1>4. WatcherFormed(w, Idle, Main(w), Beats(w))
    BY <1>2, <1>3 DEF WatcherFormed, OffWork
  <1> QED
    BY <1>1, <1>2, <1>4, AloneFormed DEF TypeInv, TypeOK

LEMMA TypeInitially ==
  ASSUME Init
  PROVE  TypeInv
  <1>1. TypeOK
    BY ConstantTypes, BoundsAssumption DEF Init, TypeOK
  <1>2. \A s \in Slots : CallFormed(s, call[s])
    BY ConstantTypes DEF Init, CallFormed
  <1>3. \A w \in Watchers : watcher[w] = Idle /\ Main(w) = Free /\ Beats(w) = Free
    BY SlotTypes DEF Init, Main, Beats
  <1>4. Idle.pc = "idle" /\ Idle.todo = <<>> /\ Len(<<>>) = 0 /\ Free.at = "free"
    BY ConstantTypes DEF Idle
  <1>5. ASSUME NEW w \in Watchers PROVE WatcherFormed(w, Idle, Free, Free)
    BY <1>4 DEF WatcherFormed, OffWork
  <1> QED
    BY <1>1, <1>2, <1>3, <1>5 DEF TypeInv, Formed

LEMMA TypeInductive ==
  ASSUME TypeInv, [Next]_vars
  PROVE  TypeInv'
  <1>1. ASSUME NEW w \in Watchers, Work(w) PROVE TypeInv'
    BY <1>1, TypePoll, TypeReportStage, TypeReceive, TypeApplyStop, TypeEngineStops, TypeUpload,
       TypeClose, TypeRestart DEF Work
  <1>2. ASSUME NEW w \in Watchers, Fault(w) PROVE TypeInv'
    BY <1>2, TypeLose, TypeLoseBeat, TypeGiveUp, TypeCrash, TypeChildFails, TypeUploadFails DEF Fault
  <1>3. CASE UNCHANGED vars
    BY <1>3 DEF vars, TypeInv, TypeOK, Formed, CallFormed, WatcherFormed, Main, Beats, Engine, Child
  <1>4. CASE Next
    BY <1>1, <1>2, <1>4, TypeServe, TypeChildSucceeds, TypeBeat, TypeHear, TypeAgeOut, TypeCreate,
       TypeAbort, TypeAsk DEF Next
  <1> QED
    BY <1>3, <1>4

\* Every variable keeps its type, however the handlers overlap and whatever
\* fails: in particular a claimed job, and a report, are of a row that exists.
THEOREM CompareTypeCorrect == Spec => []TypeOK
  <1>1. TypeInv => TypeOK
    BY DEF TypeInv
  <1> QED
    BY <1>1, TypeInitially, TypeInductive, PTL DEF Spec

-----------------------------------------------------------------------------
(* One handler at a time: what a handler has read is still so when it saves.   *)

Mid(c) == c.at \in {"sweep", "blobs", "save"}
Alone == \A s, t \in Slots : Mid(call[s]) /\ Mid(call[t]) => s = t

\* What the request c of slot s has read, in the table `rows'.
CurrentIn(rows, s, c) == LET row == rows[c.job] IN
  /\ c.at = "sweep" => \A j \in Jobs : c.swept[j] # "kept" => Stale(rows[j]) /\ c.swept[j] = Verdict(rows[j])
  /\ c.at = "save" /\ c.kind = "report" =>
       /\ Claimant(row, s[1]) /\ row.status # "gone"
       /\ c.to = "beat" \/ IsValidTransition(row.status, c.to)
  /\ c.at = "save" /\ c.kind = "publish" => row.status # "gone" /\ Claimant(row, s[1])
  /\ c.at = "save" /\ c.kind = "cancel" => /\ row.status \in Active \cup {"Queued"}
                                           /\ c.to = IF row.status = "Queued" THEN "Cancelled" ELSE "beat"
  /\ c.at \in {"blobs", "save"} /\ c.kind = "delete" => /\ row.status \in Terminal
                                                        /\ c.result = (row.result /\ row.mode # "publish")
CurrentAt(s, c) == CurrentIn(job, s, c)
Current == \A s \in Slots : CurrentAt(s, call[s])

\* A sweep that reads alone cancels what is stopped, and so no stopped job waits.
StoppedNeverQueued == \A j \in Jobs : job[j].stop => job[j].status # "Queued"

SerialInv == TypeInv /\ Alone /\ Current /\ StoppedNeverQueued

\* What a handler may have read of the rows is still so.
RowsKept == \A j \in Jobs : job[j].status # "absent" =>
  /\ job'[j].status = job[j].status /\ job'[j].owner = job[j].owner /\ job'[j].attempts = job[j].attempts
  /\ job'[j].stop = job[j].stop /\ job'[j].result = job[j].result /\ job'[j].mode = job[j].mode
  /\ Stale(job[j]) => ~job'[j].fresh

LEMMA CallKept ==
  ASSUME TypeInv, RowsKept, NEW s \in Slots, NEW c \in Calls, CallFormed(s, c), CurrentAt(s, c)
  PROVE  CurrentIn(job', s, c)
  <1>1. ASSUME c.at = "sweep", NEW j \in Jobs, c.swept[j] # "kept"
        PROVE  Stale(job'[j]) /\ c.swept[j] = Verdict(job'[j])
    <2>1. Stale(job[j]) /\ c.swept[j] = Verdict(job[j]) /\ job[j].status # "absent"
      BY <1>1 DEF CurrentAt, CurrentIn, Stale, Active
    <2> QED
      BY <2>1 DEF RowsKept, Stale, Verdict
  <1>2. ASSUME c.at \in {"save", "blobs"}
        PROVE  LET row == job[c.job]  new == job'[c.job] IN
               /\ new.status = row.status /\ new.owner = row.owner /\ new.result = row.result
               /\ new.mode = row.mode
    <2>1. c.job \in Jobs /\ job[c.job].status # "absent"
      BY <1>2 DEF CallFormed
    <2> QED
      BY <2>1 DEF RowsKept
  <1>3. CASE c.at = "sweep"
    BY <1>1, <1>3 DEF CurrentAt, CurrentIn
  <1>4. CASE c.at \in {"save", "blobs"}
    BY <1>2, <1>4 DEF CurrentAt, CurrentIn, Claimant, IsValidTransition
  <1>5. CASE ~Mid(c)
    BY <1>5 DEF CurrentIn, Mid
  <1> QED
    BY <1>3, <1>4, <1>5 DEF Mid

\* Steps beside the handler that is between its read and its save: no request
\* comes to be there that was not.
LEMMA Beside ==
  ASSUME SerialInv, RowsKept, \A t \in Slots : call'[t] = call[t] \/ ~Mid(call'[t])
  PROVE  Alone' /\ Current'
  <1>1. Alone'
    BY DEF Alone, Mid, SerialInv
  <1>2. ASSUME NEW t \in Slots PROVE CurrentIn(job', t, call'[t])
    <2>1. CASE ~Mid(call'[t])
      BY <2>1 DEF CurrentIn, Mid
    <2>2. CASE call'[t] = call[t]
      <3>1. call[t] \in Calls /\ CallFormed(t, call[t]) /\ CurrentAt(t, call[t]) /\ TypeInv
        BY DEF SerialInv, TypeInv, TypeOK, Formed, Current
      <3> QED
        BY <2>2, <3>1, CallKept
    <2> QED
      BY <2>1, <2>2
  <1> QED
    BY <1>1, <1>2 DEF Current, CurrentAt

\* The step of the handler itself, or of one when there is none.
LEMMA Itself ==
  ASSUME SerialInv, NEW s \in Slots, NEW c, call' = [call EXCEPT ![s] = c],
         \A t \in Slots \ {s} : ~Mid(call[t]), ~Mid(c) \/ CurrentIn(job', s, c)
  PROVE  Alone' /\ Current'
  <1>1. call'[s] = c /\ \A t \in Slots \ {s} : call'[t] = call[t]
    BY DEF SerialInv, TypeInv, TypeOK
  <1>2. \A t \in Slots \ {s} : ~Mid(call'[t])
    BY <1>1
  <1>3. Alone'
    BY <1>2 DEF Alone
  <1>4. ASSUME NEW t \in Slots PROVE CurrentIn(job', t, call'[t])
    <2>1. CASE ~Mid(call'[t])
      BY <2>1 DEF CurrentIn, Mid
    <2>2. CASE t = s /\ CurrentIn(job', s, c)
      BY <1>1, <2>2
    <2> QED
      BY <1>1, <1>2, <2>1, <2>2
  <1> QED
    BY <1>3, <1>4 DEF Current, CurrentAt

LEMMA Answering ==
  ASSUME SerialInv, NEW s \in Slots, NEW c \in Calls, call' = Answered(s, c),
         \A t \in Slots \ {s} : ~Mid(call[t])
  PROVE  Alone' /\ Current'
  <1> DEFINE d == IF s[2] # "late" THEN [c EXCEPT !.at = "reply"] ELSE Free
  <1>1. call' = [call EXCEPT ![s] = d]
    BY DEF Answered
  <1>2. ~Mid(d)
    BY ConstantTypes DEF Mid, Calls
  <1> HIDE DEF d
  <1> QED
    BY <1>1, <1>2, Itself

\* Who else is between its read and its save.
LEMMA NobodyElse ==
  ASSUME SerialInv, ~Overlap, NEW s \in Slots
  PROVE  /\ Mid(call[s]) => \A t \in Slots \ {s} : ~Mid(call[t])
         /\ MidHandler = {} => \A t \in Slots : ~Mid(call[t])
         /\ \A kind : Arrived(s, kind) => \A t \in Slots : ~Mid(call[t])
  BY DEF SerialInv, Alone, Arrived, MidHandler, Mid

\* The rows as they were.
LEMMA SameRows ==
  ASSUME TypeInv, UNCHANGED job
  PROVE  RowsKept /\ (StoppedNeverQueued => StoppedNeverQueued')
  BY DEF RowsKept, StoppedNeverQueued, Stale

LEMMA OneRow ==
  ASSUME StoppedNeverQueued, NEW j \in Jobs, \A i \in Jobs \ {j} : job'[i] = job[i],
         job'[j].stop => job'[j].status # "Queued"
  PROVE  StoppedNeverQueued'
  BY DEF StoppedNeverQueued

-----------------------------------------------------------------------------
(* The handlers, one at a time.                                                *)

LEMMA SerialSweepRead ==
  ASSUME ~Overlap, SerialInv, NEW s \in Slots, SweepRead(s)
  PROVE  Alone' /\ Current' /\ StoppedNeverQueued'
  <1> DEFINE swept == [j \in Jobs |-> IF Stale(job[j]) THEN Verdict(job[j]) ELSE "kept"]
             c == [call[s] EXCEPT !.at = IF swept = Unswept THEN "pop" ELSE "sweep", !.swept = swept]
  <1>1. /\ call[s] \in Calls /\ call[s].kind = "claim" /\ UNCHANGED job /\ call' = [call EXCEPT ![s] = c]
        /\ Arrived(s, "claim")
    BY DEF SweepRead, Arrived, SerialInv, TypeInv, TypeOK
  <1>2. \A t \in Slots : ~Mid(call[t])
    BY <1>1, NobodyElse
  <1>3. \A j \in Jobs : swept[j] # "kept" => Stale(job[j]) /\ swept[j] = Verdict(job[j])
    OBVIOUS
  <1> HIDE DEF swept
  <1>4. c.kind = "claim" /\ c.at \in {"pop", "sweep"} /\ c.swept = swept
    BY <1>1 DEF Calls
  <1> HIDE DEF c
  <1>5. CurrentIn(job', s, c)
    BY <1>1, <1>3, <1>4 DEF CurrentIn
  <1> QED
    BY <1>1, <1>2, <1>5, Itself, SameRows DEF SerialInv

LEMMA SerialSweepSave ==
  ASSUME ~Overlap, SerialInv, NEW s \in Slots, SweepSave(s)
  PROVE  Alone' /\ Current' /\ StoppedNeverQueued'
  <1>1. call[s] \in Calls /\ call[s].at = "sweep" /\ CurrentAt(s, call[s]) /\ Mid(call[s])
    BY DEF SweepSave, SerialInv, TypeInv, TypeOK, Current, Mid
  <1>2. \A t \in Slots \ {s} : ~Mid(call[t])
    BY <1>1, NobodyElse
  <1>3. CASE call' = Answered(s, Free) /\ UNCHANGED job
    BY <1>2, <1>3, ConstantTypes, Answering, SameRows DEF SerialInv
  <1>4. CASE /\ job' = [j \in Jobs |-> IF call[s].swept[j] = "kept" THEN job[j]
                                       ELSE [job[j] EXCEPT !.owner = Nobody, !.status = call[s].swept[j]]]
             /\ call' = [call EXCEPT ![s].at = "pop", ![s].swept = Unswept]
    <2> DEFINE c == [call[s] EXCEPT !.at = "pop", !.swept = Unswept]
    <2>1. call' = [call EXCEPT ![s] = c] /\ ~Mid(c)
      BY <1>1, <1>4 DEF SerialInv, TypeInv, TypeOK, Calls, Mid
    <2> HIDE DEF c
    <2>2. call[s].swept \in [Jobs -> {"kept", "Queued", "Failed", "Cancelled"}]
      BY <1>1 DEF Calls
    <2>3. ASSUME NEW j \in Jobs, job'[j].stop PROVE job'[j].status # "Queued"
      <3>1. IF call[s].swept[j] = "kept" THEN job'[j] = job[j]
            ELSE job'[j].status = call[s].swept[j] /\ job'[j].stop = job[j].stop
        BY <1>4, <2>2, SweptRows DEF SerialInv
      <3>2. call[s].swept[j] # "kept" => call[s].swept[j] = Verdict(job[j])
        BY <1>1 DEF CurrentAt, CurrentIn
      <3> QED
        BY <2>3, <3>1, <3>2 DEF Verdict, SerialInv, StoppedNeverQueued
    <2> QED
      BY <1>2, <2>1, <2>3, Itself DEF StoppedNeverQueued
  <1> QED
    BY <1>3, <1>4 DEF SweepSave

LEMMA SerialClaimNext ==
  ASSUME ~Overlap, SerialInv, NEW s \in Slots, ClaimNext(s)
  PROVE  Alone' /\ Current' /\ StoppedNeverQueued'
  <1>1. \A t \in Slots : ~Mid(call[t])
    BY NobodyElse DEF ClaimNext
  <1>2. call[s] \in Calls /\ s[1] \in Watchers
    BY DEF ClaimNext, SerialInv, TypeInv, TypeOK, Formed, CallFormed
  <1>3. CASE call' = Answered(s, call[s]) /\ UNCHANGED job
    BY <1>1, <1>2, <1>3, Answering, SameRows DEF SerialInv
  <1>4. ASSUME NEW j \in QueuedRows,
               job' = [job EXCEPT ![j].status = "Claimed", ![j].owner = s[1], ![j].fresh = TRUE,
                                  ![j].attempts = @ + 1],
               call' = Answered(s, [call[s] EXCEPT !.job = j])
        PROVE  Alone' /\ Current' /\ StoppedNeverQueued'
    <2>1. j \in Jobs
      BY DEF QueuedRows
    <2> DEFINE c == [call[s] EXCEPT !.job = j]
    <2>2. c \in Calls /\ call' = Answered(s, c)
      BY <1>2, <1>4, <2>1 DEF Calls
    <2> HIDE DEF c
    <2>3. job'[j].status = "Claimed" /\ \A i \in Jobs \ {j} : job'[i] = job[i]
      BY <1>2, <1>4, <2>1, ClaimedRow DEF SerialInv
    <2> QED
      BY <1>1, <2>1, <2>2, <2>3, Answering, OneRow DEF SerialInv
  <1> QED
    BY <1>3, <1>4 DEF ClaimNext

LEMMA SerialReportRead ==
  ASSUME ~Overlap, SerialInv, NEW s \in Slots, ReportRead(s)
  PROVE  Alone' /\ Current' /\ StoppedNeverQueued'
  <1>1. call[s] \in Calls /\ call[s].kind = "report" /\ UNCHANGED job /\ Arrived(s, "report")
    BY DEF ReportRead, Arrived, SerialInv, TypeInv, TypeOK
  <1>2. \A t \in Slots : ~Mid(call[t])
    BY <1>1, NobodyElse
  <1> DEFINE row == job[call[s].job]
  <1>3. StoppedNeverQueued'
    BY <1>1, SameRows DEF SerialInv
  <1>4. CASE call' = Answered(s, call[s])
    BY <1>1, <1>2, <1>3, <1>4, Answering
  <1>5. CASE call' = Answered(s, [call[s] EXCEPT !.conflict = TRUE])
    <2> DEFINE c == [call[s] EXCEPT !.conflict = TRUE]
    <2>1. c \in Calls /\ call' = Answered(s, c)
      BY <1>1, <1>5 DEF Calls
    <2> HIDE DEF c
    <2> QED
      BY <1>2, <1>3, <2>1, Answering
  <1>6. CASE /\ row.status # "gone" /\ Claimant(row, s[1])
             /\ call[s].to = "beat" \/ IsValidTransition(row.status, call[s].to)
             /\ call' = [call EXCEPT ![s].at = "save", ![s].stop = row.stop]
    <2> DEFINE c == [call[s] EXCEPT !.at = "save", !.stop = row.stop]
    <2>1. call' = [call EXCEPT ![s] = c]
      BY <1>6 DEF SerialInv, TypeInv, TypeOK
    <2>2. c.kind = "report" /\ c.at = "save" /\ c.job = call[s].job /\ c.to = call[s].to
      BY <1>1 DEF Calls
    <2> HIDE DEF c
    <2>3. CurrentIn(job', s, c)
      BY <1>1, <1>6, <2>2 DEF CurrentAt, CurrentIn, Claimant, IsValidTransition
    <2> QED
      BY <1>2, <1>3, <2>1, <2>3, Itself
  <1> QED
    BY <1>4, <1>5, <1>6 DEF ReportRead

LEMMA SerialReportSave ==
  ASSUME ~Overlap, SerialInv, NEW s \in Slots, ReportSave(s)
  PROVE  Alone' /\ Current' /\ StoppedNeverQueued'
  <1>0. TypeInv /\ StoppedNeverQueued
    BY DEF SerialInv
  <1>1. call[s] \in Calls /\ Mid(call[s]) /\ call[s].job \in Jobs /\ CurrentAt(s, call[s])
    BY <1>0, ReportSaved DEF Mid, SerialInv, Current
  <1>2. \A t \in Slots \ {s} : ~Mid(call[t])
    BY <1>1, NobodyElse
  <1>3. CASE UNCHANGED job /\ call' = Answered(s, [call[s] EXCEPT !.stop = FALSE])
    <2> DEFINE c == [call[s] EXCEPT !.stop = FALSE]
    <2>1. c \in Calls /\ call' = Answered(s, c)
      BY <1>1, <1>3 DEF Calls
    <2> HIDE DEF c
    <2> QED
      BY <1>0, <1>2, <1>3, <2>1, Answering, SameRows
  <1>4. CASE LET c == call[s]  j == c.job IN
               /\ call' = Answered(s, c) /\ \A i \in Jobs \ {j} : job'[i] = job[i]
               /\ job'[j].status = (IF c.to = "beat" THEN job[j].status ELSE c.to)
               /\ job'[j].stop = job[j].stop
    <2>1. call[s].to # "Queued"
      BY <1>1 DEF Calls, Active, Terminal
    <2>2. job'[call[s].job].stop => job'[call[s].job].status # "Queued"
      BY <1>0, <1>1, <1>4, <2>1 DEF StoppedNeverQueued
    <2> QED
      BY <1>0, <1>1, <1>2, <1>4, <2>2, Answering, OneRow
  <1> QED
    BY <1>0, <1>3, <1>4, ReportSaved

LEMMA SerialPublishRead ==
  ASSUME ~Overlap, SerialInv, NEW s \in Slots, PublishRead(s)
  PROVE  Alone' /\ Current' /\ StoppedNeverQueued'
  <1>1. call[s] \in Calls /\ call[s].kind = "publish" /\ UNCHANGED job /\ Arrived(s, "publish")
    BY DEF PublishRead, Arrived, SerialInv, TypeInv, TypeOK
  <1>2. \A t \in Slots : ~Mid(call[t])
    BY <1>1, NobodyElse
  <1>3. StoppedNeverQueued'
    BY <1>1, SameRows DEF SerialInv
  <1> DEFINE row == job[call[s].job]
  <1>4. CASE call' = Answered(s, [call[s] EXCEPT !.conflict = TRUE])
    <2> DEFINE c == [call[s] EXCEPT !.conflict = TRUE]
    <2>1. c \in Calls /\ call' = Answered(s, c)
      BY <1>1, <1>4 DEF Calls
    <2> HIDE DEF c
    <2> QED
      BY <1>2, <1>3, <2>1, Answering
  <1>5. CASE row.status # "gone" /\ Claimant(row, s[1]) /\ call' = [call EXCEPT ![s].at = "save"]
    <2> DEFINE c == [call[s] EXCEPT !.at = "save"]
    <2>1. call' = [call EXCEPT ![s] = c]
      BY <1>5 DEF SerialInv, TypeInv, TypeOK
    <2>2. c.kind = "publish" /\ c.at = "save" /\ c.job = call[s].job
      BY <1>1 DEF Calls
    <2> HIDE DEF c
    <2>3. CurrentIn(job', s, c)
      BY <1>1, <1>5, <2>2 DEF CurrentAt, CurrentIn, Claimant
    <2> QED
      BY <1>2, <1>3, <2>1, <2>3, Itself
  <1> QED
    BY <1>4, <1>5 DEF PublishRead

LEMMA SerialPublishSave ==
  ASSUME ~Overlap, SerialInv, NEW s \in Slots, PublishSave(s)
  PROVE  Alone' /\ Current' /\ StoppedNeverQueued'
  <1>0. TypeInv /\ StoppedNeverQueued
    BY DEF SerialInv
  <1>1. call[s] \in Calls /\ Mid(call[s]) /\ call[s].job \in Jobs
    BY <1>0, PublishSaved DEF Mid
  <1>2. \A t \in Slots \ {s} : ~Mid(call[t])
    BY <1>1, NobodyElse
  <1>3. CASE UNCHANGED job /\ call' = Answered(s, [call[s] EXCEPT !.conflict = TRUE])
    <2> DEFINE c == [call[s] EXCEPT !.conflict = TRUE]
    <2>1. c \in Calls /\ call' = Answered(s, c)
      BY <1>1, <1>3 DEF Calls
    <2> HIDE DEF c
    <2> QED
      BY <1>0, <1>2, <1>3, <2>1, Answering, SameRows
  <1>4. CASE LET c == call[s]  j == c.job IN
               /\ call' = Answered(s, c) /\ \A i \in Jobs \ {j} : job'[i] = job[i]
               /\ job'[j].status = job[j].status /\ job'[j].stop = job[j].stop
    <2>2. job'[call[s].job].stop => job'[call[s].job].status # "Queued"
      BY <1>0, <1>1, <1>4 DEF StoppedNeverQueued
    <2> QED
      BY <1>0, <1>1, <1>2, <1>4, <2>2, Answering, OneRow
  <1> QED
    BY <1>0, <1>3, <1>4, PublishSaved

LEMMA SerialCancelRead ==
  ASSUME ~Overlap, SerialInv, NEW s \in Slots, CancelRead(s)
  PROVE  Alone' /\ Current' /\ StoppedNeverQueued'
  <1> DEFINE row == job[call[s].job]
             d == [call[s] EXCEPT !.at = "save", !.to = IF row.status = "Queued" THEN "Cancelled" ELSE "beat"]
             c == IF row.status \in Terminal \cup {"gone"} THEN Free ELSE d
  <1>1. /\ call[s] \in Calls /\ CallFormed(s, call[s]) /\ call[s].at = "sent" /\ call[s].kind = "cancel"
        /\ UNCHANGED job /\ call' = [call EXCEPT ![s] = c] /\ Arrived(s, "cancel")
    BY DEF CancelRead, Arrived, SerialInv, TypeInv, TypeOK, Formed
  <1>2. \A t \in Slots : ~Mid(call[t])
    BY <1>1, NobodyElse
  <1>3. StoppedNeverQueued'
    BY <1>1, SameRows DEF SerialInv
  <1>4. row.status \in Active \cup Terminal \cup {"Queued", "gone"}
    BY <1>1 DEF CallFormed, SerialInv, TypeInv, TypeOK, Rows
  <1>5. CASE row.status \in Terminal \cup {"gone"}
    BY <1>1, <1>2, <1>3, <1>5, ConstantTypes, Itself DEF Mid
  <1>6. CASE row.status \notin Terminal \cup {"gone"}
    <2>1. call' = [call EXCEPT ![s] = d]
      BY <1>1, <1>6
    <2>2. /\ d.at = "save" /\ d.kind = "cancel" /\ d.job = call[s].job
          /\ d.to = IF row.status = "Queued" THEN "Cancelled" ELSE "beat"
      BY <1>1 DEF Calls
    <2> HIDE DEF d
    <2>3. CurrentIn(job', s, d)
      BY <1>1, <1>4, <1>6, <2>2 DEF CurrentAt, CurrentIn
    <2> QED
      BY <1>2, <1>3, <2>1, <2>3, Itself
  <1> QED
    BY <1>5, <1>6

LEMMA SerialCancelSave ==
  ASSUME ~Overlap, SerialInv, NEW s \in Slots, CancelSave(s)
  PROVE  Alone' /\ Current' /\ StoppedNeverQueued'
  <1>0. TypeInv /\ StoppedNeverQueued
    BY DEF SerialInv
  <1>1. /\ call[s] \in Calls /\ Mid(call[s]) /\ call[s].job \in Jobs /\ CurrentAt(s, call[s])
        /\ call[s].at = "save" /\ call[s].kind = "cancel" /\ call' = [call EXCEPT ![s] = Free]
    BY <1>0, CancelSaved DEF Mid, SerialInv, Current
  <1>2. \A t \in Slots \ {s} : ~Mid(call[t])
    BY <1>1, NobodyElse
  <1>3. Alone' /\ Current'
    BY <1>1, <1>2, ConstantTypes, Itself DEF Mid
  <1>4. CASE UNCHANGED job
    BY <1>0, <1>3, <1>4, SameRows
  <1>5. CASE LET c == call[s]  j == c.job IN
               /\ \A i \in Jobs \ {j} : job'[i] = job[i]
               /\ job'[j].status = (IF c.to = "Cancelled" THEN c.to ELSE job[j].status)
    <2>1. job'[call[s].job].status # "Queued"
      BY <1>1, <1>5 DEF CurrentAt, CurrentIn
    <2> QED
      BY <1>0, <1>1, <1>3, <1>5, <2>1, OneRow
  <1> QED
    BY <1>0, <1>4, <1>5, CancelSaved

LEMMA SerialDeleteRead ==
  ASSUME ~Overlap, SerialInv, NEW s \in Slots, DeleteRead(s)
  PROVE  Alone' /\ Current' /\ StoppedNeverQueued'
  <1> DEFINE row == job[call[s].job]
             d == [call[s] EXCEPT !.at = "blobs", !.result = row.result /\ row.mode # "publish"]
             c == IF MayDelete(row) THEN d ELSE Free
  <1>1. /\ call[s] \in Calls /\ call[s].at = "sent" /\ call[s].kind = "delete"
        /\ UNCHANGED job /\ call' = [call EXCEPT ![s] = c] /\ Arrived(s, "delete")
    BY DEF DeleteRead, Arrived, SerialInv, TypeInv, TypeOK
  <1>2. \A t \in Slots : ~Mid(call[t])
    BY <1>1, NobodyElse
  <1>3. StoppedNeverQueued'
    BY <1>1, SameRows DEF SerialInv
  <1>5. CASE ~MayDelete(row)
    BY <1>1, <1>2, <1>3, <1>5, ConstantTypes, Itself DEF Mid
  <1>6. CASE MayDelete(row)
    <2> DEFINE res == row.result /\ row.mode # "publish"
    <2>1. call' = [call EXCEPT ![s] = d] /\ row.status \in Terminal
      BY <1>1, <1>6 DEF MayDelete
    <2> HIDE DEF res
    <2>2. /\ d.at = "blobs" /\ d.kind = "delete" /\ d.job = call[s].job /\ d.result = res
      BY <1>1 DEF Calls, res
    <2> HIDE DEF d
    <2>3. CurrentIn(job', s, d)
      BY <1>1, <2>1, <2>2 DEF CurrentAt, CurrentIn, res
    <2> QED
      BY <1>2, <1>3, <2>1, <2>3, Itself
  <1> QED
    BY <1>5, <1>6

LEMMA SerialDeleteBlobs ==
  ASSUME ~Overlap, SerialInv, NEW s \in Slots, DeleteBlobs(s)
  PROVE  Alone' /\ Current' /\ StoppedNeverQueued'
  <1> DEFINE c == [call[s] EXCEPT !.at = "save"]
  <1>1. /\ call[s] \in Calls /\ CallFormed(s, call[s]) /\ call[s].at = "blobs" /\ Mid(call[s])
        /\ UNCHANGED job /\ call' = [call EXCEPT ![s] = c] /\ CurrentAt(s, call[s])
    BY DEF DeleteBlobs, SerialInv, TypeInv, TypeOK, Formed, Current, Mid
  <1>2. call[s].kind = "delete"
    BY <1>1 DEF CallFormed
  <1>3. c.at = "save" /\ c.kind = "delete" /\ c.job = call[s].job /\ c.result = call[s].result
    BY <1>1, <1>2 DEF Calls
  <1> HIDE DEF c
  <1>4. CurrentIn(job', s, c)
    BY <1>1, <1>2, <1>3 DEF CurrentAt, CurrentIn
  <1>5. \A t \in Slots \ {s} : ~Mid(call[t])
    BY <1>1, NobodyElse
  <1> QED
    BY <1>1, <1>4, <1>5, Itself, SameRows DEF SerialInv

LEMMA SerialDeleteSave ==
  ASSUME ~Overlap, SerialInv, NEW s \in Slots, DeleteSave(s)
  PROVE  Alone' /\ Current' /\ StoppedNeverQueued'
  <1>0. TypeInv /\ StoppedNeverQueued
    BY DEF SerialInv
  <1>1. /\ call[s] \in Calls /\ Mid(call[s]) /\ call[s].job \in Jobs /\ call' = [call EXCEPT ![s] = Free]
        /\ \A i \in Jobs \ {call[s].job} : job'[i] = job[i]
        /\ job'[call[s].job].status = "gone"
    BY <1>0, DeleteSaved DEF Mid
  <1>2. \A t \in Slots \ {s} : ~Mid(call[t])
    BY <1>1, NobodyElse
  <1> QED
    BY <1>0, <1>1, <1>2, ConstantTypes, Itself, OneRow DEF Mid

LEMMA SerialServe ==
  ASSUME ~Overlap, SerialInv, NEW s \in Slots, Serve(s)
  PROVE  Alone' /\ Current' /\ StoppedNeverQueued'
  BY SerialSweepRead, SerialSweepSave, SerialClaimNext, SerialReportRead, SerialReportSave,
     SerialPublishRead, SerialPublishSave, SerialCancelRead, SerialCancelSave, SerialDeleteRead,
     SerialDeleteBlobs, SerialDeleteSave
  DEF Serve

-----------------------------------------------------------------------------
(* The steps beside the handlers.                                              *)

\* No request comes to be between its read and its save.
Apart == \A t \in Slots : call'[t] = call[t] \/ ~Mid(call'[t])

LEMMA FreedApart ==
  ASSUME TypeInv, NEW s \in Slots, NEW c, ~Mid(c), call' = [call EXCEPT ![s] = c]
  PROVE  Apart
  BY DEF Apart, TypeInv, TypeOK

LEMMA SentApart ==
  ASSUME TypeInv, NEW w \in Watchers, NEW c \in Calls, Send(w, c)
  PROVE  Apart
  <1> DEFINE d == [c EXCEPT !.at = "sent"]
             s == <<w, "main">>
  <1>1. call' = [call EXCEPT ![s] = d] /\ s \in Slots
    BY SlotTypes DEF Send
  <1>2. ~Mid(d)
    BY DEF Mid, Calls
  <1> HIDE DEF d, s
  <1> QED
    BY <1>1, <1>2, FreedApart

LEMMA ReportTypes ==
  ASSUME TypeInv, NEW w \in Watchers
  PROVE  /\ \A to \in Active \cup Terminal \cup {"beat"} : Report(w, to) \in Calls
         /\ [Free EXCEPT !.kind = "publish", !.job = watcher[w].job] \in Calls
         /\ \A to \in Terminal, res \in BOOLEAN : [Report(w, to) EXCEPT !.result = res] \in Calls
  <1>1. watcher[w].job \in Jobs \cup {NoJob}
    BY Worker DEF Processes
  <1>2. ASSUME NEW to \in Active \cup Terminal \cup {"beat"} PROVE Report(w, to) \in Calls
    BY <1>1, ConstantTypes DEF Report, Calls
  <1>3. [Free EXCEPT !.kind = "publish", !.job = watcher[w].job] \in Calls
    BY <1>1, ConstantTypes DEF Calls
  <1>4. ASSUME NEW to \in Terminal, NEW res \in BOOLEAN
        PROVE  [Report(w, to) EXCEPT !.result = res] \in Calls
    <2>1. Report(w, to) \in Calls
      BY <1>2
    <2> QED
      BY <2>1 DEF Calls
  <1> QED
    BY <1>2, <1>3, <1>4

LEMMA WorkApart ==
  ASSUME TypeInv, NEW w \in Watchers, Work(w)
  PROVE  UNCHANGED job /\ Apart
  <1>1. CASE Poll(w)
    BY <1>1, ConstantTypes, SentApart DEF Poll
  <1>2. CASE ReportStage(w)
    <2>1. Report(w, "Running") \in Calls /\ Report(w, "Uploading") \in Calls
      BY ReportTypes DEF Active
    <2>2. Send(w, Report(w, "Running")) \/ Send(w, Report(w, "Uploading"))
      BY <1>2 DEF ReportStage
    <2> QED
      BY <1>2, <2>1, <2>2, SentApart DEF ReportStage
  <1>3. CASE Receive(w)
    BY <1>3, SlotTypes, ConstantTypes, FreedApart DEF Receive, Mid
  <1>4. CASE ApplyStop(w) \/ EngineStops(w) \/ Restart(w)
    BY <1>4 DEF ApplyStop, EngineStops, Restart, Apart
  <1>5. CASE Upload(w)
    <2>1. UNCHANGED call \/ Send(w, [Free EXCEPT !.kind = "publish", !.job = watcher[w].job])
      BY <1>5 DEF Upload
    <2> QED
      BY <1>5, <2>1, ReportTypes, SentApart DEF Upload, Apart
  <1>6. CASE Close(w)
    <2>1. CASE watcher[w].out = "result"
      <3> DEFINE to == TerminalStatus(watcher[w])
                 res == watcher[w].mode # "publish"
      <3>1. Send(w, [Report(w, to) EXCEPT !.result = res])
        BY <1>6, <2>1 DEF Close
      <3>2. to \in Terminal /\ res \in BOOLEAN
        BY DEF TerminalStatus, Terminal
      <3> HIDE DEF to, res
      <3> QED
        BY <1>6, <3>1, <3>2, ReportTypes, SentApart DEF Close
    <2>2. CASE watcher[w].out # "result"
      <3>1. Send(w, Report(w, watcher[w].out))
        BY <1>6, <2>2 DEF Close
      <3>2. watcher[w].out \in Terminal
        BY <2>2, Worker DEF Processes, Terminal
      <3> QED
        BY <1>6, <3>1, <3>2, ReportTypes, SentApart DEF Close
    <2> QED
      BY <2>1, <2>2
  <1> QED
    BY <1>1, <1>2, <1>3, <1>4, <1>5, <1>6 DEF Work

LEMMA OthersApart ==
  ASSUME TypeInv, NEW w \in Watchers,
         ChildSucceeds(w) \/ Beat(w) \/ Hear(w) \/ Lose(w) \/ ChildFails(w) \/ UploadFails(w)
  PROVE  UNCHANGED job /\ Apart
  <1>1. CASE ChildSucceeds(w) \/ ChildFails(w) \/ UploadFails(w)
    BY <1>1 DEF ChildSucceeds, ChildFails, UploadFails, Apart
  <1>2. CASE Hear(w) \/ Lose(w)
    <2>1. ~Mid(Free) /\ <<w, "main">> \in Slots /\ <<w, "beat">> \in Slots
      BY SlotTypes, ConstantTypes DEF Mid
    <2>2. /\ UNCHANGED job
          /\ \/ call' = [call EXCEPT ![<<w, "main">>] = Free]
             \/ call' = [call EXCEPT ![<<w, "beat">>] = Free]
      BY <1>2 DEF Hear, Lose
    <2> QED
      BY <2>1, <2>2, FreedApart
  <1>3. CASE Beat(w)
    <2> DEFINE c == Report(w, "beat")
               d == [c EXCEPT !.at = "sent"]
               s == <<w, "beat">>
    <2>1. c \in Calls
      BY ReportTypes
    <2>2. call' = [call EXCEPT ![s] = d] /\ s \in Slots /\ UNCHANGED job
      BY <1>3, SlotTypes DEF Beat
    <2>3. ~Mid(d)
      <3> HIDE DEF c
      <3> QED
        BY <2>1 DEF Mid, Calls
    <2> HIDE DEF d, s
    <2> QED
      BY <2>2, <2>3, FreedApart
  <1> QED
    BY <1>1, <1>2, <1>3

\* A request that its watcher has left goes on by itself.
Left(w) == \E x \in {"main", "beat"} :
  /\ ~Mid(call'[<<w, x>>]) /\ call'[<<w, "late">>] = call[<<w, x>>]
  /\ \A t \in Slots \ {<<w, "late">>} : call'[t] = call[t] \/ ~Mid(call'[t])

LEMMA BesideLeft ==
  ASSUME SerialInv, NEW w \in Watchers, UNCHANGED job, Left(w)
  PROVE  Alone' /\ Current' /\ StoppedNeverQueued'
  <1>1. PICK x \in {"main", "beat"} :
          /\ ~Mid(call'[<<w, x>>]) /\ call'[<<w, "late">>] = call[<<w, x>>]
          /\ \A t \in Slots \ {<<w, "late">>} : call'[t] = call[t] \/ ~Mid(call'[t])
    BY DEF Left
  <1> DEFINE X == <<w, x>>
             L == <<w, "late">>
  <1>2. X \in Slots /\ L \in Slots /\ X # L /\ X[1] = w /\ L[1] = w
    BY SlotTypes
  <1> HIDE DEF X, L
  <1>3. ~Mid(call'[X]) /\ call'[L] = call[X] /\ \A t \in Slots \ {L} : call'[t] = call[t] \/ ~Mid(call'[t])
    BY <1>1 DEF X, L
  <1>4. Alone'
    <2> SUFFICES ASSUME NEW s \in Slots, NEW t \in Slots, Mid(call'[s]), Mid(call'[t]) PROVE s = t
      BY DEF Alone, Mid
    <2>1. \A u, v \in Slots : Mid(call[u]) /\ Mid(call[v]) => u = v
      BY DEF SerialInv, Alone
    <2> QED
      BY <1>2, <1>3, <2>1
  <1>5. ASSUME NEW t \in Slots PROVE CurrentIn(job', t, call'[t])
    <2>1. \A u \in Slots : CurrentIn(job, u, call[u])
      BY DEF SerialInv, Current, CurrentAt
    <2>2. CASE t = L
      <3>1. CurrentIn(job, X, call[X])
        BY <1>2, <2>1
      <3> QED
        BY <1>2, <1>3, <2>2, <3>1 DEF CurrentIn
    <2>3. CASE t # L /\ call'[t] = call[t]
      BY <2>1, <2>3
    <2>4. CASE ~Mid(call'[t])
      BY <2>4 DEF CurrentIn, Mid
    <2> QED
      BY <1>3, <2>2, <2>3, <2>4
  <1> QED
    BY <1>4, <1>5, SameRows DEF SerialInv, Current, CurrentAt

LEMMA LeavesApart ==
  ASSUME TypeInv, NEW w \in Watchers, LoseBeat(w) \/ GiveUp(w) \/ Crash(w)
  PROVE  UNCHANGED job /\ (Left(w) \/ Apart)
  <1> DEFINE M == <<w, "main">>
             B == <<w, "beat">>
             L == <<w, "late">>
  <1>1. M \in Slots /\ B \in Slots /\ L \in Slots /\ M # B /\ M # L /\ B # L
    BY SlotTypes
  <1>2. call \in [Slots -> Calls] /\ UNCHANGED job /\ ~Mid(Free) /\ TypeInv
    BY ConstantTypes DEF TypeInv, TypeOK, LoseBeat, GiveUp, Crash, Mid
  <1>3. Left(w) \/ Apart
    <2>1. CASE LoseBeat(w)
      <3>1. PICK kept \in {Free, call[B]} :
              call' = [call EXCEPT ![B] = Free, ![L] = IF kept = Free THEN @ ELSE kept]
        BY <2>1 DEF LoseBeat
      <3>2. CASE kept = Free
        <4> HIDE DEF M, B, L
        <4>1. call' = [call EXCEPT ![B] = Free]
          BY <1>1, <1>2, <3>1, <3>2
        <4> QED
          BY <1>1, <1>2, <4>1, FreedApart
      <3>3. CASE kept # Free
        <4> HIDE DEF M, B, L
        <4>1. call'[B] = Free /\ call'[L] = call[B] /\ \A t \in Slots \ {B, L} : call'[t] = call[t]
          BY <1>1, <1>2, <3>1, <3>3
        <4>2. \A t \in Slots \ {L} : call'[t] = call[t] \/ ~Mid(call'[t])
          BY <1>1, <1>2, <4>1
        <4> QED
          BY <1>2, <4>1, <4>2 DEF Left, B, L
      <3> QED
        BY <3>2, <3>3
    <2>2. CASE GiveUp(w)
      <3>1. call' = [call EXCEPT ![M] = Free, ![L] = call[M]]
        BY <2>2 DEF GiveUp
      <3> HIDE DEF M, B, L
      <3>2. call'[M] = Free /\ call'[L] = call[M] /\ \A t \in Slots \ {M, L} : call'[t] = call[t]
        BY <1>1, <1>2, <3>1
      <3>3. \A t \in Slots \ {L} : call'[t] = call[t] \/ ~Mid(call'[t])
        BY <1>1, <1>2, <3>2
      <3> QED
        BY <1>2, <3>2, <3>3 DEF Left, M, L
    <2>3. CASE Crash(w)
      <3>1. PICK kept \in {Free, call[M]} :
              call' = [call EXCEPT ![M] = Free, ![B] = Free, ![L] = IF kept = Free THEN @ ELSE kept]
        BY <2>3 DEF Crash
      <3>2. CASE kept = Free
        <4> HIDE DEF M, B, L
        <4>1. call'[M] = Free /\ call'[B] = Free /\ \A t \in Slots \ {M, B} : call'[t] = call[t]
          BY <1>1, <1>2, <3>1, <3>2
        <4> QED
          BY <1>1, <1>2, <4>1 DEF Apart
      <3>3. CASE kept # Free
        <4> HIDE DEF M, B, L
        <4>1. call'[M] = Free /\ call'[B] = Free /\ call'[L] = call[M] /\ \A t \in Slots \ {M, B, L} : call'[t] = call[t]
          BY <1>1, <1>2, <3>1, <3>3
        <4>2. \A t \in Slots \ {L} : call'[t] = call[t] \/ ~Mid(call'[t])
          BY <1>1, <1>2, <4>1
        <4> QED
          BY <1>2, <4>1, <4>2 DEF Left, M, L
      <3> QED
        BY <3>2, <3>3
    <2> QED
      BY <2>1, <2>2, <2>3
  <1> QED
    BY <1>2, <1>3

LEMMA SerialLeaves ==
  ASSUME SerialInv, NEW w \in Watchers, LoseBeat(w) \/ GiveUp(w) \/ Crash(w)
  PROVE  Alone' /\ Current' /\ StoppedNeverQueued'
  BY LeavesApart, BesideLeft, Beside, SameRows DEF SerialInv, Apart

LEMMA SerialOthers ==
  ASSUME SerialInv,
         \/ \E w \in Watchers : Work(w) \/ ChildSucceeds(w) \/ Beat(w) \/ Hear(w) \/ Fault(w)
         \/ \E j \in Jobs : AgeOut(j) \/ \E mode \in Modes : Create(j, mode)
         \/ \E u \in Users : Abort(u) \/ \E kind \in {"cancel", "delete"}, j \in Jobs : Ask(u, kind, j)
  PROVE  Alone' /\ Current' /\ StoppedNeverQueued'
  <1>0. TypeInv /\ StoppedNeverQueued
    BY DEF SerialInv
  <1>1. ASSUME UNCHANGED job, Apart PROVE Alone' /\ Current' /\ StoppedNeverQueued'
    BY <1>0, <1>1, Beside, SameRows DEF Apart
  <1>2. ASSUME NEW w \in Watchers, Work(w) \/ ChildSucceeds(w) \/ Beat(w) \/ Hear(w) \/ Fault(w)
        PROVE  Alone' /\ Current' /\ StoppedNeverQueued'
    BY <1>0, <1>1, <1>2, WorkApart, OthersApart, SerialLeaves DEF Fault
  <1>3. ASSUME NEW j \in Jobs, AgeOut(j)
        PROVE  Alone' /\ Current' /\ StoppedNeverQueued'
    <2>1. /\ \A i \in Jobs \ {j} : job'[i] = job[i]
          /\ job'[j].status = job[j].status /\ job'[j].owner = job[j].owner /\ job'[j].mode = job[j].mode
          /\ job'[j].stop = job[j].stop /\ job'[j].result = job[j].result
          /\ job'[j].attempts = job[j].attempts /\ job[j].fresh
      BY <1>0, <1>3, Aged
    <2>2. RowsKept
      BY <2>1 DEF RowsKept, Stale
    <2>3. StoppedNeverQueued'
      BY <1>0, <2>1 DEF StoppedNeverQueued
    <2> QED
      BY <1>3, <2>2, <2>3, Beside DEF AgeOut
  <1>4. ASSUME NEW j \in Jobs, NEW mode \in Modes, Create(j, mode)
        PROVE  Alone' /\ Current' /\ StoppedNeverQueued'
    <2>1. /\ \A i \in Jobs \ {j} : job'[i] = job[i] /\ job[j].status = "absent"
          /\ job[j].status = "absent" /\ ~job'[j].stop
      BY <1>0, <1>4, Created
    <2>2. RowsKept
      BY <2>1 DEF RowsKept, Stale
    <2>3. StoppedNeverQueued'
      BY <1>0, <2>1, OneRow
    <2> QED
      BY <1>4, <2>2, <2>3, Beside DEF Create
  <1>5. ASSUME NEW u \in Users, Abort(u)
        PROVE  Alone' /\ Current' /\ StoppedNeverQueued'
    <2>1. ~Mid(Free) /\ <<u, "main">> \in Slots
      BY ConstantTypes, SlotTypes DEF Mid
    <2>2. Apart /\ UNCHANGED job
      BY <1>0, <1>5, <2>1, FreedApart DEF Abort
    <2> QED
      BY <1>1, <2>2
  <1>6. ASSUME NEW u \in Users, NEW kind \in {"cancel", "delete"}, NEW j \in Jobs, Ask(u, kind, j)
        PROVE  Alone' /\ Current' /\ StoppedNeverQueued'
    <2> DEFINE c == [Free EXCEPT !.at = "sent", !.kind = kind, !.job = j]
               s == <<u, "main">>
    <2>1. ~Mid(c) /\ s \in Slots
      BY ConstantTypes, SlotTypes DEF Mid, Calls
    <2>2. call' = [call EXCEPT ![s] = c] /\ UNCHANGED job
      BY <1>6 DEF Ask
    <2> HIDE DEF c, s
    <2>3. Apart
      BY <1>0, <2>1, <2>2, FreedApart
    <2> QED
      BY <1>1, <2>2, <2>3
  <1> QED
    BY <1>2, <1>3, <1>4, <1>5, <1>6

LEMMA SerialInductive ==
  ASSUME ~Overlap, SerialInv, [Next]_vars
  PROVE  SerialInv'
  <1>0. TypeInv /\ TypeInv'
    BY TypeInductive DEF SerialInv
  <1>1. CASE UNCHANGED vars
    <2>1. UNCHANGED job /\ Apart
      BY <1>1 DEF vars, Apart
    <2> QED
      BY <1>0, <2>1, Beside, SameRows DEF SerialInv, Apart
  <1>2. CASE Next
    <2>1. Alone' /\ Current' /\ StoppedNeverQueued'
      BY <1>2, SerialServe, SerialOthers DEF Next
    <2> QED
      BY <1>0, <2>1 DEF SerialInv
  <1> QED
    BY <1>1, <1>2

LEMMA SerialInitially ==
  ASSUME Init
  PROVE  SerialInv
  <1>1. TypeInv
    BY TypeInitially
  <1>2. \A s \in Slots : call[s].at = "free"
    BY ConstantTypes DEF Init
  <1>3. \A j \in Jobs : job[j].status = "absent"
    BY DEF Init, Absent
  <1> QED
    BY <1>1, <1>2, <1>3 DEF SerialInv, Alone, Current, CurrentAt, CurrentIn, Mid, StoppedNeverQueued

LEMMA SerialInvariance ==
  ASSUME ~Overlap
  PROVE  Spec => []SerialInv
  <1>1. SerialInv /\ [Next]_vars => SerialInv'
    BY SerialInductive
  <1> QED
    BY <1>1, SerialInitially, PTL DEF Spec

-----------------------------------------------------------------------------
(* Handlers that overlap.  A request is between its read and its save because  *)
(* it was, or has been left by its watcher while it was, or reads now; and a   *)
(* row only comes to be queued when it is inserted or a sweep in flight holds  *)
(* it as one to queue.                                                         *)

Unstopped == \A j \in Jobs : job[j].status = "absent" => ~job[j].stop
StopInv == TypeInv /\ Unstopped

Holds(s, j) == call[s].at = "sweep" /\ call[s].swept[j] = "Queued"

\* The sweeps after a step hold what some sweep held before, or what is not stopped.
SweepsFit(j) == \A t \in Slots : Holds(t, j)' => ~job[j].stop \/ \E u \in Slots : Holds(u, j)

\* What may become of a row.
RowFits(j) ==
  \/ job'[j] = job[j]
  \/ job[j].status = "absent" /\ ~job'[j].stop
  \/ job'[j].status = "gone"
  \/ /\ job[j].status # "absent" /\ job'[j].status # "absent"
     /\ job[j].stop => job'[j].stop
     /\ job'[j].status = "Queued" => job[j].status = "Queued" \/ \E s \in Slots : Holds(s, j)

\* A slot that holds no sweep after the step, or the one it held, brings none.
LEMMA ApartFits ==
  ASSUME Apart, NEW j \in Jobs
  PROVE  SweepsFit(j)
  BY DEF Apart, Mid, SweepsFit, Holds

LEMMA LeftFits ==
  ASSUME NEW w \in Watchers, Left(w), NEW j \in Jobs
  PROVE  SweepsFit(j)
  <1>1. PICK x \in {"main", "beat"} :
          /\ ~Mid(call'[<<w, x>>]) /\ call'[<<w, "late">>] = call[<<w, x>>]
          /\ \A t \in Slots \ {<<w, "late">>} : call'[t] = call[t] \/ ~Mid(call'[t])
    BY DEF Left
  <1>2. <<w, x>> \in Slots
    BY SlotTypes
  <1> QED
    BY <1>1, <1>2 DEF Mid, SweepsFit, Holds

\* An answered or freed slot holds no sweep.
LEMMA AnsweredFits ==
  ASSUME TypeInv, NEW s \in Slots, NEW c \in Calls, call' = Answered(s, c), NEW j \in Jobs
  PROVE  SweepsFit(j)
  <1> DEFINE d == IF s[2] # "late" THEN [c EXCEPT !.at = "reply"] ELSE Free
  <1>1. call' = [call EXCEPT ![s] = d]
    BY DEF Answered
  <1>2. ~Mid(d)
    BY ConstantTypes DEF Mid, Calls
  <1> HIDE DEF d
  <1> QED
    BY <1>1, <1>2, FreedApart, ApartFits

LEMMA SetFits ==
  ASSUME TypeInv, NEW s \in Slots, NEW c, c.at # "sweep", call' = [call EXCEPT ![s] = c], NEW j \in Jobs
  PROVE  SweepsFit(j)
  <1>1. call'[s] = c /\ \A t \in Slots \ {s} : call'[t] = call[t]
    BY DEF TypeInv, TypeOK
  <1> QED
    BY <1>1 DEF SweepsFit, Holds

\* The API's steps.
LEMMA ServeFits ==
  ASSUME StopInv, NEW s \in Slots, Serve(s), NEW j \in Jobs
  PROVE  RowFits(j) /\ SweepsFit(j)
  <1>0. TypeInv /\ call \in [Slots -> Calls] /\ call[s] \in Calls /\ CallFormed(s, call[s]) /\ Free \in Calls
        /\ job[j] \in Rows
    BY ConstantTypes DEF StopInv, TypeInv, TypeOK, Formed
  <1>u. UNCHANGED job => RowFits(j)
    BY DEF RowFits
  <1>1. CASE SweepRead(s)
    <2> DEFINE swept == [i \in Jobs |-> IF Stale(job[i]) THEN Verdict(job[i]) ELSE "kept"]
               c == [call[s] EXCEPT !.at = IF swept = Unswept THEN "pop" ELSE "sweep", !.swept = swept]
    <2>1. UNCHANGED job /\ call' = [call EXCEPT ![s] = c]
      BY <1>0, <1>1 DEF SweepRead
    <2>2. swept[j] = "Queued" => ~job[j].stop
      BY DEF Verdict
    <2> HIDE DEF swept
    <2>3. c.swept = swept
      BY <1>0 DEF Calls
    <2> HIDE DEF c
    <2>4. call'[s] = c /\ \A t \in Slots \ {s} : call'[t] = call[t]
      BY <1>0, <2>1
    <2> QED
      BY <1>u, <2>1, <2>2, <2>3, <2>4 DEF SweepsFit, Holds
  <1>2. CASE SweepSave(s)
    <2>1. CASE call' = Answered(s, Free) /\ UNCHANGED job
      BY <1>0, <1>u, <2>1, AnsweredFits
    <2>2. CASE /\ job' = [i \in Jobs |-> IF call[s].swept[i] = "kept" THEN job[i]
                                         ELSE [job[i] EXCEPT !.owner = Nobody, !.status = call[s].swept[i]]]
               /\ call' = [call EXCEPT ![s].at = "pop", ![s].swept = Unswept]
               /\ ~ \E i \in Jobs : call[s].swept[i] # "kept" /\ job[i].status = "gone"
      <3> DEFINE c == [call[s] EXCEPT !.at = "pop", !.swept = Unswept]
      <3>1. call' = [call EXCEPT ![s] = c] /\ c.at # "sweep"
        BY <1>0, <2>2 DEF Calls
      <3> HIDE DEF c
      <3>2. SweepsFit(j)
        BY <1>0, <3>1, SetFits
      <3>3. call[s].swept \in [Jobs -> {"kept", "Queued", "Failed", "Cancelled"}]
        BY <1>0 DEF Calls
      <3>4. IF call[s].swept[j] = "kept" THEN job'[j] = job[j]
            ELSE job'[j].status = call[s].swept[j] /\ job'[j].stop = job[j].stop
        BY <1>0, <2>2, <3>3, SweptRows
      <3>5. call[s].at = "sweep" /\ call[s].swept[j] \in {"kept", "Queued", "Failed", "Cancelled"}
        BY <1>2, <3>3 DEF SweepSave
      <3>6. CASE call[s].swept[j] = "kept"
        <4>1. job'[j] = job[j]
          BY <3>4, <3>6
        <4> QED
          BY ONLY <3>2, <4>1 DEF RowFits
      <3>7. CASE call[s].swept[j] # "kept"
        <4>1. job'[j].status = call[s].swept[j] /\ job'[j].stop = job[j].stop
          BY <3>4, <3>7
        <4>2. job'[j].status # "absent" /\ (job'[j].status = "Queued" => Holds(s, j))
          BY ONLY <3>5, <3>7, <4>1 DEF Holds
        <4>3. job[j].status = "absent" => ~job'[j].stop
          BY ONLY <4>1, StopInv DEF StopInv, Unstopped
        <4> QED
          BY <3>2, <4>1, <4>2, <4>3 DEF RowFits
      <3> QED
        BY <3>2, <3>6, <3>7
    <2> QED
      BY <1>2, <2>1, <2>2 DEF SweepSave
  <1>3. CASE ClaimNext(s)
    <2>1. CASE call' = Answered(s, call[s]) /\ UNCHANGED job
      BY <1>0, <1>u, <2>1, AnsweredFits
    <2>2. ASSUME NEW k \in QueuedRows,
                 job' = [job EXCEPT ![k].status = "Claimed", ![k].owner = s[1], ![k].fresh = TRUE,
                                    ![k].attempts = @ + 1],
                 call' = Answered(s, [call[s] EXCEPT !.job = k])
          PROVE  RowFits(j) /\ SweepsFit(j)
      <3>1. k \in Jobs /\ job[k].status = "Queued"
        BY DEF QueuedRows
      <3>2. [call[s] EXCEPT !.job = k] \in Calls
        BY <1>0, <3>1 DEF Calls
      <3>3. SweepsFit(j)
        BY <1>0, <2>2, <3>2, AnsweredFits
      <3>4. s[1] \in Watchers
        BY <1>0, <1>3 DEF ClaimNext, CallFormed
      <3>5. /\ \A i \in Jobs \ {k} : job'[i] = job[i]
            /\ job'[k].status = "Claimed" /\ job'[k].stop = job[k].stop
        BY <1>0, <2>2, <3>1, <3>4, ClaimedRow
      <3> QED
        BY <3>1, <3>3, <3>5 DEF RowFits
    <2> QED
      BY <1>3, <2>1, <2>2 DEF ClaimNext
  <1>4. CASE ReportRead(s) \/ PublishRead(s)
    <2>1. UNCHANGED job
      BY <1>4 DEF ReportRead, PublishRead
    <2>2. [call[s] EXCEPT !.conflict = TRUE] \in Calls
      BY <1>0 DEF Calls
    <2>3. CASE call' = Answered(s, call[s]) \/ call' = Answered(s, [call[s] EXCEPT !.conflict = TRUE])
      BY <1>0, <1>u, <2>1, <2>2, <2>3, AnsweredFits
    <2>4. CASE call' = [call EXCEPT ![s].at = "save", ![s].stop = job[call[s].job].stop]
      <3> DEFINE c == [call[s] EXCEPT !.at = "save", !.stop = job[call[s].job].stop]
      <3>1. call' = [call EXCEPT ![s] = c] /\ c.at # "sweep"
        BY <1>0, <2>4 DEF Calls
      <3> HIDE DEF c
      <3> QED
        BY <1>0, <1>u, <2>1, <3>1, SetFits
    <2>5. CASE call' = [call EXCEPT ![s].at = "save"]
      <3> DEFINE c == [call[s] EXCEPT !.at = "save"]
      <3>1. call' = [call EXCEPT ![s] = c] /\ c.at # "sweep"
        BY <1>0, <2>5 DEF Calls
      <3> HIDE DEF c
      <3> QED
        BY <1>0, <1>u, <2>1, <3>1, SetFits
    <2> QED
      BY <1>4, <2>3, <2>4, <2>5 DEF ReportRead, PublishRead
  <1>5. CASE ReportSave(s)
    <2>1. [call[s] EXCEPT !.stop = FALSE] \in Calls
      BY <1>0 DEF Calls
    <2>2. SweepsFit(j)
      BY <1>0, <1>5, <2>1, ReportSaved, AnsweredFits
    <2>3. CASE UNCHANGED job
      BY <1>u, <2>2, <2>3
    <2>4. CASE /\ RowsStay /\ \A i \in Jobs \ {call[s].job} : job'[i] = job[i]
               /\ job'[call[s].job].status =
                    IF call[s].to = "beat" THEN job[call[s].job].status ELSE call[s].to
               /\ job'[call[s].job].stop = job[call[s].job].stop
      <3>1. call[s].to # "Queued"
        BY <1>0 DEF Calls, Active, Terminal
      <3>2. call[s].job \in Jobs /\ job[call[s].job].status # "absent"
        BY <1>0, <1>5, ReportSaved DEF CallFormed
      <3> QED
        BY <2>2, <2>4, <3>1, <3>2 DEF RowFits, RowsStay
    <2> QED
      BY <1>0, <1>5, <2>3, <2>4, ReportSaved
  <1>6. CASE PublishSave(s)
    <2>1. [call[s] EXCEPT !.conflict = TRUE] \in Calls
      BY <1>0 DEF Calls
    <2>2. SweepsFit(j)
      BY <1>0, <1>6, <2>1, PublishSaved, AnsweredFits
    <2>3. CASE UNCHANGED job
      BY <1>u, <2>2, <2>3
    <2>4. CASE /\ RowsStay /\ \A i \in Jobs \ {call[s].job} : job'[i] = job[i]
               /\ job'[call[s].job].status = job[call[s].job].status
               /\ job'[call[s].job].stop = job[call[s].job].stop
      <3>1. call[s].job \in Jobs /\ job[call[s].job].status # "absent"
        BY <1>0, <1>6, PublishSaved DEF CallFormed
      <3> QED
        BY <2>2, <2>4, <3>1 DEF RowFits, RowsStay
    <2> QED
      BY <1>0, <1>6, <2>3, <2>4, PublishSaved
  <1>7. CASE CancelRead(s) \/ DeleteRead(s) \/ DeleteBlobs(s)
    <2>1. UNCHANGED job
      BY <1>7 DEF CancelRead, DeleteRead, DeleteBlobs
    <2>2. \E c : c.at # "sweep" /\ call' = [call EXCEPT ![s] = c]
      <3>1. ASSUME NEW to, NEW a \in {"save", "blobs"}, NEW r
            PROVE  /\ [call[s] EXCEPT !.at = a].at = a
                   /\ [call[s] EXCEPT !.at = a, !.to = to].at = a
                   /\ [call[s] EXCEPT !.at = a, !.result = r].at = a
        BY <1>0 DEF Calls
      <3>2. Free.at # "sweep"
        BY ConstantTypes
      <3>3. CASE CancelRead(s)
        BY <3>1, <3>2, <3>3, <1>0 DEF CancelRead
      <3>4. CASE DeleteRead(s)
        BY <3>1, <3>2, <3>4, <1>0 DEF DeleteRead
      <3>5. CASE DeleteBlobs(s)
        BY <3>1, <3>5, <1>0 DEF DeleteBlobs
      <3> QED
        BY <1>7, <3>3, <3>4, <3>5
    <2> QED
      BY <1>0, <1>u, <2>1, <2>2, SetFits
  <1>8. CASE CancelSave(s)
    <2>1. Free.at # "sweep" /\ call' = [call EXCEPT ![s] = Free]
      BY <1>8, ConstantTypes DEF CancelSave
    <2>2. SweepsFit(j)
      BY <1>0, <2>1, SetFits
    <2>3. CASE UNCHANGED job
      BY <1>u, <2>2, <2>3
    <2>4. CASE ~UNCHANGED job
      <3>1. /\ call[s].job \in Jobs /\ job[call[s].job].status # "absent" /\ RowsStay
            /\ \A i \in Jobs \ {call[s].job} : job'[i] = job[i]
            /\ job'[call[s].job].status =
                 IF call[s].to = "Cancelled" THEN call[s].to ELSE job[call[s].job].status
        BY <1>0, <1>8, <2>4, CancelSaved DEF CallFormed
      <3>2. job'[call[s].job].stop
        BY <1>0, <1>8, <2>4, <3>1 DEF CancelSave, TypeInv, TypeOK, Rows
      <3> QED
        BY <2>2, <3>1, <3>2 DEF RowFits, RowsStay
    <2> QED
      BY <2>3, <2>4
  <1>9. CASE DeleteSave(s)
    <2>1. Free.at # "sweep"
      BY ConstantTypes
    <2>2. SweepsFit(j)
      BY <1>0, <1>9, <2>1, DeleteSaved, SetFits
    <2> QED
      BY <1>0, <1>9, <2>2, DeleteSaved DEF RowFits
  <1> QED
    BY <1>1, <1>2, <1>3, <1>4, <1>5, <1>6, <1>7, <1>8, <1>9 DEF Serve

\* Every step.
LEMMA StepFits ==
  ASSUME StopInv, [Next]_vars, NEW j \in Jobs
  PROVE  RowFits(j) /\ SweepsFit(j)
  <1>0. TypeInv
    BY DEF StopInv
  <1>1. ASSUME UNCHANGED job, Apart PROVE RowFits(j) /\ SweepsFit(j)
    BY <1>1, ApartFits DEF RowFits
  <1>2. ASSUME NEW w \in Watchers, Work(w) \/ ChildSucceeds(w) \/ Beat(w) \/ Hear(w) \/ Fault(w)
        PROVE  RowFits(j) /\ SweepsFit(j)
    <2>1. UNCHANGED job /\ (Apart \/ Left(w))
      BY <1>0, <1>2, WorkApart, OthersApart, LeavesApart DEF Fault
    <2>2. CASE Left(w)
      BY <2>1, <2>2, LeftFits DEF RowFits
    <2> QED
      BY <1>1, <2>1, <2>2
  <1>3. ASSUME NEW i \in Jobs, AgeOut(i) PROVE RowFits(j) /\ SweepsFit(j)
    <2>1. UNCHANGED call
      BY <1>3 DEF AgeOut
    <2>2. SweepsFit(j)
      BY <2>1 DEF SweepsFit, Holds
    <2>3. /\ \A k \in Jobs \ {i} : job'[k] = job[k]
          /\ job[i].status \in Active /\ job'[i].status = job[i].status /\ job'[i].stop = job[i].stop
      BY <1>0, <1>3, Aged
    <2> QED
      BY <2>2, <2>3 DEF RowFits, Active
  <1>4. ASSUME NEW i \in Jobs, NEW mode \in Modes, Create(i, mode) PROVE RowFits(j) /\ SweepsFit(j)
    <2>1. UNCHANGED call
      BY <1>4 DEF Create
    <2>2. SweepsFit(j)
      BY <2>1 DEF SweepsFit, Holds
    <2> QED
      BY <1>0, <1>4, <2>2, Created DEF RowFits
  <1>5. ASSUME NEW u \in Users, Abort(u) PROVE RowFits(j) /\ SweepsFit(j)
    <2>1. ~Mid(Free) /\ <<u, "main">> \in Slots
      BY ConstantTypes, SlotTypes DEF Mid
    <2>2. Apart /\ UNCHANGED job
      BY <1>0, <1>5, <2>1, FreedApart DEF Abort
    <2> QED
      BY <1>1, <2>2
  <1>6. ASSUME NEW u \in Users, NEW kind \in {"cancel", "delete"}, NEW i \in Jobs, Ask(u, kind, i)
        PROVE  RowFits(j) /\ SweepsFit(j)
    <2> DEFINE c == [Free EXCEPT !.at = "sent", !.kind = kind, !.job = i]
               s == <<u, "main">>
    <2>1. ~Mid(c) /\ s \in Slots
      BY ConstantTypes, SlotTypes DEF Mid, Calls
    <2>2. call' = [call EXCEPT ![s] = c] /\ UNCHANGED job
      BY <1>6 DEF Ask
    <2> HIDE DEF c, s
    <2> QED
      BY <1>0, <1>1, <2>1, <2>2, FreedApart
  <1>7. CASE UNCHANGED vars
    <2>1. UNCHANGED job /\ Apart
      BY <1>7 DEF vars, Apart
    <2> QED
      BY <1>1, <2>1
  <1> QED
    BY <1>2, <1>3, <1>4, <1>5, <1>6, <1>7, ServeFits DEF Next

\* However the handlers overlap and whatever is lost: once a stop is saved and no
\* sweep in flight holds the job from before it as one to queue, the job is not
\* queued again, by any sweep, report or cancel, until its owner deletes it.
THEOREM StopIsForGood == Spec => StoppedForGood
  <1>1. Init => StopInv
    BY TypeInitially DEF StopInv, Unstopped, Init, Absent
  <1>2. StopInv /\ [Next]_vars => StopInv'
    <2> SUFFICES ASSUME StopInv, [Next]_vars PROVE StopInv'
      OBVIOUS
    <2>1. TypeInv'
      BY TypeInductive DEF StopInv
    <2>2. Unstopped'
      BY StepFits DEF StopInv, Unstopped, RowFits
    <2> QED
      BY <2>1, <2>2 DEF StopInv
  <1>3. StopInv /\ [Next]_vars =>
          [\A j \in Jobs : StopSettled(j) => StopSettled(j)' \/ job'[j].status = "gone"]_vars
    <2> SUFFICES ASSUME StopInv, [Next]_vars, NEW j \in Jobs, StopSettled(j), job'[j].status # "gone"
                 PROVE  StopSettled(j)'
      OBVIOUS
    <2>1. \A u \in Slots : ~Holds(u, j)
      BY DEF StopSettled, Holds
    <2>2. job[j].stop /\ job[j].status # "Queued" /\ job[j].status # "absent"
      BY DEF StopSettled, StopInv, Unstopped
    <2>3. job'[j].stop /\ job'[j].status # "Queued"
      BY <2>1, <2>2, StepFits DEF RowFits
    <2>4. \A t \in Slots : ~Holds(t, j)'
      BY <2>1, <2>2, StepFits DEF SweepsFit
    <2> QED
      BY <2>3, <2>4 DEF StopSettled, Holds
  <1> QED
    BY <1>1, <1>2, <1>3, PTL DEF Spec, StoppedForGood

-----------------------------------------------------------------------------
(* What a row says of its result.  Told holds whatever fails: a row, a report  *)
(* and a handler say that there is a result only when the row has its paths.   *)
(* Fine holds until something fails: what a watcher is at determines what its  *)
(* row says and whether its result is in storage.                              *)
(* A row that says Done has its result: what is known of it on the way.        *)

HasIn(rows, j) == rows[j].status = "gone" \/ (rows[j].status # "absent" /\ rows[j].result)

Tells(rows, c) == c.at # "free" =>
  /\ c.kind = "report" /\ c.to = "Done" => c.result \/ HasIn(rows, c.job)
  /\ c.kind = "publish" /\ c.at = "reply" /\ ~c.conflict => HasIn(rows, c.job)
Knows(rows, p) == p.pc = "closing" /\ p.out = "result" => p.mode # "publish" \/ HasIn(rows, p.job)

DoneHas == \A j \in Jobs : job[j].status = "Done" => job[j].result
Told == /\ DoneHas
        /\ \A s \in Slots : Tells(job, call[s])
        /\ \A w \in Watchers : Knows(job, watcher[w])

ToldInv == TypeInv /\ Told

\* A result that is there stays.
ResultsStay == \A j \in Jobs : HasIn(job, j) => HasIn(job', j)

LEMMA ToldFramed ==
  ASSUME ToldInv, ResultsStay, DoneHas',
         \A t \in Slots : Tells(job', call'[t]) \/ \E u \in Slots : call'[t] = call[u],
         \A w \in Watchers : Knows(job', watcher'[w]) \/ watcher'[w] = watcher[w]
  PROVE  Told'
  <1>1. ASSUME NEW t \in Slots PROVE Tells(job', call'[t])
    <2>1. CASE \E u \in Slots : call'[t] = call[u]
      <3>1. PICK u \in Slots : call'[t] = call[u]
        BY <2>1
      <3>2. Tells(job, call[u]) /\ CallFormed(u, call[u])
        BY DEF ToldInv, Told, TypeInv, Formed
      <3>3. call[u].at # "free" /\ call[u].kind # "claim" => call[u].job \in Jobs
        BY <3>2 DEF CallFormed
      <3> QED
        BY <3>1, <3>2, <3>3 DEF Tells, ResultsStay
    <2> QED
      BY <2>1
  <1>2. ASSUME NEW w \in Watchers PROVE Knows(job', watcher'[w])
    <2>1. Knows(job, watcher[w]) /\ WatcherFormed(w, watcher[w], Main(w), Beats(w))
      BY DEF ToldInv, Told, TypeInv, Formed
    <2>2. watcher[w].pc = "closing" => watcher[w].job \in Jobs
      BY <2>1 DEF WatcherFormed, OffWork
    <2> QED
      BY <2>1, <2>2 DEF Knows, ResultsStay
  <1> QED
    BY <1>1, <1>2 DEF Told

\* The rows as they were.
LEMMA SameResults ==
  ASSUME ToldInv, UNCHANGED job
  PROVE  ResultsStay /\ DoneHas'
  BY DEF ResultsStay, DoneHas, ToldInv, Told, HasIn

\* A row changes without losing its result.
LEMMA OneResult ==
  ASSUME ToldInv, NEW j \in Jobs, \A i \in Jobs \ {j} : job'[i] = job[i],
         HasIn(job, j) => HasIn(job', j), job'[j].status = "Done" => job'[j].result
  PROVE  ResultsStay /\ DoneHas'
  BY DEF ResultsStay, DoneHas, ToldInv, Told, HasIn

LEMMA ServeTold ==
  ASSUME ToldInv, NEW s \in Slots, NEW c, call' = [call EXCEPT ![s] = c], Tells(job', c),
         UNCHANGED watcher, ResultsStay, DoneHas'
  PROVE  Told'
  <1>1. \A t \in Slots : call'[t] = (IF t = s THEN c ELSE call[t])
    BY DEF ToldInv, TypeInv, TypeOK
  <1>2. \A t \in Slots : Tells(job', call'[t]) \/ \E u \in Slots : call'[t] = call[u]
    BY <1>1
  <1> QED
    BY <1>2, ToldFramed

LEMMA AnsweredTold ==
  ASSUME ToldInv, NEW s \in Slots, NEW c \in Calls, call' = Answered(s, c),
         c.kind = "report" /\ c.to = "Done" => c.result \/ HasIn(job', c.job),
         c.kind = "publish" /\ ~c.conflict => HasIn(job', c.job),
         UNCHANGED watcher, ResultsStay, DoneHas'
  PROVE  Told'
  <1> DEFINE d == IF s[2] # "late" THEN [c EXCEPT !.at = "reply"] ELSE Free
  <1>1. call' = [call EXCEPT ![s] = d]
    BY DEF Answered
  <1>2. Tells(job', Free)
    BY ConstantTypes DEF Tells
  <1>3. LET e == [c EXCEPT !.at = "reply"] IN
        e.kind = c.kind /\ e.to = c.to /\ e.result = c.result /\ e.conflict = c.conflict /\ e.job = c.job
    BY DEF Calls
  <1>4. Tells(job', d)
    BY <1>2, <1>3 DEF Tells
  <1> HIDE DEF d
  <1> QED
    BY <1>1, <1>4, ServeTold

\* A claim says nothing of a result.
LEMMA ToldSweepRead ==
  ASSUME ToldInv, NEW s \in Slots, SweepRead(s)
  PROVE  Told'
  <1> DEFINE swept == [j \in Jobs |-> IF Stale(job[j]) THEN Verdict(job[j]) ELSE "kept"]
             c == [call[s] EXCEPT !.at = IF swept = Unswept THEN "pop" ELSE "sweep", !.swept = swept]
  <1>1. /\ call[s] \in Calls /\ call[s].kind = "claim" /\ UNCHANGED <<job, watcher>>
        /\ call' = [call EXCEPT ![s] = c]
    BY DEF SweepRead, Arrived, ToldInv, TypeInv, TypeOK
  <1> HIDE DEF swept
  <1>2. c.kind = "claim"
    BY <1>1 DEF Calls
  <1> HIDE DEF c
  <1>3. Tells(job', c)
    BY <1>2 DEF Tells
  <1> QED
    BY <1>1, <1>3, ServeTold, SameResults

LEMMA ToldSweepSave ==
  ASSUME ToldInv, NEW s \in Slots, SweepSave(s)
  PROVE  Told'
  <1>1. call[s] \in Calls /\ call[s].kind = "claim" /\ UNCHANGED watcher
    BY DEF SweepSave, ToldInv, TypeInv, TypeOK, Formed, CallFormed
  <1>2. CASE call' = Answered(s, Free) /\ UNCHANGED job
    <2>1. Free.kind = "claim" /\ Free \in Calls
      BY ConstantTypes DEF Free
    <2> QED
      BY <1>1, <1>2, <2>1, AnsweredTold, SameResults
  <1>3. CASE /\ \A j \in Jobs : call[s].swept[j] # "kept" => job[j].status # "gone"
             /\ job' = [j \in Jobs |-> IF call[s].swept[j] = "kept" THEN job[j]
                                       ELSE [job[j] EXCEPT !.owner = Nobody, !.status = call[s].swept[j]]]
             /\ call' = [call EXCEPT ![s].at = "pop", ![s].swept = Unswept]
    <2> DEFINE c == [call[s] EXCEPT !.at = "pop", !.swept = Unswept]
    <2>1. call' = [call EXCEPT ![s] = c] /\ c.kind = "claim"
      BY <1>1, <1>3 DEF ToldInv, TypeInv, TypeOK, Calls
    <2> HIDE DEF c
    <2>2. call[s].swept \in [Jobs -> {"kept", "Queued", "Failed", "Cancelled"}]
      BY <1>1 DEF Calls
    <2>3. \A j \in Jobs : IF call[s].swept[j] = "kept" THEN job'[j] = job[j]
                          ELSE job'[j].status = call[s].swept[j] /\ job'[j].result = job[j].result
      BY <1>3, <2>2, SweptRows DEF ToldInv
    <2>4. ResultsStay /\ DoneHas'
      BY <1>3, <2>2, <2>3 DEF ResultsStay, DoneHas, HasIn, ToldInv, Told
    <2>5. Tells(job', c)
      BY <2>1 DEF Tells
    <2> QED
      BY <1>1, <2>1, <2>4, <2>5, ServeTold
  <1> QED
    BY <1>2, <1>3 DEF SweepSave

LEMMA ToldClaimNext ==
  ASSUME ToldInv, NEW s \in Slots, ClaimNext(s)
  PROVE  Told'
  <1>1. call[s] \in Calls /\ call[s].kind = "claim" /\ s[1] \in Watchers /\ UNCHANGED watcher
    BY DEF ClaimNext, ToldInv, TypeInv, TypeOK, Formed, CallFormed
  <1>2. CASE call' = Answered(s, call[s]) /\ UNCHANGED job
    BY <1>1, <1>2, AnsweredTold, SameResults
  <1>3. ASSUME NEW j \in QueuedRows,
               job' = [job EXCEPT ![j].status = "Claimed", ![j].owner = s[1], ![j].fresh = TRUE,
                                  ![j].attempts = @ + 1],
               call' = Answered(s, [call[s] EXCEPT !.job = j])
        PROVE  Told'
    <2> DEFINE c == [call[s] EXCEPT !.job = j]
    <2>1. j \in Jobs /\ job[j].status = "Queued"
      BY DEF QueuedRows
    <2>2. c \in Calls /\ c.kind = "claim" /\ call' = Answered(s, c)
      BY <1>1, <1>3, <2>1 DEF Calls
    <2> HIDE DEF c
    <2>3. job'[j].status = "Claimed" /\ job'[j].result = job[j].result /\ \A i \in Jobs \ {j} : job'[i] = job[i]
      BY <1>1, <1>3, <2>1, ClaimedRow DEF ToldInv
    <2>4. ResultsStay /\ DoneHas'
      BY <2>1, <2>3, OneResult DEF HasIn
    <2> QED
      BY <1>1, <2>2, <2>4, AnsweredTold
  <1> QED
    BY <1>2, <1>3 DEF ClaimNext

\* What the request tells stays told.
LEMMA ReportTells ==
  ASSUME ToldInv, NEW s \in Slots, call[s].at # "free", ResultsStay
  PROVE  /\ call[s] \in Calls
         /\ call[s].kind = "report" /\ call[s].to = "Done" => call[s].result \/ HasIn(job', call[s].job)
  <1>1. call[s] \in Calls /\ CallFormed(s, call[s]) /\ Tells(job, call[s])
    BY DEF ToldInv, Told, TypeInv, TypeOK, Formed
  <1>2. call[s].kind = "report" => call[s].job \in Jobs
    BY <1>1 DEF CallFormed
  <1> QED
    BY <1>1, <1>2 DEF Tells, ResultsStay

LEMMA ToldReportRead ==
  ASSUME ToldInv, NEW s \in Slots, ReportRead(s)
  PROVE  Told'
  <1>1. call[s].at = "sent" /\ call[s].kind = "report" /\ UNCHANGED <<job, watcher>>
    BY DEF ReportRead, Arrived
  <1>2. ResultsStay /\ DoneHas'
    BY <1>1, SameResults
  <1>3. call[s] \in Calls /\ (call[s].to = "Done" => call[s].result \/ HasIn(job', call[s].job))
    BY <1>1, <1>2, ReportTells
  <1>4. CASE call' = Answered(s, call[s])
    BY <1>1, <1>2, <1>3, <1>4, AnsweredTold
  <1>5. CASE call' = Answered(s, [call[s] EXCEPT !.conflict = TRUE])
    <2> DEFINE c == [call[s] EXCEPT !.conflict = TRUE]
    <2>1. /\ c \in Calls /\ c.kind = "report" /\ c.to = call[s].to /\ c.result = call[s].result
          /\ c.job = call[s].job /\ call' = Answered(s, c)
      BY <1>1, <1>3, <1>5 DEF Calls
    <2> HIDE DEF c
    <2> QED
      BY <1>1, <1>2, <1>3, <2>1, AnsweredTold
  <1>6. CASE call' = [call EXCEPT ![s].at = "save", ![s].stop = job[call[s].job].stop]
    <2> DEFINE c == [call[s] EXCEPT !.at = "save", !.stop = job[call[s].job].stop]
    <2>1. call' = [call EXCEPT ![s] = c]
      BY <1>6 DEF ToldInv, TypeInv, TypeOK
    <2>2. c.kind = "report" /\ c.to = call[s].to /\ c.result = call[s].result /\ c.job = call[s].job
      BY <1>1, <1>3 DEF Calls
    <2> HIDE DEF c
    <2>3. Tells(job', c)
      BY <1>3, <2>2 DEF Tells
    <2> QED
      BY <1>1, <1>2, <2>1, <2>3, ServeTold
  <1> QED
    BY <1>4, <1>5, <1>6 DEF ReportRead

LEMMA ToldReportSave ==
  ASSUME ToldInv, NEW s \in Slots, ReportSave(s)
  PROVE  Told'
  <1>0. TypeInv
    BY DEF ToldInv
  <1>1. call[s] \in Calls /\ call[s].at = "save" /\ call[s].kind = "report" /\ call[s].job \in Jobs /\ UNCHANGED watcher
    BY <1>0, ReportSaved
  <1>2. CASE UNCHANGED job /\ call' = Answered(s, [call[s] EXCEPT !.stop = FALSE])
    <2> DEFINE c == [call[s] EXCEPT !.stop = FALSE]
    <2>1. /\ c \in Calls /\ c.kind = "report" /\ c.to = call[s].to /\ c.result = call[s].result
          /\ c.job = call[s].job /\ call' = Answered(s, c)
      BY <1>1, <1>2 DEF Calls
    <2> HIDE DEF c
    <2>2. ResultsStay /\ DoneHas'
      BY <1>2, SameResults
    <2> QED
      BY <1>1, <2>1, <2>2, ReportTells, AnsweredTold
  <1>3. CASE LET c == call[s]  j == c.job IN
               /\ job[j].status # "gone" /\ call' = Answered(s, c)
               /\ RowsStay /\ \A i \in Jobs \ {j} : job'[i] = job[i]
               /\ job'[j].status = (IF c.to = "beat" THEN job[j].status ELSE c.to)
               /\ job'[j].result = (job[j].result \/ c.result)
    <2> DEFINE j == call[s].job
    <2>0. /\ job[j].status # "gone" /\ call' = Answered(s, call[s])
          /\ RowsStay /\ \A i \in Jobs \ {j} : job'[i] = job[i]
          /\ job'[j].status = (IF call[s].to = "beat" THEN job[j].status ELSE call[s].to)
          /\ job'[j].result = (job[j].result \/ call[s].result)
      BY <1>3
    <2>1. HasIn(job, j) => HasIn(job', j)
      BY <1>1, <2>0 DEF HasIn, RowsStay
    <2>2. call[s].to = "Done" => call[s].result \/ job[j].result
      <3>1. Tells(job, call[s])
        BY DEF ToldInv, Told
      <3> QED
        BY <1>1, <2>0, <3>1 DEF Tells, HasIn
    <2>3. job'[j].status = "Done" => job'[j].result
      BY <1>1, <2>0, <2>2 DEF ToldInv, Told, DoneHas
    <2> HIDE DEF j
    <2>4. ResultsStay /\ DoneHas'
      BY <1>1, <2>0, <2>1, <2>3, OneResult DEF j
    <2> QED
      BY <1>1, <2>0, <2>4, ReportTells, AnsweredTold
  <1> QED
    BY <1>0, <1>2, <1>3, ReportSaved

LEMMA ToldPublishRead ==
  ASSUME ToldInv, NEW s \in Slots, PublishRead(s)
  PROVE  Told'
  <1>1. call[s] \in Calls /\ call[s].kind = "publish" /\ UNCHANGED <<job, watcher>>
    BY DEF PublishRead, Arrived, ToldInv, TypeInv, TypeOK
  <1>2. CASE call' = Answered(s, [call[s] EXCEPT !.conflict = TRUE])
    <2> DEFINE c == [call[s] EXCEPT !.conflict = TRUE]
    <2>1. c \in Calls /\ c.kind = "publish" /\ c.conflict = TRUE /\ call' = Answered(s, c)
      BY <1>1, <1>2 DEF Calls
    <2> HIDE DEF c
    <2> QED
      BY <1>1, <2>1, SameResults, AnsweredTold
  <1>3. CASE call' = [call EXCEPT ![s].at = "save"]
    <2> DEFINE c == [call[s] EXCEPT !.at = "save"]
    <2>1. call' = [call EXCEPT ![s] = c] /\ c.kind = "publish" /\ c.at = "save"
      BY <1>1, <1>3 DEF ToldInv, TypeInv, TypeOK, Calls
    <2> HIDE DEF c
    <2>2. Tells(job', c)
      BY <2>1 DEF Tells
    <2> QED
      BY <1>1, <2>1, <2>2, SameResults, ServeTold
  <1> QED
    BY <1>2, <1>3 DEF PublishRead

LEMMA ToldPublishSave ==
  ASSUME ToldInv, NEW s \in Slots, PublishSave(s)
  PROVE  Told'
  <1>0. TypeInv
    BY DEF ToldInv
  <1>1. call[s] \in Calls /\ call[s].at = "save" /\ call[s].kind = "publish" /\ call[s].job \in Jobs /\ UNCHANGED watcher
    BY <1>0, PublishSaved
  <1>2. CASE UNCHANGED job /\ call' = Answered(s, [call[s] EXCEPT !.conflict = TRUE])
    <2> DEFINE c == [call[s] EXCEPT !.conflict = TRUE]
    <2>1. c \in Calls /\ c.kind = "publish" /\ c.conflict = TRUE /\ call' = Answered(s, c)
      BY <1>1, <1>2 DEF Calls
    <2> HIDE DEF c
    <2> QED
      BY <1>1, <1>2, <2>1, SameResults, AnsweredTold
  <1>3. CASE LET c == call[s]  j == c.job IN
               /\ job[j].status # "gone" /\ call' = Answered(s, c)
               /\ RowsStay /\ \A i \in Jobs \ {j} : job'[i] = job[i]
               /\ job'[j].status = job[j].status /\ job'[j].result
    <2> DEFINE j == call[s].job
    <2>1. HasIn(job', j) /\ \A i \in Jobs \ {j} : job'[i] = job[i]
      <3>1. job[j].status # "absent"
        BY <1>1 DEF ToldInv, TypeInv, Formed, CallFormed
      <3> QED
        BY <1>3, <3>1 DEF HasIn
    <2>2. ResultsStay /\ DoneHas'
      BY <1>1, <1>3, <2>1, OneResult
    <2> QED
      BY <1>1, <1>3, <2>1, <2>2, AnsweredTold
  <1> QED
    BY <1>0, <1>2, <1>3, PublishSaved

\* The owner's requests tell nothing.
LEMMA OwnerTold ==
  ASSUME ToldInv, NEW s \in Slots, NEW c, c = Free \/ c.kind \in {"cancel", "delete"},
         call' = [call EXCEPT ![s] = c], UNCHANGED watcher, ResultsStay, DoneHas'
  PROVE  Told'
  <1>1. Tells(job', c)
    BY ConstantTypes DEF Tells
  <1> QED
    BY <1>1, ServeTold

LEMMA ToldOwner ==
  ASSUME ToldInv, NEW s \in Slots, CancelRead(s) \/ DeleteRead(s) \/ DeleteBlobs(s)
  PROVE  Told'
  <1>1. call[s] \in Calls /\ UNCHANGED <<job, watcher>> /\ CallFormed(s, call[s])
    BY DEF CancelRead, DeleteRead, DeleteBlobs, ToldInv, TypeInv, TypeOK, Formed
  <1>2. CASE CancelRead(s)
    <2> DEFINE row == job[call[s].job]
               d == [call[s] EXCEPT !.at = "save", !.to = IF row.status = "Queued" THEN "Cancelled" ELSE "beat"]
               c == IF row.status \in Terminal \cup {"gone"} THEN Free ELSE d
    <2>1. call' = [call EXCEPT ![s] = c]
      BY <1>2 DEF CancelRead
    <2>2. d.kind = "cancel"
      BY <1>1, <1>2 DEF CancelRead, Arrived, Calls
    <2>3. c = Free \/ c.kind = "cancel"
      BY <2>2
    <2> HIDE DEF c
    <2> QED
      BY <1>1, <2>1, <2>3, SameResults, OwnerTold
  <1>3. CASE DeleteRead(s)
    <2> DEFINE row == job[call[s].job]
               d == [call[s] EXCEPT !.at = "blobs", !.result = row.result /\ row.mode # "publish"]
               c == IF MayDelete(row) THEN d ELSE Free
    <2>1. call' = [call EXCEPT ![s] = c]
      BY <1>3 DEF DeleteRead
    <2>2. d.kind = "delete"
      BY <1>1, <1>3 DEF DeleteRead, Arrived, Calls
    <2>3. c = Free \/ c.kind = "delete"
      BY <2>2
    <2> HIDE DEF c
    <2> QED
      BY <1>1, <2>1, <2>3, SameResults, OwnerTold
  <1>4. CASE DeleteBlobs(s)
    <2> DEFINE c == [call[s] EXCEPT !.at = "save"]
    <2>1. call' = [call EXCEPT ![s] = c]
      BY <1>4 DEF DeleteBlobs
    <2>2. c.kind = "delete"
      BY <1>1, <1>4 DEF DeleteBlobs, CallFormed, Calls
    <2> HIDE DEF c
    <2> QED
      BY <1>1, <2>1, <2>2, SameResults, OwnerTold
  <1> QED
    BY <1>2, <1>3, <1>4

LEMMA ToldCancelSave ==
  ASSUME ToldInv, NEW s \in Slots, CancelSave(s)
  PROVE  Told'
  <1>0. TypeInv
    BY DEF ToldInv
  <1>1. call[s].job \in Jobs /\ UNCHANGED watcher /\ call' = [call EXCEPT ![s] = Free] /\ RowsStay
    BY <1>0, CancelSaved
  <1>2. ResultsStay /\ DoneHas'
    <2>1. CASE UNCHANGED job
      BY <2>1, SameResults
    <2>2. CASE LET c == call[s]  j == c.job IN
                 /\ job[j].status # "gone" /\ \A i \in Jobs \ {j} : job'[i] = job[i]
                 /\ job'[j].status = (IF c.to = "Cancelled" THEN c.to ELSE job[j].status)
                 /\ job'[j].result = job[j].result
      BY <1>1, <2>2, OneResult DEF HasIn, RowsStay, ToldInv, Told, DoneHas
    <2> QED
      BY <1>0, <2>1, <2>2, CancelSaved
  <1> QED
    BY <1>1, <1>2, OwnerTold

LEMMA ToldDeleteSave ==
  ASSUME ToldInv, NEW s \in Slots, DeleteSave(s)
  PROVE  Told'
  <1>0. TypeInv
    BY DEF ToldInv
  <1>1. /\ call[s].job \in Jobs /\ UNCHANGED watcher /\ call' = [call EXCEPT ![s] = Free]
        /\ \A i \in Jobs \ {call[s].job} : job'[i] = job[i]
        /\ job'[call[s].job].status = "gone"
    BY <1>0, DeleteSaved
  <1>2. ResultsStay /\ DoneHas'
    BY <1>1, OneResult DEF HasIn
  <1> QED
    BY <1>1, <1>2, OwnerTold

LEMMA ToldServe ==
  ASSUME ToldInv, NEW s \in Slots, Serve(s)
  PROVE  Told'
  BY ToldSweepRead, ToldSweepSave, ToldClaimNext, ToldReportRead, ToldReportSave, ToldPublishRead,
     ToldPublishSave, ToldOwner, ToldCancelSave, ToldDeleteSave
  DEF Serve

\* What the requests tell after a step that leaves the rows alone.
CallsTold == \A t \in Slots : Tells(job, call'[t]) \/ \E u \in Slots : call'[t] = call[u]

LEMMA SetTold ==
  ASSUME ToldInv, NEW s \in Slots, NEW c, Tells(job, c), call' = [call EXCEPT ![s] = c]
  PROVE  CallsTold
  <1>1. \A t \in Slots : call'[t] = (IF t = s THEN c ELSE call[t])
    BY DEF ToldInv, TypeInv, TypeOK
  <1> QED
    BY <1>1 DEF CallsTold

LEMMA WorkTold ==
  ASSUME ToldInv, NEW w \in Watchers, NEW p, UNCHANGED job, watcher' = [watcher EXCEPT ![w] = p],
         Knows(job, p), CallsTold
  PROVE  Told'
  <1>1. \A v \in Watchers : watcher'[v] = (IF v = w THEN p ELSE watcher[v])
    BY DEF ToldInv, TypeInv, TypeOK
  <1>2. \A v \in Watchers : Knows(job', watcher'[v]) \/ watcher'[v] = watcher[v]
    BY <1>1
  <1>3. \A t \in Slots : Tells(job', call'[t]) \/ \E u \in Slots : call'[t] = call[u]
    BY DEF CallsTold
  <1> QED
    BY <1>2, <1>3, ToldFramed, SameResults

\* A watcher that knows nothing of a result.
LEMMA KnowsNothing ==
  ASSUME NEW p, p.pc # "closing" \/ p.out # "result"
  PROVE  Knows(job, p)
  BY DEF Knows

LEMMA SendTold ==
  ASSUME ToldInv, NEW w \in Watchers, NEW c \in Calls, Send(w, c),
         c.kind = "report" /\ c.to = "Done" => c.result \/ HasIn(job, c.job)
  PROVE  CallsTold
  <1> DEFINE d == [c EXCEPT !.at = "sent"]
             s == <<w, "main">>
  <1>1. call' = [call EXCEPT ![s] = d] /\ s \in Slots
    BY SlotTypes DEF Send
  <1>2. d.at = "sent" /\ d.kind = c.kind /\ d.to = c.to /\ d.result = c.result /\ d.job = c.job
    BY DEF Calls
  <1>3. Tells(job, d)
    BY <1>2 DEF Tells
  <1> HIDE DEF d, s
  <1> QED
    BY <1>1, <1>3, SetTold

LEMMA FreeTells == Tells(job, Free) /\ \A w \in Watchers : <<w, "main">> \in Slots /\ <<w, "beat">> \in Slots
  BY ConstantTypes, SlotTypes DEF Tells

LEMMA ToldPoll ==
  ASSUME ToldInv, NEW w \in Watchers, Poll(w)
  PROVE  Told'
  <1> DEFINE p == [Idle EXCEPT !.pc = "claiming"]
  <1>1. UNCHANGED job /\ watcher' = [watcher EXCEPT ![w] = p] /\ Send(w, Free)
    BY DEF Poll, Become
  <1>2. p.pc = "claiming"
    BY ConstantTypes DEF Processes
  <1> HIDE DEF p
  <1>3. Free.kind = "claim" /\ Free \in Calls
    BY ConstantTypes DEF Free
  <1> QED
    BY <1>1, <1>2, <1>3, KnowsNothing, SendTold, WorkTold

\* Its requests, as they are made out.
LEMMA ReportFields ==
  ASSUME TypeInv, NEW w \in Watchers, NEW to \in Active \cup Terminal \cup {"beat"}
  PROVE  /\ Report(w, to) \in Calls /\ Report(w, to).kind = "report" /\ Report(w, to).to = to
         /\ Report(w, to).job = watcher[w].job
  <1>1. watcher[w].job \in Jobs \cup {NoJob}
    BY Worker DEF Processes
  <1> QED
    BY <1>1, ConstantTypes DEF Report, Calls

LEMMA ToldReportStage ==
  ASSUME ToldInv, NEW w \in Watchers, ReportStage(w)
  PROVE  Told'
  <1> DEFINE p == [watcher[w] EXCEPT !.pc = "reporting"]
  <1>0. TypeInv
    BY DEF ToldInv
  <1>1. /\ UNCHANGED job /\ watcher' = [watcher EXCEPT ![w] = p]
        /\ Send(w, Report(w, "Running")) \/ Send(w, Report(w, "Uploading"))
    BY DEF ReportStage, Become
  <1>2. p.pc = "reporting"
    BY <1>0, Worker DEF Processes
  <1> HIDE DEF p
  <1>3. /\ Report(w, "Running") \in Calls /\ Report(w, "Running").to = "Running"
        /\ Report(w, "Uploading") \in Calls /\ Report(w, "Uploading").to = "Uploading"
    BY <1>0, ReportFields DEF Active
  <1>4. CallsTold
    BY <1>1, <1>3, SendTold
  <1> QED
    BY <1>1, <1>2, <1>4, KnowsNothing, WorkTold

\* What a watcher knows when its request is over.
LEMMA AfterKnows ==
  ASSUME ToldInv, NEW w \in Watchers, Main(w).at # "free", NEW c \in Calls, c.kind = Main(w).kind,
         c.job = Main(w).job, c.to = Main(w).to, c.conflict = Main(w).conflict,
         (c.at = Main(w).at /\ c.at = "reply") \/ c.at = "free"
  PROVE  Knows(job, After(w, c))
  <1> DEFINE p == watcher[w]
             a == After(w, c)
  <1>0. /\ p \in Processes /\ WatcherFormed(w, p, Main(w), Beats(w)) /\ CallFormed(<<w, "main">>, Main(w))
        /\ Tells(job, Main(w))
    BY Worker, SlotTypes DEF ToldInv, Told, Main
  <1>1. CASE a.pc # "closing"
    BY <1>1, KnowsNothing
  <1>2. CASE c.kind = "publish"
    <2> DEFINE o == IF c.at = "reply" /\ ~c.conflict THEN p.out ELSE "Failed"
    <2>1. a = Step(p, "closing", o) /\ "closing" \in Steps
      BY <1>0, <1>2 DEF After, Processes, Step, Steps
    <2>2. o \in {"result", "Cancelled", "Failed"} /\ (o = "result" => c.at = "reply" /\ ~c.conflict)
      BY <1>0 DEF Processes
    <2> HIDE DEF o, a
    <2>3. a.out = o /\ a.job = p.job
      BY SMTT(40), <1>0, <2>1, <2>2, Stepped
    <2>4. c.job = p.job
      BY <1>0, <1>2 DEF WatcherFormed
    <2>5. o = "result" => HasIn(job, p.job)
      BY <1>0, <1>2, <2>2, <2>4 DEF Tells
    <2> QED
      BY <2>3, <2>5 DEF Knows, a
  <1>3. CASE a = Idle
    BY <1>3, ConstantTypes, KnowsNothing
  <1>4. CASE c.kind = "claim" /\ c.at = "reply" /\ c.job # NoJob
    <2> DEFINE mode == job[c.job].mode
               todo == Children[mode]
               n == [Idle EXCEPT !.pc = "claimed", !.job = c.job, !.mode = mode, !.todo = todo]
    <2>1. a = n
      BY <1>4 DEF After
    <2> HIDE DEF mode, todo
    <2>2. n.pc = "claimed"
      BY DEF Idle
    <2> QED
      BY <1>1, <2>1, <2>2
  <1>5. CASE c.kind = "report" /\ c.to = "Running" /\ ~(c.at = "reply" /\ c.conflict)
    <2> DEFINE q == IF c.at = "reply" THEN Observed(p, c) ELSE p
    <2>1. q \in Processes
      BY <1>0, ObservedForm
    <2>3. a = [q EXCEPT !.pc = "running"]
      BY <1>5 DEF After
    <2> HIDE DEF q, a
    <2>4. a.pc = "running"
      BY <2>1, <2>3 DEF Processes
    <2> QED
      BY <1>1, <2>4
  <1>6. CASE c.kind = "report" /\ c.to = "Uploading"
    <2>1. a = [p EXCEPT !.pc = "uploading"]
      BY <1>6 DEF After
    <2> HIDE DEF a
    <2>2. a.pc = "uploading"
      BY <1>0, <2>1 DEF Processes
    <2> QED
      BY <1>1, <2>2
  <1>7. a = Idle \/ (c.kind = "claim" /\ c.at = "reply" /\ c.job # NoJob) \/ c.kind = "publish"
        \/ (c.kind = "report" /\ c.to = "Running" /\ ~(c.at = "reply" /\ c.conflict))
        \/ (c.kind = "report" /\ c.to = "Uploading")
    <2>1. c.kind \in {"claim", "report", "publish"}
      BY <1>0, SlotTypes DEF CallFormed, Calls
    <2> QED
      BY <2>1 DEF After
  <1> QED
    BY <1>2, <1>3, <1>4, <1>5, <1>6, <1>7

LEMMA ToldReceive ==
  ASSUME ToldInv, NEW w \in Watchers, Receive(w)
  PROVE  Told'
  <1>0. TypeInv
    BY DEF ToldInv
  <1>1. /\ Main(w).at = "reply" /\ UNCHANGED job
        /\ watcher' = [watcher EXCEPT ![w] = After(w, Main(w))]
        /\ call' = [call EXCEPT ![<<w, "main">>] = Free]
    BY DEF Receive, Leaves, Become, Main
  <1>2. Knows(job, After(w, Main(w)))
    BY <1>0, <1>1, Worker, AfterKnows
  <1>3. CallsTold
    BY <1>1, FreeTells, SetTold
  <1> QED
    BY <1>1, <1>2, <1>3, WorkTold

LEMMA ToldLose ==
  ASSUME ToldInv, NEW w \in Watchers, Lose(w) \/ GiveUp(w)
  PROVE  Told'
  <1>0. TypeInv
    BY DEF ToldInv
  <1> DEFINE e == Ended(Main(w))
             a == After(w, e)
  <1>1. Main(w).at # "free" /\ UNCHANGED job /\ watcher' = [watcher EXCEPT ![w] = a]
    BY DEF Lose, GiveUp, Leaves, Become, Main, Ended
  <1>2. /\ e \in Calls /\ e.at = "free" /\ e.kind = Main(w).kind /\ e.job = Main(w).job /\ e.to = Main(w).to
        /\ e.conflict = Main(w).conflict
    BY <1>0, Worker, EndedForm
  <1> HIDE DEF e
  <1>3. Knows(job, a)
    BY <1>1, <1>2, AfterKnows
  <1> HIDE DEF a
  <1> DEFINE M == <<w, "main">>
             L == <<w, "late">>
  <1>4. M \in Slots /\ L \in Slots /\ M # L /\ call \in [Slots -> Calls] /\ Tells(job, Free)
    BY <1>0, SlotTypes, FreeTells DEF TypeInv, TypeOK
  <1>5. call' = [call EXCEPT ![M] = Free] \/ call' = [call EXCEPT ![M] = Free, ![L] = call[M]]
    BY DEF Lose, GiveUp
  <1> HIDE DEF M, L
  <1>6. CallsTold
    BY <1>4, <1>5 DEF CallsTold
  <1> QED
    BY <1>1, <1>3, <1>6, WorkTold

LEMMA ToldCrash ==
  ASSUME ToldInv, NEW w \in Watchers, LoseBeat(w) \/ Crash(w)
  PROVE  Told'
  <1>0. TypeInv
    BY DEF ToldInv
  <1> DEFINE M == <<w, "main">>
             B == <<w, "beat">>
             L == <<w, "late">>
  <1>1. M \in Slots /\ B \in Slots /\ L \in Slots /\ call \in [Slots -> Calls] /\ Tells(job, Free)
    BY <1>0, SlotTypes, FreeTells DEF TypeInv, TypeOK
  <1>2. \A t \in Slots : call'[t] \in {Free, call[t], call[M], call[B]}
    <2>1. CASE LoseBeat(w)
      <3>1. PICK kept \in {Free, call[B]} :
              call' = [call EXCEPT ![B] = Free, ![L] = IF kept = Free THEN @ ELSE kept]
        BY <2>1 DEF LoseBeat
      <3> HIDE DEF M, B, L
      <3>2. CASE kept = Free
        BY <1>1, <3>1, <3>2
      <3>3. CASE kept # Free
        BY <1>1, <3>1, <3>3
      <3> QED
        BY <3>2, <3>3
    <2>2. CASE Crash(w)
      <3>1. PICK kept \in {Free, call[M]} :
              call' = [call EXCEPT ![M] = Free, ![B] = Free, ![L] = IF kept = Free THEN @ ELSE kept]
        BY <2>2 DEF Crash
      <3> HIDE DEF M, B, L
      <3>2. CASE kept = Free
        BY <1>1, <3>1, <3>2
      <3>3. CASE kept # Free
        BY <1>1, <3>1, <3>3
      <3> QED
        BY <3>2, <3>3
    <2> QED
      BY <2>1, <2>2
  <1>3. CallsTold
    <2> HIDE DEF M, B, L
    <2> QED
      BY <1>1, <1>2 DEF CallsTold
  <1>4. CASE LoseBeat(w)
    <2>1. UNCHANGED <<job, watcher>>
      BY <1>4 DEF LoseBeat
    <2>2. watcher' = [watcher EXCEPT ![w] = watcher[w]] /\ Knows(job, watcher[w])
      BY <2>1 DEF ToldInv, Told, TypeInv, TypeOK
    <2> QED
      BY <1>3, <2>1, <2>2, WorkTold
  <1>5. CASE Crash(w)
    <2> DEFINE d == [Idle EXCEPT !.pc = "down"]
    <2>1. watcher' = [watcher EXCEPT ![w] = d] /\ UNCHANGED job
      BY <1>5 DEF Crash, Become
    <2>2. d.pc = "down"
      BY ConstantTypes DEF Processes
    <2> HIDE DEF d
    <2> QED
      BY <1>3, <2>1, <2>2, KnowsNothing, WorkTold
  <1> QED
    BY <1>4, <1>5

\* A handler that raises, or goes on, knows nothing of a result yet.
LEMMA ToldChildren ==
  ASSUME ToldInv, NEW w \in Watchers,
         ChildSucceeds(w) \/ ChildFails(w) \/ UploadFails(w) \/ ApplyStop(w) \/ EngineStops(w) \/ Restart(w)
  PROVE  Told'
  <1>0. TypeInv
    BY DEF ToldInv
  <1> DEFINE q == watcher[w]
  <1>1. UNCHANGED <<job, call>> /\ CallsTold
    BY DEF ChildSucceeds, ChildFails, UploadFails, ApplyStop, EngineStops, Restart, CallsTold
  <1>2. /\ q \in Processes /\ Noticed(q) \in Processes /\ Noticed(q).todo = q.todo /\ Noticed(q).pc = q.pc
        /\ Noticed(q).mode = q.mode
        /\ q.pc \in {"running", "stopping"} => q.todo # <<>>
        /\ q.mode \in Asking => \A i \in 1..Len(q.todo) : q.todo[i] \in AskingChildren
    BY <1>0, Worker, NoticedForm DEF WatcherFormed
  <1>3. ASSUME NEW p \in Processes, p.todo # <<>>,
               p.mode \in Asking => \A i \in 1..Len(p.todo) : p.todo[i] \in AskingChildren
        PROVE  Knows(job, Advanced(p))
    <2>1. Advanced(p).pc = "closing" => Advanced(p).out = "Cancelled"
      BY <1>3, AdvancedForm
    <2> QED
      BY <2>1, KnowsNothing
  <1>4. ASSUME NEW p \in Processes, NEW out \in {"Cancelled", "Failed"}
        PROVE  Knows(job, Raised(p, out))
    <2>1. Raised(p, out).out = out
      BY DEF Raised, Processes
    <2> QED
      BY <2>1, KnowsNothing
  <1>5. \A p : Missing(p) \in {"Cancelled", "Failed"}
    BY DEF Missing
  <1>6. \E n : watcher' = [watcher EXCEPT ![w] = n] /\ Knows(job, n)
    <2>1. CASE ChildSucceeds(w)
      <3>1. q.pc = "running" /\ watcher' = [watcher EXCEPT ![w] = Advanced(q)]
        BY <2>1 DEF ChildSucceeds, Become
      <3> QED
        BY <1>2, <1>3, <3>1
    <2>2. CASE ChildFails(w)
      <3>1. PICK out \in {Missing(q), "Failed"} : watcher' = [watcher EXCEPT ![w] = Raised(q, out)]
        BY <2>2 DEF ChildFails, Become
      <3> QED
        BY <1>2, <1>4, <1>5, <3>1
    <2>3. CASE UploadFails(w)
      <3>1. watcher' = [watcher EXCEPT ![w] = Raised(q, "Failed")]
        BY <2>3 DEF UploadFails, Become
      <3> QED
        BY <1>2, <1>4, <3>1
    <2>4. CASE EngineStops(w)
      <3>1. q.pc = "stopping" /\ \/ watcher' = [watcher EXCEPT ![w] = Advanced(q)]
                                 \/ watcher' = [watcher EXCEPT ![w] = Raised(q, Missing(q))]
        BY <2>4 DEF EngineStops, Become
      <3> QED
        BY <1>2, <1>3, <1>4, <1>5, <3>1
    <2>5. CASE ApplyStop(w)
      <3> DEFINE p == Noticed(q)
      <3>1. q.pc = "running" /\ \/ watcher' = [watcher EXCEPT ![w] = [p EXCEPT !.pc = "stopping"]]
                                \/ watcher' = [watcher EXCEPT ![w] = Advanced(p)]
                                \/ watcher' = [watcher EXCEPT ![w] = Raised(p, Missing(p))]
        BY <2>5 DEF ApplyStop, Become, Noticed
      <3>2. p \in Processes /\ p.todo # <<>> /\ (p.mode \in Asking => \A i \in 1..Len(p.todo) : p.todo[i] \in AskingChildren)
        BY <1>2, <3>1
      <3> HIDE DEF p
      <3>3. Knows(job, [p EXCEPT !.pc = "stopping"])
        BY <3>2, KnowsNothing DEF Processes
      <3> QED
        BY <1>3, <1>4, <1>5, <3>1, <3>2, <3>3
    <2>6. CASE Restart(w)
      <3>1. watcher' = [watcher EXCEPT ![w] = Idle] /\ Knows(job, Idle)
        BY <2>6, ConstantTypes, KnowsNothing DEF Restart, Become
      <3> QED
        BY <3>1
    <2> QED
      BY <2>1, <2>2, <2>3, <2>4, <2>5, <2>6
  <1> QED
    BY <1>1, <1>6, WorkTold

LEMMA ToldHear ==
  ASSUME ToldInv, NEW w \in Watchers, Hear(w)
  PROVE  Told'
  <1>0. TypeInv
    BY DEF ToldInv
  <1> DEFINE p == Observed(watcher[w], Beats(w))
  <1>1. UNCHANGED job /\ watcher' = [watcher EXCEPT ![w] = p] /\ call' = [call EXCEPT ![<<w, "beat">>] = Free]
    BY DEF Hear, Become, Beats
  <1>2. p.pc = watcher[w].pc /\ p.out = watcher[w].out /\ p.job = watcher[w].job /\ p.mode = watcher[w].mode
    BY <1>0, Worker, ObservedForm
  <1> HIDE DEF p
  <1>3. Knows(job, p)
    BY <1>2 DEF Knows, ToldInv, Told
  <1>4. CallsTold
    BY <1>1, FreeTells, SetTold
  <1> QED
    BY <1>1, <1>3, <1>4, WorkTold

LEMMA ToldBeat ==
  ASSUME ToldInv, NEW w \in Watchers, Beat(w)
  PROVE  Told'
  <1>0. TypeInv
    BY DEF ToldInv
  <1> DEFINE c == Report(w, "beat")
             d == [c EXCEPT !.at = "sent"]
             s == <<w, "beat">>
  <1>1. call' = [call EXCEPT ![s] = d] /\ s \in Slots /\ UNCHANGED <<job, watcher>>
    BY SlotTypes DEF Beat
  <1>2. c \in Calls /\ c.kind = "report" /\ c.to = "beat"
    BY <1>0, ReportFields
  <1> HIDE DEF c
  <1>3. d.kind = "report" /\ d.to = "beat"
    BY <1>2 DEF Calls
  <1> HIDE DEF d, s
  <1>4. CallsTold
    BY <1>1, <1>3, SetTold DEF Tells
  <1>5. watcher' = [watcher EXCEPT ![w] = watcher[w]] /\ Knows(job, watcher[w])
    BY <1>1 DEF ToldInv, Told, TypeInv, TypeOK
  <1> QED
    BY <1>1, <1>4, <1>5, WorkTold

LEMMA ToldUpload ==
  ASSUME ToldInv, NEW w \in Watchers, Upload(w)
  PROVE  Told'
  <1>0. TypeInv
    BY DEF ToldInv
  <1> DEFINE q == watcher[w]
  <1>1. q \in Processes /\ UNCHANGED job
    BY <1>0, Worker DEF Upload
  <1>2. ASSUME q.mode # "publish", watcher' = [watcher EXCEPT ![w] = [q EXCEPT !.pc = "closing"]], UNCHANGED call
        PROVE  Told'
    <2> DEFINE p == [q EXCEPT !.pc = "closing"]
    <2>1. p.mode # "publish"
      BY <1>1, <1>2 DEF Processes
    <2> HIDE DEF p
    <2>2. Knows(job, p)
      BY <2>1 DEF Knows
    <2>3. CallsTold
      BY <1>2 DEF CallsTold
    <2> QED
      BY <1>1, <1>2, <2>2, <2>3, WorkTold DEF p
  <1>3. ASSUME Send(w, [Free EXCEPT !.kind = "publish", !.job = q.job]),
               watcher' = [watcher EXCEPT ![w] = [q EXCEPT !.pc = "reporting"]]
        PROVE  Told'
    <2> DEFINE p == [q EXCEPT !.pc = "reporting"]
               c == [Free EXCEPT !.kind = "publish", !.job = q.job]
    <2>1. p.pc = "reporting"
      BY <1>1 DEF Processes
    <2>2. c \in Calls /\ c.kind = "publish"
      BY <1>1, ConstantTypes DEF Calls, Processes
    <2> HIDE DEF p, c
    <2>3. CallsTold
      BY <1>3, <2>2, SendTold DEF c
    <2> QED
      BY <1>1, <1>3, <2>1, <2>3, KnowsNothing, WorkTold DEF p
  <1> QED
    BY <1>2, <1>3 DEF Upload, Become

LEMMA ToldClose ==
  ASSUME ToldInv, NEW w \in Watchers, Close(w)
  PROVE  Told'
  <1>0. TypeInv
    BY DEF ToldInv
  <1> DEFINE q == watcher[w]
             p == [q EXCEPT !.pc = "reporting"]
  <1>1. q \in Processes /\ UNCHANGED job /\ q.pc = "closing" /\ watcher' = [watcher EXCEPT ![w] = p] /\ Knows(job, q)
    BY <1>0, Worker DEF Close, Become, ToldInv, Told
  <1>2. p.pc = "reporting"
    BY <1>1 DEF Processes
  <1> HIDE DEF p
  <1>3. CASE q.out = "result"
    <2> DEFINE to == TerminalStatus(q)
               res == q.mode # "publish"
               r == Report(w, to)
               c == [r EXCEPT !.result = res]
    <2>1. Send(w, c)
      BY <1>1, <1>3 DEF Close
    <2>2. to \in Active \cup Terminal \cup {"beat"}
      BY DEF TerminalStatus, Terminal
    <2>3. r \in Calls /\ r.job = q.job
      BY <1>0, <2>2, ReportFields
    <2> HIDE DEF r
    <2>4. c \in Calls /\ c.result = (q.mode # "publish") /\ c.job = q.job
      BY <2>3 DEF Calls
    <2> HIDE DEF c
    <2>5. c.result \/ HasIn(job, c.job)
      BY <1>1, <1>3, <2>4 DEF Knows
    <2>6. CallsTold
      BY <2>1, <2>4, <2>5, SendTold
    <2> QED
      BY <1>1, <1>2, <2>6, KnowsNothing, WorkTold
  <1>4. CASE q.out # "result"
    <2> DEFINE c == Report(w, q.out)
    <2>1. Send(w, c)
      BY <1>1, <1>4 DEF Close
    <2>2. q.out \in {"Cancelled", "Failed"} /\ q.out \in Active \cup Terminal \cup {"beat"}
      BY <1>1, <1>4 DEF Processes, Terminal
    <2>3. c \in Calls /\ c.to = q.out
      BY <1>0, <2>2, ReportFields
    <2> HIDE DEF c
    <2>4. CallsTold
      BY <2>1, <2>2, <2>3, SendTold
    <2> QED
      BY <1>1, <1>2, <2>4, KnowsNothing, WorkTold
  <1> QED
    BY <1>3, <1>4

LEMMA ToldElsewhere ==
  ASSUME ToldInv,
         \/ \E j \in Jobs : AgeOut(j) \/ \E mode \in Modes : Create(j, mode)
         \/ \E u \in Users : Abort(u) \/ \E kind \in {"cancel", "delete"}, j \in Jobs : Ask(u, kind, j)
  PROVE  Told'
  <1>0. TypeInv
    BY DEF ToldInv
  <1>1. ASSUME NEW j \in Jobs, AgeOut(j) PROVE Told'
    <2>1. /\ \A i \in Jobs \ {j} : job'[i] = job[i]
          /\ job'[j].status = job[j].status /\ job'[j].result = job[j].result
      BY <1>0, <1>1, Aged
    <2>2. ResultsStay /\ DoneHas'
      BY <2>1, OneResult DEF HasIn, ToldInv, Told, DoneHas
    <2>3. /\ \A t \in Slots : \E u \in Slots : call'[t] = call[u]
          /\ \A w \in Watchers : watcher'[w] = watcher[w]
      BY <1>1 DEF AgeOut
    <2> QED
      BY <2>2, <2>3, ToldFramed
  <1>2. ASSUME NEW j \in Jobs, NEW mode \in Modes, Create(j, mode) PROVE Told'
    <2>1. /\ \A i \in Jobs \ {j} : job'[i] = job[i]
          /\ job[j].status = "absent" /\ job'[j].status = "Queued"
      BY <1>0, <1>2, Created
    <2>2. ResultsStay /\ DoneHas'
      BY <2>1, OneResult DEF HasIn
    <2>3. /\ \A t \in Slots : \E u \in Slots : call'[t] = call[u]
          /\ \A w \in Watchers : watcher'[w] = watcher[w]
      BY <1>2 DEF Create
    <2> QED
      BY <2>2, <2>3, ToldFramed
  <1>3. ASSUME NEW u \in Users, Abort(u) PROVE Told'
    BY <1>3, SlotTypes, SameResults, OwnerTold DEF Abort
  <1>4. ASSUME NEW u \in Users, NEW kind \in {"cancel", "delete"}, NEW j \in Jobs, Ask(u, kind, j)
        PROVE  Told'
    <2> DEFINE c == [Free EXCEPT !.at = "sent", !.kind = kind, !.job = j]
    <2>1. c.kind \in {"cancel", "delete"}
      BY ConstantTypes DEF Calls
    <2>2. call' = [call EXCEPT ![<<u, "main">>] = c] /\ UNCHANGED <<job, watcher>> /\ <<u, "main">> \in Slots
      BY <1>4, SlotTypes DEF Ask
    <2> HIDE DEF c
    <2> QED
      BY <2>1, <2>2, SameResults, OwnerTold
  <1> QED
    BY <1>1, <1>2, <1>3, <1>4

LEMMA ToldInductive ==
  ASSUME ToldInv, [Next]_vars
  PROVE  ToldInv'
  <1>0. TypeInv'
    BY TypeInductive DEF ToldInv
  <1>1. CASE UNCHANGED vars
    BY <1>0, <1>1 DEF vars, ToldInv, Told, DoneHas, Tells, Knows, HasIn
  <1>2. ASSUME NEW w \in Watchers, Work(w) \/ ChildSucceeds(w) \/ Beat(w) \/ Hear(w) \/ Fault(w)
        PROVE  Told'
    BY <1>2, ToldPoll, ToldReportStage, ToldReceive, ToldLose, ToldCrash, ToldChildren, ToldHear, ToldBeat,
       ToldUpload, ToldClose
    DEF Work, Fault
  <1>3. CASE Next
    BY <1>0, <1>2, <1>3, ToldServe, ToldElsewhere DEF Next, ToldInv
  <1> QED
    BY <1>1, <1>3

LEMMA ToldInitially ==
  ASSUME Init
  PROVE  ToldInv
  <1>1. TypeInv
    BY TypeInitially
  <1>2. \A j \in Jobs : job[j].status = "absent"
    BY DEF Init, Absent
  <1>3. \A s \in Slots : call[s].at = "free"
    BY ConstantTypes DEF Init
  <1>4. \A w \in Watchers : watcher[w].pc = "idle"
    BY ConstantTypes DEF Init
  <1> QED
    BY <1>1, <1>2, <1>3, <1>4 DEF ToldInv, Told, DoneHas, Tells, Knows

-----------------------------------------------------------------------------
(* While nothing has failed: what a watcher is at, its row and its result.     *)

\* The last report of a job has been answered.
OverAs(c) == c.at = "reply" /\ c.kind = "report" /\ c.to \in Terminal

\* A watcher with process p and request c has job j.
HasJob(p, c, j) == \/ p.pc = "claiming" /\ c.at = "reply" /\ c.job = j
                   \/ p.pc \notin OffWork /\ p.job = j /\ ~OverAs(c)

\* It has uploaded the result and has yet to say so.
Brings(p, c) == \/ p.pc = "closing" /\ p.out = "result"
                \/ p.pc = "reporting" /\ c.kind = "report" /\ c.to \in Terminal /\ c.result

\* What the row of a watcher's job says, and whether its result is in storage,
\* follows from what the watcher is at.
Fits(w, p, c, row, in) ==
  /\ row.owner = w /\ row.status \in Active
  /\ p.pc = "claimed" => row.status = "Claimed"
  /\ p.pc \in {"running", "stopping", "solved"} => row.status = "Running"
  /\ p.pc = "uploading" => row.status = "Uploading"
  /\ p.pc = "closing" /\ p.out = "result" => row.status = "Uploading" /\ in
  /\ p.pc = "reporting" /\ c.kind = "publish" =>
       row.status = "Uploading" /\ (c.at \in {"save", "reply"} => in)
  /\ p.pc = "reporting" /\ c.kind = "report" /\ c.to = "Done" => row.status = "Uploading" /\ in
  /\ p.pc = "reporting" /\ c.kind = "report" /\ c.to \in Active =>
       row.status = IF c.at = "reply" THEN c.to ELSE IF c.to = "Running" THEN "Claimed" ELSE "Running"

\* No failure is on its way, of a mode that tells a stop from a failure.
Clean(p, c) == p.mode \in Asking => /\ p.out # "Failed"
                                    /\ p.pc = "reporting" /\ c.kind = "report" => c.to # "Failed"

WorkerFine(rows, blobs, w, p, c) ==
  /\ ~c.conflict
  /\ c.at = "reply" /\ c.kind = "claim" /\ c.job # NoJob =>
       rows[c.job].status = "Claimed" /\ rows[c.job].owner = w
  /\ p.pc = "reporting" /\ c.kind = "report" => c.to # "Claimed"
  /\ p.pc \notin OffWork => /\ rows[p.job].mode = p.mode /\ Clean(p, c)
                            /\ ~OverAs(c) => Fits(w, p, c, rows[p.job], p.job \in blobs)

\* An active row has its watcher at work; no row has failed; a result in storage
\* is brought by its watcher or told by its row; one that a row tells of is there.
MainOf(calls, w) == calls[<<w, "main">>]
DeletingIn(calls, j) == \E u \in Users : LET c == MainOf(calls, u) IN
  c.at = "save" /\ c.kind = "delete" /\ c.job = j
Owned(row, in, p, c, j) == row.status \in Active =>
  /\ row.fresh /\ row.owner \in Watchers /\ HasJob(p, c, j)
  /\ in /\ row.mode # "publish" => Brings(p, c)
Kept(row, in) ==
  /\ row.mode \in Asking => row.status # "Failed"
  /\ in => row.status # "absent"
  /\ in /\ row.mode # "publish" => /\ row.status \in Active \cup Terminal
                                   /\ row.status \in Terminal => row.result
RowFine(row, in, deleting, p, c, j) ==
  /\ Owned(row, in, p, c, j)
  /\ Kept(row, in)
  /\ row.status = "Done" /\ ~in => deleting

\* A result that a deletion has taken away stays away.
TakenAway(blobs, c) == c.at = "save" /\ c.kind = "delete" /\ c.result => c.job \notin blobs

WorkersFine == \A w \in Watchers : WorkerFine(job, blob, w, watcher[w], MainOf(call, w))
RowsFine == \A j \in Jobs :
  RowFine(job[j], j \in blob, DeletingIn(call, j), watcher[job[j].owner], MainOf(call, job[j].owner), j)
Fine == /\ \A w \in Watchers : call[<<w, "late">>] = Free
        /\ \A s \in Slots : TakenAway(blob, call[s])
        /\ WorkersFine
        /\ RowsFine

FaultFree == faults = 0 => Fine
ResultsInv == SerialInv /\ ToldInv /\ FaultFree

FineInv == SerialInv /\ ToldInv /\ Fine

LEMMA FineWorker ==
  ASSUME FineInv, NEW w \in Watchers
  PROVE  /\ watcher[w] \in Processes /\ MainOf(call, w) \in Calls /\ Beats(w) \in Calls
         /\ WatcherFormed(w, watcher[w], MainOf(call, w), Beats(w))
         /\ CallFormed(<<w, "main">>, MainOf(call, w))
         /\ WorkerFine(job, blob, w, watcher[w], MainOf(call, w))
         /\ MainOf(call, w) = call[<<w, "main">>] /\ TypeInv
         /\ watcher[w].pc \notin {"claiming", "reporting"} => MainOf(call, w).at = "free"
  <1>1. TypeInv /\ MainOf(call, w) = Main(w) /\ MainOf(call, w) = call[<<w, "main">>]
    BY DEF FineInv, ToldInv, MainOf, Main
  <1>2. WorkerFine(job, blob, w, watcher[w], MainOf(call, w))
    BY DEF FineInv, Fine, WorkersFine
  <1> QED
    BY <1>1, <1>2, Worker

LEMMA SlotSet ==
  ASSUME FineInv, NEW s \in Slots, NEW c, call' = [call EXCEPT ![s] = c]
  PROVE  /\ call'[s] = c /\ \A t \in Slots \ {s} : call'[t] = call[t]
         /\ \A w \in Watchers : MainOf(call', w) = IF s = <<w, "main">> THEN c ELSE MainOf(call, w)
         /\ \A u \in Users : MainOf(call', u) = IF s = <<u, "main">> THEN c ELSE MainOf(call, u)
  <1>1. call'[s] = c /\ \A t \in Slots \ {s} : call'[t] = call[t]
    BY DEF FineInv, ToldInv, TypeInv, TypeOK
  <1>2. ASSUME NEW w \in Watchers
        PROVE  MainOf(call', w) = IF s = <<w, "main">> THEN c ELSE MainOf(call, w)
    <2> DEFINE t == <<w, "main">>
    <2>1. t \in Slots /\ MainOf(call', w) = call'[t] /\ MainOf(call, w) = call[t]
      BY SlotTypes DEF MainOf
    <2> HIDE DEF t
    <2> QED
      BY <1>1, <2>1 DEF t
  <1>3. ASSUME NEW u \in Users
        PROVE  MainOf(call', u) = IF s = <<u, "main">> THEN c ELSE MainOf(call, u)
    <2> DEFINE t == <<u, "main">>
    <2>1. t \in Slots /\ MainOf(call', u) = call'[t] /\ MainOf(call, u) = call[t]
      BY SlotTypes DEF MainOf
    <2> HIDE DEF t
    <2> QED
      BY <1>1, <2>1 DEF t
  <1> QED
    BY <1>1, <1>2, <1>3

\* A step of the watcher w, or of the API on a request of its, which leaves the
\* rows alone: of the requests only its own change.
OnlyMine(w, m) ==
  /\ MainOf(call', w) = m
  /\ \A v \in Watchers \ {w} : MainOf(call', v) = MainOf(call, v)
  /\ \A u \in Users : MainOf(call', u) = MainOf(call, u)
  /\ \A v \in Watchers : call'[<<v, "late">>] = Free
  /\ \A t \in Slots : call'[t] = call[t] \/ call'[t].kind # "delete"
Grown(w) == /\ \A i \in blob : i \in blob'
            /\ \A i \in blob' : i \notin blob => i \in Jobs /\ job[i].status \in Active /\ job[i].owner = w
Keeps(w, q, m) == \A j \in Jobs : job[j].owner = w /\ HasJob(watcher[w], MainOf(call, w), j) =>
  /\ HasJob(q, m, j)
  /\ j \in blob' /\ job[j].mode # "publish" =>
       Brings(q, m) \/ (j \in blob /\ ~Brings(watcher[w], MainOf(call, w)))

LEMMA WorkFine ==
  ASSUME FineInv, NEW w \in Watchers, NEW q, NEW m, UNCHANGED job, watcher' = [watcher EXCEPT ![w] = q],
         OnlyMine(w, m), Grown(w), WorkerFine(job, blob', w, q, m), Keeps(w, q, m)
  PROVE  Fine'
  <1>1. \A v \in Watchers : watcher'[v] = (IF v = w THEN q ELSE watcher[v])
    BY DEF FineInv, ToldInv, TypeInv, TypeOK
  <1>2. \A v \in Watchers : MainOf(call', v) = (IF v = w THEN m ELSE MainOf(call, v))
    BY DEF OnlyMine
  <1>3. ASSUME NEW s \in Slots PROVE TakenAway(blob', call'[s])
    <2>1. CASE call'[s].kind # "delete"
      BY <2>1 DEF TakenAway
    <2>2. CASE call'[s] = call[s]
      <3>1. TakenAway(blob, call[s]) /\ CurrentIn(job, s, call[s])
        BY DEF FineInv, Fine, SerialInv, Current, CurrentAt
      <3>2. ~\E x \in Active : x \in Terminal
        BY DEF Active, Terminal
      <3> QED
        BY <2>2, <3>1, <3>2 DEF TakenAway, CurrentIn, Grown
    <2> QED
      BY <2>1, <2>2 DEF OnlyMine
  <1>4. ASSUME NEW v \in Watchers PROVE WorkerFine(job', blob', v, watcher'[v], MainOf(call', v))
    <2>1. CASE v = w
      BY <1>1, <1>2, <2>1
    <2>2. CASE v # w
      <3>1. WorkerFine(job, blob, v, watcher[v], MainOf(call, v))
        BY FineWorker
      <3>2. watcher'[v] = watcher[v] /\ MainOf(call', v) = MainOf(call, v)
        BY <1>1, <1>2, <2>2
      <3>3. WorkerFine(job, blob', v, watcher[v], MainOf(call, v))
        BY <3>1 DEF WorkerFine, Fits, Grown
      <3> QED
        BY <3>2, <3>3
    <2> QED
      BY <2>1, <2>2
  <1>5. ASSUME NEW j \in Jobs
        PROVE  RowFine(job[j], j \in blob', DeletingIn(call', j), watcher'[job[j].owner],
                       MainOf(call', job[j].owner), j)
    <2> DEFINE row == job[j]
               v == row.owner
    <2>1. RowFine(row, j \in blob, DeletingIn(call, j), watcher[v], MainOf(call, v), j)
      BY DEF FineInv, Fine, RowsFine
    <2>2. DeletingIn(call', j) <=> DeletingIn(call, j)
      BY DEF DeletingIn, OnlyMine
    <2> HIDE DEF v, row
    <2>3. (j \in blob => j \in blob') /\ (j \in blob' /\ j \notin blob => row.status \in Active /\ v = w)
      BY DEF Grown, v, row
    <2>4. Kept(row, j \in blob') /\ (row.status = "Done" /\ j \notin blob' => DeletingIn(call', j))
      <3>1. Kept(row, j \in blob) /\ (row.status = "Done" /\ j \notin blob => DeletingIn(call, j))
        BY <2>1 DEF RowFine
      <3>2. row.status \in Active => row.status \notin Terminal \cup {"absent"}
        BY DEF Active, Terminal
      <3>3. Kept(row, j \in blob')
        BY <2>3, <3>1, <3>2 DEF Kept
      <3> QED
        BY <2>2, <2>3, <3>1, <3>3
    <2>5. Owned(row, j \in blob', watcher'[v], MainOf(call', v), j)
      <3> SUFFICES ASSUME row.status \in Active
                   PROVE  /\ row.fresh /\ v \in Watchers
                          /\ HasJob(watcher'[v], MainOf(call', v), j)
                          /\ j \in blob' /\ row.mode # "publish" => Brings(watcher'[v], MainOf(call', v))
        BY DEF Owned, v
      <3>1. /\ row.fresh /\ v \in Watchers /\ HasJob(watcher[v], MainOf(call, v), j)
            /\ j \in blob /\ row.mode # "publish" => Brings(watcher[v], MainOf(call, v))
        BY <2>1 DEF RowFine, Owned, v
      <3>2. CASE v # w
        <4>1. watcher'[v] = watcher[v] /\ MainOf(call', v) = MainOf(call, v)
          BY <1>1, <1>2, <3>1, <3>2
        <4> QED
          BY <2>3, <3>1, <3>2, <4>1
      <3>3. CASE v = w
        <4>1. watcher'[v] = q /\ MainOf(call', v) = m
          BY <1>1, <1>2, <3>3
        <4> QED
          BY <3>1, <3>3, <4>1 DEF Keeps, v, row
      <3> QED
        BY <3>2, <3>3
    <2> QED
      BY <2>4, <2>5 DEF RowFine, row, v
  <1>6. WorkersFine' /\ RowsFine'
    BY <1>4, <1>5 DEF WorkersFine, RowsFine
  <1>7. (\A v \in Watchers : call[<<v, "late">>] = Free)' /\ (\A s \in Slots : TakenAway(blob, call[s]))'
    BY <1>3 DEF OnlyMine
  <1> QED
    BY <1>6, <1>7 DEF Fine

LEMMA MineMain ==
  ASSUME FineInv, NEW w \in Watchers, NEW m, m.kind # "delete", call' = [call EXCEPT ![<<w, "main">>] = m]
  PROVE  OnlyMine(w, m)
  <1> DEFINE s == <<w, "main">>
  <1>1. s \in Slots /\ call' = [call EXCEPT ![s] = m]
    BY SlotTypes
  <1>2. /\ \A v \in Watchers : <<v, "late">> \in Slots \ {s} /\ (v # w => s # <<v, "main">>)
        /\ \A u \in Users : s # <<u, "main">>
    BY SlotTypes
  <1> HIDE DEF s
  <1>3. /\ call'[s] = m /\ \A t \in Slots \ {s} : call'[t] = call[t]
        /\ \A v \in Watchers : MainOf(call', v) = IF s = <<v, "main">> THEN m ELSE MainOf(call, v)
        /\ \A u \in Users : MainOf(call', u) = IF s = <<u, "main">> THEN m ELSE MainOf(call, u)
    BY <1>1, SlotSet
  <1>4. \A v \in Watchers : call'[<<v, "late">>] = Free
    BY <1>2, <1>3 DEF FineInv, Fine
  <1>5. MainOf(call', w) = m
    BY <1>3 DEF s
  <1> QED
    BY <1>2, <1>3, <1>4, <1>5 DEF OnlyMine

LEMMA MineBeat ==
  ASSUME FineInv, NEW w \in Watchers, NEW b, b.kind # "delete", call' = [call EXCEPT ![<<w, "beat">>] = b]
  PROVE  OnlyMine(w, MainOf(call, w))
  <1> DEFINE s == <<w, "beat">>
  <1>1. s \in Slots /\ call' = [call EXCEPT ![s] = b]
    BY SlotTypes
  <1>2. /\ \A v \in Watchers : <<v, "late">> \in Slots \ {s} /\ s # <<v, "main">>
        /\ \A u \in Users : s # <<u, "main">>
    BY SlotTypes
  <1> HIDE DEF s
  <1>3. /\ call'[s] = b /\ \A t \in Slots \ {s} : call'[t] = call[t]
        /\ \A v \in Watchers : MainOf(call', v) = IF s = <<v, "main">> THEN b ELSE MainOf(call, v)
        /\ \A u \in Users : MainOf(call', u) = IF s = <<u, "main">> THEN b ELSE MainOf(call, u)
    BY <1>1, SlotSet
  <1>4. \A v \in Watchers : call'[<<v, "late">>] = Free
    BY <1>2, <1>3 DEF FineInv, Fine
  <1> QED
    BY <1>2, <1>3, <1>4 DEF OnlyMine

LEMMA MineSame ==
  ASSUME FineInv, NEW w \in Watchers, UNCHANGED call
  PROVE  OnlyMine(w, MainOf(call, w))
  BY DEF OnlyMine, FineInv, Fine

\* A handler's step that changes one row, or what storage has of it.
LEMMA TouchFine ==
  ASSUME FineInv, NEW s \in Slots, NEW c, call' = [call EXCEPT ![s] = c], s[2] # "late", UNCHANGED watcher,
         NEW j \in Jobs, \A i \in Jobs \ {j} : job'[i] = job[i],
         \A i \in Jobs \ {j} : i \in blob' <=> i \in blob,
         \* the row stays what the watchers but the one that asked know of it
         job[j].status # "absent" => job'[j].mode = job[j].mode,
         \A w \in Watchers : job[j].status \in Active /\ job[j].owner = w /\ s # <<w, "main">> =>
           job'[j].status = job[j].status /\ job'[j].owner = job[j].owner /\ (j \in blob => j \in blob'),
         \* ... and fits that one
         \A w \in Watchers : s = <<w, "main">> =>
           /\ WorkerFine(job', blob', w, watcher[w], c)
           /\ \A i \in Jobs \ {j} : ~HasJob(watcher[w], call[s], i),
         call[s].kind = "delete" => call[s].job = j,
         j \in blob' => j \in blob \/ job[j].status \in Active,
         TakenAway(blob', c),
         RowFine(job'[j], j \in blob', DeletingIn(call', j), watcher[job'[j].owner], MainOf(call', job'[j].owner), j)
  PROVE  Fine'
  <1>1. /\ call'[s] = c /\ \A t \in Slots \ {s} : call'[t] = call[t]
        /\ \A v \in Watchers : MainOf(call', v) = IF s = <<v, "main">> THEN c ELSE MainOf(call, v)
        /\ \A u \in Users : MainOf(call', u) = IF s = <<u, "main">> THEN c ELSE MainOf(call, u)
    BY SlotSet
  <1>2. \A v \in Watchers : call'[<<v, "late">>] = Free
    <2>1. \A v \in Watchers : <<v, "late">> \in Slots /\ <<v, "late">>[2] = "late"
      BY SlotTypes
    <2>2. \A v \in Watchers : <<v, "late">> # s
      BY <2>1
    <2> QED
      BY <1>1, <2>1, <2>2 DEF FineInv, Fine
  <1>3. ASSUME NEW t \in Slots PROVE TakenAway(blob', call'[t])
    <2>1. CASE t = s
      BY <1>1, <2>1
    <2>2. CASE t # s
      <3>1. TakenAway(blob, call[t]) /\ CurrentIn(job, t, call[t]) /\ CallFormed(t, call[t])
        BY DEF FineInv, Fine, SerialInv, Current, CurrentAt, TypeInv, Formed
      <3>2. ~\E x \in Active : x \in Terminal
        BY DEF Active, Terminal
      <3>3. call[t].at = "save" /\ call[t].kind = "delete" => call[t].job \in Jobs /\ job[call[t].job].status \in Terminal
        BY <3>1 DEF CurrentIn, CallFormed
      <3> QED
        BY <1>1, <2>2, <3>1, <3>2, <3>3 DEF TakenAway
    <2> QED
      BY <2>1, <2>2
  <1>4. ASSUME NEW v \in Watchers PROVE WorkerFine(job', blob', v, watcher'[v], MainOf(call', v))
    <2>1. CASE s = <<v, "main">>
      <3>1. MainOf(call', v) = c /\ watcher'[v] = watcher[v]
        BY <1>1, <2>1
      <3> QED
        BY <2>1, <3>1
    <2>2. CASE s # <<v, "main">>
      <3> DEFINE p == watcher[v]
                 m == MainOf(call, v)
      <3>1. /\ WorkerFine(job, blob, v, p, m) /\ WatcherFormed(v, p, m, Beats(v))
            /\ CallFormed(<<v, "main">>, m) /\ m \in Calls
        BY FineWorker
      <3>2. watcher'[v] = p /\ MainOf(call', v) = m
        BY <1>1, <2>2
      <3> HIDE DEF p, m
      <3>3. m.at = "reply" /\ m.kind = "claim" /\ m.job # NoJob =>
              job'[m.job].status = "Claimed" /\ job'[m.job].owner = v
        <4>1. m.job \in Jobs \cup {NoJob} /\ (m.at = "reply" /\ m.kind = "claim" /\ m.job # NoJob =>
                job[m.job].status = "Claimed" /\ job[m.job].owner = v)
          BY <3>1 DEF WorkerFine, Calls
        <4> QED
          BY <2>2, <4>1 DEF Active
      <3>4. p.pc \notin OffWork => p.job \in Jobs /\ job[p.job].status # "absent"
        BY <3>1 DEF WatcherFormed
      <3>5. p.pc \notin OffWork => job'[p.job].mode = job[p.job].mode
        BY <3>4
      <3>6. ASSUME p.pc \notin OffWork, ~OverAs(m)
            PROVE  Fits(v, p, m, job'[p.job], p.job \in blob')
        <4>1. Fits(v, p, m, job[p.job], p.job \in blob)
          BY <3>1, <3>6 DEF WorkerFine
        <4>2. /\ job'[p.job].status = job[p.job].status /\ job'[p.job].owner = job[p.job].owner
              /\ p.job \in blob => p.job \in blob'
          BY <2>2, <3>4, <3>6, <4>1 DEF Fits
        <4> QED
          BY <4>1, <4>2 DEF Fits
      <3>7. WorkerFine(job', blob', v, p, m)
        BY <3>1, <3>3, <3>5, <3>6 DEF WorkerFine
      <3> QED
        BY <3>2, <3>7
    <2> QED
      BY <2>1, <2>2
  <1>5. ASSUME NEW i \in Jobs
        PROVE  RowFine(job'[i], i \in blob', DeletingIn(call', i), watcher'[job'[i].owner],
                       MainOf(call', job'[i].owner), i)
    <2>1. CASE i = j
      BY <2>1
    <2>2. CASE i # j
      <3> DEFINE v == job[i].owner
      <3>1. RowFine(job[i], i \in blob, DeletingIn(call, i), watcher[v], MainOf(call, v), i)
        BY DEF FineInv, Fine, RowsFine
      <3>2. job'[i] = job[i] /\ (i \in blob' <=> i \in blob)
        BY <2>2
      <3>3. DeletingIn(call, i) => DeletingIn(call', i)
        <4> SUFFICES ASSUME NEW u \in Users, MainOf(call, u).at = "save", MainOf(call, u).kind = "delete",
                            MainOf(call, u).job = i
                     PROVE  MainOf(call', u) = MainOf(call, u)
          BY DEF DeletingIn
        <4>1. CASE s = <<u, "main">>
          BY <2>2, <4>1 DEF MainOf
        <4> QED
          BY <1>1, <4>1
      <3>4. job[i].status \in Active => MainOf(call', v) = MainOf(call, v)
        <4> SUFFICES ASSUME job[i].status \in Active PROVE MainOf(call', v) = MainOf(call, v)
          OBVIOUS
        <4>1. v \in Watchers /\ HasJob(watcher[v], MainOf(call, v), i)
          BY <3>1 DEF RowFine, Owned
        <4>2. CASE s = <<v, "main">>
          <5>1. call[s] = MainOf(call, v)
            BY <4>2 DEF MainOf
          <5> QED
            BY <2>2, <4>1, <4>2, <5>1
        <4> QED
          BY <1>1, <4>1, <4>2
      <3> HIDE DEF v
      <3>5. RowFine(job[i], i \in blob', DeletingIn(call', i), watcher[v], MainOf(call', v), i)
        <4>1. Owned(job[i], i \in blob', watcher[v], MainOf(call', v), i)
          BY <3>1, <3>2, <3>4 DEF RowFine, Owned
        <4>2. Kept(job[i], i \in blob') /\ (job[i].status = "Done" /\ i \notin blob' => DeletingIn(call', i))
          BY <3>1, <3>2, <3>3 DEF RowFine, Kept
        <4> QED
          BY <4>1, <4>2 DEF RowFine
      <3> QED
        BY <3>2, <3>5 DEF v
    <2> QED
      BY <2>1, <2>2
  <1>6. WorkersFine' /\ RowsFine'
    BY <1>4, <1>5 DEF WorkersFine, RowsFine
  <1>7. (\A v \in Watchers : call[<<v, "late">>] = Free)' /\ (\A t \in Slots : TakenAway(blob, call[t]))'
    BY <1>2, <1>3
  <1> QED
    BY <1>6, <1>7 DEF Fine

-----------------------------------------------------------------------------
(* The API's steps.                                                            *)

\* Whose the request being served is.
LEMMA ServedSlot ==
  ASSUME FineInv, NEW s \in Slots, call[s].at # "free"
  PROVE  /\ s[2] # "late" /\ call[s] \in Calls /\ CallFormed(s, call[s])
         /\ call[s].kind \in {"claim", "publish"} => \E w \in Watchers : s = <<w, "main">>
         /\ call[s].kind = "report" => \E w \in Watchers : s = <<w, "main">> \/ s = <<w, "beat">>
         /\ call[s].kind \in {"cancel", "delete"} => \E u \in Users : s = <<u, "main">>
  <1>1. call[s] \in Calls /\ CallFormed(s, call[s])
    BY DEF FineInv, ToldInv, TypeInv, TypeOK, Formed
  <1>2. ASSUME NEW w \in Watchers, s = <<w, "late">> PROVE FALSE
    BY <1>2, ConstantTypes DEF FineInv, Fine
  <1>3. ASSUME NEW w \in Watchers, s = <<w, "beat">> PROVE call[s].kind = "report" /\ s[2] # "late" /\ s[1] = w
    BY <1>3, SlotTypes DEF FineInv, ToldInv, TypeInv, Formed, WatcherFormed, Beats
  <1>4. ASSUME NEW w \in Watchers, s = <<w, "main">> PROVE s[2] # "late" /\ s[1] = w
    BY <1>4, SlotTypes
  <1>5. ASSUME NEW u \in Users, s = <<u, "main">> PROVE s[2] # "late" /\ s[1] = u
    BY <1>5, SlotTypes
  <1>6. \/ \E w \in Watchers : s = <<w, "main">> \/ s = <<w, "beat">>
        \/ \E u \in Users : s = <<u, "main">>
    BY <1>2 DEF Slots
  <1>7. Watchers \cap Users = {}
    BY NullAssumption
  <1>8. CASE \E w \in Watchers : s = <<w, "main">> \/ s = <<w, "beat">>
    BY <1>1, <1>3, <1>4, <1>7, <1>8 DEF CallFormed
  <1>9. CASE \E u \in Users : s = <<u, "main">>
    BY <1>1, <1>5, <1>7, <1>9 DEF CallFormed
  <1> QED
    BY <1>6, <1>8, <1>9

\* The request of slot s is that of a watcher, which is where it says.
LEMMA ServedMain ==
  ASSUME FineInv, NEW s \in Slots, call[s].at # "free", NEW w \in Watchers, s = <<w, "main">>
  PROVE  /\ MainOf(call, w) = call[s] /\ watcher[w] \in Processes /\ s[1] = w
         /\ WatcherFormed(w, watcher[w], call[s], Beats(w)) /\ WorkerFine(job, blob, w, watcher[w], call[s])
         /\ watcher[w].pc = IF call[s].kind = "claim" THEN "claiming" ELSE "reporting"
         /\ call[s].kind # "claim" => call[s].job = watcher[w].job /\ watcher[w].job \in Jobs
  <1>1. /\ MainOf(call, w) = call[s] /\ watcher[w] \in Processes /\ s[1] = w
        /\ WatcherFormed(w, watcher[w], call[s], Beats(w)) /\ WorkerFine(job, blob, w, watcher[w], call[s])
    BY FineWorker, SlotTypes DEF MainOf
  <1> QED
    BY <1>1 DEF WatcherFormed, OffWork

\* A claim that goes on, or finds nothing.
LEMMA ClaimFine ==
  ASSUME FineInv, NEW s \in Slots, call[s].at \notin {"free", "reply"}, call[s].kind = "claim", NEW c,
         c.kind = "claim", ~c.conflict, c.at # "reply" \/ c.job = NoJob,
         call' = [call EXCEPT ![s] = c], UNCHANGED <<job, blob, watcher>>
  PROVE  Fine'
  <1>1. PICK w \in Watchers : s = <<w, "main">>
    BY ServedSlot
  <1> DEFINE p == watcher[w]
  <1>2. MainOf(call, w) = call[s] /\ p.pc = "claiming"
    BY <1>1, ServedMain
  <1>3. OnlyMine(w, c)
    BY <1>1, MineMain
  <1>4. watcher' = [watcher EXCEPT ![w] = p]
    BY DEF FineInv, ToldInv, TypeInv, TypeOK
  <1>5. WorkerFine(job, blob', w, p, c)
    BY <1>2 DEF WorkerFine, OffWork
  <1>6. Keeps(w, p, c) /\ Grown(w)
    BY <1>2 DEF Keeps, HasJob, OffWork, Grown
  <1> HIDE DEF p
  <1> QED
    BY <1>3, <1>4, <1>5, <1>6, WorkFine

LEMMA FineSweepRead ==
  ASSUME FineInv, NEW s \in Slots, SweepRead(s)
  PROVE  Fine'
  <1> DEFINE swept == [j \in Jobs |-> IF Stale(job[j]) THEN Verdict(job[j]) ELSE "kept"]
             c == [call[s] EXCEPT !.at = IF swept = Unswept THEN "pop" ELSE "sweep", !.swept = swept]
  <1>1. /\ call[s] \in Calls /\ call[s].at = "sent" /\ call[s].kind = "claim" /\ UNCHANGED <<job, blob, watcher>>
        /\ call' = [call EXCEPT ![s] = c]
    BY DEF SweepRead, Arrived, FineInv, ToldInv, TypeInv, TypeOK
  <1>2. PICK w \in Watchers : s = <<w, "main">>
    BY <1>1, ServedSlot
  <1>3. ~call[s].conflict
    BY <1>1, <1>2, ServedMain DEF WorkerFine
  <1> HIDE DEF swept
  <1>4. c.kind = "claim" /\ c.at # "reply" /\ ~c.conflict
    BY <1>1, <1>3 DEF Calls
  <1> HIDE DEF c
  <1> QED
    BY <1>1, <1>4, ClaimFine

\* Nothing is silent, so nothing is swept.
LEMMA FineSweepSave ==
  ASSUME FineInv, NEW s \in Slots, SweepSave(s)
  PROVE  Fine'
  <1>1. /\ call[s] \in Calls /\ call[s].at = "sweep" /\ CallFormed(s, call[s]) /\ CurrentIn(job, s, call[s])
        /\ UNCHANGED <<blob, watcher>>
    BY DEF SweepSave, FineInv, ToldInv, SerialInv, TypeInv, TypeOK, Formed, Current, CurrentAt
  <1>2. call[s].kind = "claim"
    BY <1>1 DEF CallFormed
  <1>3. ASSUME NEW j \in Jobs PROVE call[s].swept[j] = "kept"
    <2>1. job[j].status \in Active => job[j].fresh
      BY DEF FineInv, Fine, RowsFine, RowFine, Owned
    <2> QED
      BY <1>1, <2>1 DEF CurrentIn, Stale
  <1> DEFINE c == [call[s] EXCEPT !.at = "pop", !.swept = Unswept]
  <1>4. call' = [call EXCEPT ![s].at = "pop", ![s].swept = Unswept]
    BY <1>3 DEF SweepSave
  <1>5. call' = [call EXCEPT ![s] = c] /\ c.kind = "claim" /\ c.at = "pop" /\ c.conflict = call[s].conflict
    BY <1>1, <1>2, <1>4 DEF FineInv, ToldInv, TypeInv, TypeOK, Calls
  <1>6. UNCHANGED job
    <2>1. job' = [j \in Jobs |-> IF call[s].swept[j] = "kept" THEN job[j]
                                 ELSE [job[j] EXCEPT !.owner = Nobody, !.status = call[s].swept[j]]]
      BY <1>3 DEF SweepSave
    <2>2. job' = [j \in Jobs |-> job[j]]
      BY <1>3, <2>1
    <2> QED
      BY <2>2 DEF FineInv, ToldInv, TypeInv, TypeOK
  <1>7. PICK w \in Watchers : s = <<w, "main">>
    BY <1>1, <1>2, ServedSlot
  <1>8. ~call[s].conflict
    BY <1>1, <1>2, <1>7, ServedMain DEF WorkerFine
  <1> HIDE DEF c
  <1> QED
    BY <1>1, <1>2, <1>5, <1>6, <1>8, ClaimFine

\* The answer to the request c.
Reply(c) == [c EXCEPT !.at = "reply"]

LEMMA ReplyForm ==
  ASSUME NEW c \in Calls, NEW s \in Slots, s[2] # "late"
  PROVE  /\ Answered(s, c) = [call EXCEPT ![s] = Reply(c)] /\ Reply(c).at = "reply" /\ Reply(c).kind = c.kind
         /\ Reply(c).job = c.job /\ Reply(c).to = c.to /\ Reply(c).result = c.result
         /\ Reply(c).conflict = c.conflict
  BY DEF Answered, Reply, Calls

LEMMA FineClaimNext ==
  ASSUME FineInv, NEW s \in Slots, ClaimNext(s)
  PROVE  Fine'
  <1>0. TypeInv
    BY DEF FineInv, ToldInv
  <1>1. /\ call[s] \in Calls /\ call[s].at = "pop" /\ CallFormed(s, call[s]) /\ UNCHANGED <<blob, watcher>>
    BY DEF ClaimNext, FineInv, ToldInv, TypeInv, TypeOK, Formed
  <1>2. call[s].kind = "claim" /\ call[s].job = NoJob /\ s[2] # "late"
    BY <1>1, ServedSlot DEF CallFormed
  <1>3. PICK w \in Watchers : s = <<w, "main">>
    BY <1>1, <1>2, ServedSlot
  <1>4. ~call[s].conflict /\ watcher[w].pc = "claiming" /\ s[1] = w
    BY <1>1, <1>2, <1>3, ServedMain DEF WorkerFine
  <1>5. CASE call' = Answered(s, call[s]) /\ UNCHANGED job
    <2> DEFINE c == Reply(call[s])
    <2>1. call' = [call EXCEPT ![s] = c] /\ c.kind = "claim" /\ ~c.conflict /\ c.job = NoJob
      BY <1>1, <1>2, <1>4, <1>5, ReplyForm
    <2> HIDE DEF c
    <2> QED
      BY <1>1, <1>2, <1>5, <2>1, ClaimFine
  <1>6. ASSUME NEW j \in QueuedRows,
               job' = [job EXCEPT ![j].status = "Claimed", ![j].owner = s[1], ![j].fresh = TRUE,
                                  ![j].attempts = @ + 1],
               call' = Answered(s, [call[s] EXCEPT !.job = j])
        PROVE  Fine'
    <2> DEFINE d == [call[s] EXCEPT !.job = j]
               c == Reply(d)
    <2>1. j \in Jobs /\ job[j].status = "Queued"
      BY DEF QueuedRows
    <2>2. d \in Calls /\ d.kind = "claim" /\ ~d.conflict /\ d.job = j /\ call' = Answered(s, d)
      BY <1>1, <1>2, <1>4, <1>6, <2>1 DEF Calls
    <2> HIDE DEF d
    <2>3. call' = [call EXCEPT ![s] = c] /\ c.kind = "claim" /\ ~c.conflict /\ c.job = j /\ c.at = "reply"
      BY <1>2, <2>2, ReplyForm
    <2> HIDE DEF c
    <2>4. /\ job'[j].status = "Claimed" /\ job'[j].owner = w /\ job'[j].fresh
          /\ job'[j].mode = job[j].mode /\ \A i \in Jobs \ {j} : job'[i] = job[i]
      BY <1>0, <1>4, <1>6, <2>1, ClaimedRow
    <2>5. WorkerFine(job', blob', w, watcher[w], c)
      BY <1>4, <2>3, <2>4 DEF WorkerFine, OffWork
    <2>6. MainOf(call', w) = c
      BY <1>3, <2>3, SlotSet
    <2>7. Kept(job[j], j \in blob)
      BY <2>1 DEF FineInv, Fine, RowsFine, RowFine
    <2>8. j \in blob => job[j].mode = "publish"
      BY <2>1, <2>7 DEF Kept, Active, Terminal
    <2>9. RowFine(job'[j], j \in blob', DeletingIn(call', j), watcher[job'[j].owner], MainOf(call', job'[j].owner), j)
      <3>1. HasJob(watcher[w], c, j)
        BY <1>4, <2>3 DEF HasJob
      <3>2. Owned(job'[j], j \in blob', watcher[w], c, j)
        BY <1>1, <2>4, <2>8, <3>1 DEF Owned
      <3>3. Kept(job'[j], j \in blob')
        BY <2>4 DEF Kept, Active, Terminal
      <3> QED
        BY <2>4, <2>6, <3>2, <3>3 DEF RowFine
    <2>10. TakenAway(blob', c)
      BY <2>3 DEF TakenAway
    <2>11. \A i \in Jobs \ {j} : ~HasJob(watcher[w], call[s], i)
      BY <1>1, <1>4 DEF HasJob, OffWork
    <2>12. \A v \in Watchers : s = <<v, "main">> => v = w
      BY <1>3
    <2>13. job[j].status \notin Active
      BY <2>1 DEF Active
    <2> QED
      BY <1>1, <1>2, <2>1, <2>3, <2>4, <2>5, <2>9, <2>10, <2>11, <2>12, <2>13, TouchFine
  <1> QED
    BY <1>5, <1>6 DEF ClaimNext

\* A heartbeat goes on, or is answered.
LEMMA BeatFine ==
  ASSUME FineInv, NEW w \in Watchers, NEW b, b.kind # "delete", call' = [call EXCEPT ![<<w, "beat">>] = b],
         UNCHANGED <<job, blob, watcher>>
  PROVE  Fine'
  <1> DEFINE p == watcher[w]
             m == MainOf(call, w)
  <1>1. OnlyMine(w, m)
    BY MineBeat
  <1>2. watcher' = [watcher EXCEPT ![w] = p]
    BY DEF FineInv, ToldInv, TypeInv, TypeOK
  <1>3. WorkerFine(job, blob', w, p, m)
    BY FineWorker
  <1> HIDE DEF p, m
  <1>4. Grown(w)
    BY DEF Grown
  <1>5. Keeps(w, p, m)
    BY DEF Keeps, p, m
  <1> QED
    BY <1>1, <1>2, <1>3, <1>4, <1>5, WorkFine

\* The request of the watcher w goes on, with its job, or is answered.
LEMMA MainFine ==
  ASSUME FineInv, NEW s \in Slots, call[s].at # "free", NEW w \in Watchers, s = <<w, "main">>,
         NEW c, call' = [call EXCEPT ![s] = c], c.kind # "delete", UNCHANGED <<job, watcher>>, Grown(w),
         WorkerFine(job, blob', w, watcher[w], c), Keeps(w, watcher[w], c)
  PROVE  Fine'
  <1>1. OnlyMine(w, c)
    BY MineMain
  <1>2. watcher' = [watcher EXCEPT ![w] = watcher[w]]
    BY DEF FineInv, ToldInv, TypeInv, TypeOK
  <1> QED
    BY <1>1, <1>2, WorkFine

LEMMA FineReportRead ==
  ASSUME FineInv, NEW s \in Slots, ReportRead(s)
  PROVE  Fine'
  <1>1. /\ call[s].at = "sent" /\ call[s].kind = "report" /\ UNCHANGED <<job, blob, watcher>>
        /\ call[s] \in Calls /\ s[2] # "late"
    BY ServedSlot DEF ReportRead, Arrived
  <1>2. ASSUME NEW w \in Watchers, s = <<w, "beat">> PROVE Fine'
    <2>1. PICK c \in Calls : c.kind = "report" /\ (call' = Answered(s, c) \/ call' = [call EXCEPT ![s] = c])
      <3>1. CASE call' = Answered(s, call[s])
        BY <1>1, <3>1
      <3>2. CASE call' = Answered(s, [call[s] EXCEPT !.conflict = TRUE])
        <4> DEFINE c == [call[s] EXCEPT !.conflict = TRUE]
        <4>1. c \in Calls /\ c.kind = "report"
          BY <1>1 DEF Calls
        <4> QED
          BY <3>2, <4>1
      <3>3. CASE call' = [call EXCEPT ![s].at = "save", ![s].stop = job[call[s].job].stop]
        <4> DEFINE c == [call[s] EXCEPT !.at = "save", !.stop = job[call[s].job].stop]
        <4>1. call[s].job \in Jobs /\ job \in [Jobs -> Rows]
          BY <1>1, ServedSlot DEF CallFormed, FineInv, ToldInv, TypeInv, TypeOK
        <4>2. c \in Calls /\ c.kind = "report"
          BY <1>1, <4>1 DEF Calls, Rows
        <4>3. call' = [call EXCEPT ![s] = c]
          BY <3>3 DEF FineInv, ToldInv, TypeInv, TypeOK
        <4> QED
          BY <4>2, <4>3
      <3> QED
        BY <3>1, <3>2, <3>3 DEF ReportRead
    <2>2. \E b : b.kind # "delete" /\ call' = [call EXCEPT ![s] = b]
      BY <1>1, <2>1, ReplyForm
    <2> QED
      BY <1>1, <1>2, <2>2, BeatFine
  <1>3. ASSUME NEW w \in Watchers, s = <<w, "main">> PROVE Fine'
    <2> DEFINE p == watcher[w]
               row == job[call[s].job]
               c == [call[s] EXCEPT !.at = "save", !.stop = row.stop]
    <2>1. /\ WatcherFormed(w, p, call[s], Beats(w)) /\ WorkerFine(job, blob, w, p, call[s]) /\ p.pc = "reporting"
          /\ call[s].job = p.job /\ s[1] = w /\ MainOf(call, w) = call[s] /\ p.job \in Jobs
      BY <1>1, <1>3, ServedMain
    <2>2. Fits(w, p, call[s], row, p.job \in blob) /\ call[s].to \notin {"Claimed", "beat"}
      BY <1>1, <2>1 DEF WorkerFine, WatcherFormed, OverAs, OffWork
    <2>3. row.status # "gone" /\ Claimant(row, s[1])
      BY <2>1, <2>2 DEF Fits, Claimant, Active, Terminal
    <2>4. IsValidTransition(row.status, call[s].to)
      <3>1. call[s].to \in {"Running", "Uploading", "Done", "Failed", "Cancelled"}
        BY <1>1, <2>2 DEF Calls, Active, Terminal
      <3>2. StageAfter["Claimed"] = "Running" /\ StageAfter["Running"] = "Uploading" /\ StageAfter["Uploading"] = "Done"
        BY DEF StageAfter
      <3>3. call[s].to = "Done" => row.status = "Uploading"
        BY <1>1, <2>1, <2>2 DEF Fits
      <3>4. call[s].to = "Running" => row.status = "Claimed"
        BY <1>1, <2>1, <2>2 DEF Fits, Active
      <3>5. call[s].to = "Uploading" => row.status = "Running"
        BY <1>1, <2>1, <2>2 DEF Fits, Active
      <3> QED
        BY <2>2, <3>1, <3>2, <3>3, <3>4, <3>5 DEF IsValidTransition, Fits
    <2>5. call' = [call EXCEPT ![s].at = "save", ![s].stop = row.stop]
      BY <2>3, <2>4 DEF ReportRead
    <2>6. /\ call' = [call EXCEPT ![s] = c] /\ c.at = "save" /\ c.kind = "report" /\ c.job = call[s].job
          /\ c.to = call[s].to /\ c.result = call[s].result /\ c.conflict = call[s].conflict
      BY <1>1, <2>5 DEF FineInv, ToldInv, TypeInv, TypeOK, Calls
    <2> HIDE DEF c, p
    <2>7. Fits(w, p, c, row, p.job \in blob)
      BY <1>1, <2>1, <2>2, <2>6 DEF Fits
    <2>8. WorkerFine(job, blob, w, p, c)
      BY <1>1, <2>1, <2>6, <2>7 DEF WorkerFine, Clean, OffWork
    <2>9. Keeps(w, p, c) /\ Grown(w)
      BY <1>1, <2>1, <2>6 DEF Keeps, HasJob, OverAs, Brings, Grown, p
    <2> QED
      BY <1>1, <1>3, <2>6, <2>8, <2>9, MainFine DEF p
  <1> QED
    BY <1>1, <1>2, <1>3, ServedSlot

LEMMA FinePublishRead ==
  ASSUME FineInv, NEW s \in Slots, PublishRead(s)
  PROVE  Fine'
  <1>1. /\ call[s].at = "sent" /\ call[s].kind = "publish" /\ UNCHANGED <<job, watcher>> /\ call[s] \in Calls
    BY ServedSlot DEF PublishRead, Arrived
  <1>2. PICK w \in Watchers : s = <<w, "main">>
    BY <1>1, ServedSlot
  <1> DEFINE p == watcher[w]
             j == call[s].job
             c == [call[s] EXCEPT !.at = "save"]
  <1>3. /\ WatcherFormed(w, p, call[s], Beats(w)) /\ WorkerFine(job, blob, w, p, call[s]) /\ p.pc = "reporting"
        /\ call[s].job = p.job /\ s[1] = w /\ MainOf(call, w) = call[s] /\ p.job \in Jobs
    BY <1>1, <1>2, ServedMain
  <1>4. Fits(w, p, call[s], job[j], j \in blob) /\ p.mode = "publish" /\ job[j].mode = p.mode
    BY <1>1, <1>3 DEF WorkerFine, WatcherFormed, OverAs, OffWork
  <1>5. job[j].status # "gone" /\ Claimant(job[j], s[1])
    BY <1>3, <1>4 DEF Fits, Claimant, Active, Terminal
  <1>6. call' = [call EXCEPT ![s].at = "save"] /\ blob' = blob \cup {j}
    BY <1>5 DEF PublishRead
  <1>7. /\ call' = [call EXCEPT ![s] = c] /\ c.at = "save" /\ c.kind = "publish" /\ c.job = call[s].job
        /\ c.conflict = call[s].conflict
    BY <1>1, <1>6 DEF FineInv, ToldInv, TypeInv, TypeOK, Calls
  <1> HIDE DEF c, p, j
  <1>8. Grown(w)
    BY <1>3, <1>4, <1>6 DEF Grown, Fits, j
  <1>9. p.job \in blob' /\ p.job = j
    BY <1>3, <1>6 DEF j
  <1>10. Fits(w, p, c, job[p.job], p.job \in blob')
    BY <1>1, <1>3, <1>4, <1>7, <1>9 DEF Fits
  <1>11. WorkerFine(job, blob', w, p, c)
    BY <1>1, <1>3, <1>7, <1>10 DEF WorkerFine, Clean, OffWork
  <1>12. Keeps(w, p, c)
    BY <1>1, <1>3, <1>4, <1>7, <1>9 DEF Keeps, HasJob, OverAs, OffWork, p
  <1> QED
    BY <1>1, <1>2, <1>7, <1>8, <1>11, <1>12, MainFine DEF p

\* What a row says, by parts.
LEMMA FineRow ==
  ASSUME FineInv, NEW j \in Jobs
  PROVE  /\ job[j] \in Rows /\ Kept(job[j], j \in blob)
         /\ Owned(job[j], j \in blob, watcher[job[j].owner], MainOf(call, job[j].owner), j)
         /\ job[j].status = "Done" /\ j \notin blob => DeletingIn(call, j)
         /\ job[j].status \in Active => job[j].status \notin Terminal \cup {"absent", "gone", "Queued"}
  <1>1. RowFine(job[j], j \in blob, DeletingIn(call, j), watcher[job[j].owner], MainOf(call, job[j].owner), j)
    BY DEF FineInv, Fine, RowsFine
  <1>2. job[j] \in Rows
    BY DEF FineInv, ToldInv, TypeInv, TypeOK
  <1> QED
    BY <1>1, <1>2 DEF RowFine, Active, Terminal

\* The heartbeat is of a job that goes on as it was, or is over.
LEMMA FineReportBeat ==
  ASSUME FineInv, NEW s \in Slots, ReportSave(s), NEW w \in Watchers, s = <<w, "beat">>
  PROVE  Fine'
  <1>0. TypeInv
    BY DEF FineInv, ToldInv
  <1>1. /\ call[s] \in Calls /\ call[s].at = "save" /\ call[s].kind = "report" /\ call[s].job \in Jobs
        /\ UNCHANGED <<blob, watcher, faults>> /\ s[2] # "late" /\ call[s].to = "beat"
    BY <1>0, ReportSaved, Worker, SlotTypes DEF WatcherFormed, Beats
  <1>2. CASE UNCHANGED job /\ call' = Answered(s, [call[s] EXCEPT !.stop = FALSE])
    <2> DEFINE c == [call[s] EXCEPT !.stop = FALSE]
    <2>1. c \in Calls /\ c.kind = "report" /\ call' = Answered(s, c)
      BY <1>1, <1>2 DEF Calls
    <2> HIDE DEF c
    <2>2. call' = [call EXCEPT ![s] = Reply(c)] /\ Reply(c).kind # "delete"
      BY <1>1, <2>1, ReplyForm
    <2> QED
      BY <1>1, <1>2, <2>2, BeatFine
  <1>3. CASE LET c == call[s]  j == c.job IN
               /\ job[j].status # "gone" /\ call' = Answered(s, c)
               /\ job' \in [Jobs -> Rows] /\ RowsStay /\ \A i \in Jobs \ {j} : job'[i] = job[i]
               /\ job'[j].status = (IF c.to = "beat" THEN job[j].status ELSE c.to)
               /\ job'[j].fresh /\ job'[j].result = (job[j].result \/ c.result)
               /\ job'[j].owner = job[j].owner /\ job'[j].mode = job[j].mode /\ job'[j].stop = job[j].stop
    <2> DEFINE j == call[s].job
               c == Reply(call[s])
               v == job[j].owner
    <2>1. /\ \A i \in Jobs \ {j} : job'[i] = job[i]
          /\ job'[j].status = job[j].status /\ job'[j].fresh /\ (job[j].result => job'[j].result)
          /\ job'[j].owner = v /\ job'[j].mode = job[j].mode
      BY <1>1, <1>3
    <2>2. call' = [call EXCEPT ![s] = c] /\ c.kind = "report"
      BY <1>1, <1>3, ReplyForm
    <2>3. \A x \in Watchers : s # <<x, "main">>
      BY SlotTypes
    <2>4. \A u \in Users : s # <<u, "main">>
      BY SlotTypes
    <2>5. \A x \in Watchers \cup Users : MainOf(call', x) = MainOf(call, x)
      BY <2>2, <2>3, <2>4, SlotSet
    <2> HIDE DEF c, j, v
    <2>6. j \in Jobs
      BY <1>1 DEF j
    <2>7. Kept(job'[j], j \in blob') /\ (job'[j].status = "Done" /\ j \notin blob' => DeletingIn(call', j))
      BY <1>1, <2>1, <2>5, <2>6, FineRow DEF Kept, DeletingIn
    <2>8. Owned(job'[j], j \in blob', watcher[v], MainOf(call', v), j)
      <3>1. Owned(job[j], j \in blob, watcher[v], MainOf(call, v), j)
        BY <2>6, FineRow DEF v
      <3> QED
        BY <1>1, <2>1, <2>5, <3>1 DEF Owned, v
    <2>9. RowFine(job'[j], j \in blob', DeletingIn(call', j), watcher[job'[j].owner], MainOf(call', job'[j].owner), j)
      BY <2>1, <2>7, <2>8 DEF RowFine
    <2>10. TakenAway(blob', c)
      BY <2>2 DEF TakenAway
    <2>11. call[s].kind # "delete"
      BY <1>1
    <2> QED
      BY <1>1, <2>1, <2>2, <2>3, <2>6, <2>9, <2>10, <2>11, TouchFine DEF v
  <1> QED
    BY <1>0, <1>2, <1>3, ReportSaved

\* A report of the handler takes the row where the handler is.
LEMMA FineReportSave ==
  ASSUME FineInv, NEW s \in Slots, ReportSave(s)
  PROVE  Fine'
  <1>0. TypeInv
    BY DEF FineInv, ToldInv
  <1>1. /\ call[s] \in Calls /\ call[s].at = "save" /\ call[s].kind = "report" /\ call[s].job \in Jobs
        /\ UNCHANGED <<blob, watcher, faults>> /\ s[2] # "late"
    BY <1>0, ReportSaved, ServedSlot
  <1>2. ASSUME NEW w \in Watchers, s = <<w, "main">> PROVE Fine'
    <2> DEFINE p == watcher[w]
               j == call[s].job
               c == Reply(call[s])
    <2>1. /\ WatcherFormed(w, p, call[s], Beats(w)) /\ WorkerFine(job, blob, w, p, call[s]) /\ p.pc = "reporting"
          /\ j = p.job /\ s[1] = w /\ MainOf(call, w) = call[s] /\ j \in Jobs
      BY <1>1, <1>2, ServedMain
    <2>2. /\ Fits(w, p, call[s], job[j], j \in blob) /\ call[s].to \notin {"Claimed", "beat"} /\ ~call[s].conflict
          /\ job[j].mode = p.mode /\ Clean(p, call[s])
      BY <1>1, <2>1 DEF WorkerFine, WatcherFormed, OverAs, OffWork
    <2>3. job[j].status \in Active /\ job[j].owner = w /\ job[j].status # "gone"
      BY <2>2 DEF Fits, Active
    <2>4. /\ call' = Answered(s, call[s]) /\ \A i \in Jobs \ {j} : job'[i] = job[i]
          /\ job'[j].status = call[s].to /\ job'[j].fresh /\ job'[j].result = (job[j].result \/ call[s].result)
          /\ job'[j].owner = w /\ job'[j].mode = job[j].mode
      BY <1>0, <2>2, <2>3, ReportSaved
    <2>5. /\ call' = [call EXCEPT ![s] = c] /\ c.at = "reply" /\ c.kind = "report" /\ c.to = call[s].to /\ c.job = j
          /\ c.result = call[s].result /\ c.conflict = call[s].conflict
      BY <1>1, <2>4, ReplyForm
    <2> HIDE DEF c, j, p
    <2>6. MainOf(call', w) = c
      BY <1>2, <2>5, SlotSet
    <2>7. c.to \in {"Running", "Uploading"} \cup Terminal /\ {"Running", "Uploading"} \subseteq Active
      BY <1>1, <2>2, <2>5 DEF Calls, Active
    <2>8. ASSUME c.to \in {"Running", "Uploading"} PROVE Fits(w, p, c, job'[p.job], p.job \in blob')
      BY <2>1, <2>4, <2>5, <2>7, <2>8 DEF Fits
    <2>9. WorkerFine(job', blob', w, p, c)
      <3>1. Clean(p, c)
        BY <1>1, <2>2, <2>5 DEF Clean
      <3>2. ~OverAs(c) => c.to \in {"Running", "Uploading"}
        BY <2>5, <2>7 DEF OverAs
      <3> QED
        BY <2>1, <2>2, <2>4, <2>5, <2>8, <3>1, <3>2 DEF WorkerFine
    <2>10. \A i \in Jobs \ {j} : ~HasJob(watcher[w], call[s], i)
      BY <2>1 DEF HasJob, p
    <2>11. /\ Owned(job[j], j \in blob, p, call[s], j) /\ Kept(job[j], j \in blob)
           /\ job[j].status = "Done" /\ j \notin blob => DeletingIn(call, j)
      BY <2>1, <2>3, FineRow DEF p
    <2>12. RowFine(job'[j], j \in blob', DeletingIn(call', j), watcher[job'[j].owner], MainOf(call', job'[j].owner), j)
      <3>1. CASE c.to \in Terminal
        <4>1. job'[j].status = c.to /\ c.to \notin Active
          BY <2>4, <2>5, <3>1 DEF Active, Terminal
        <4>2. job[j].mode \in Asking => c.to # "Failed"
          BY <1>1, <2>1, <2>2, <2>5 DEF Clean
        <4>3. j \in blob /\ job[j].mode # "publish" => call[s].result
          BY <2>1, <2>3, <2>11 DEF Owned, Brings
        <4>4. c.to = "Done" => j \in blob
          BY <1>1, <2>1, <2>2, <2>5 DEF Fits
        <4>5. Owned(job'[j], j \in blob', p, c, j)
          BY <4>1 DEF Owned
        <4>6. Kept(job'[j], j \in blob')
          BY <1>1, <2>4, <3>1, <4>1, <4>2, <4>3 DEF Kept, Terminal
        <4>7. job'[j].status = "Done" => j \in blob'
          BY <1>1, <4>1, <4>4
        <4> QED
          BY <2>4, <2>6, <4>5, <4>6, <4>7 DEF RowFine, p
      <3>2. CASE c.to \in {"Running", "Uploading"}
        <4>1. job'[j].status = c.to /\ c.to \in Active /\ c.to \notin Terminal \cup {"absent"}
          BY <2>4, <2>5, <2>7, <3>2 DEF Terminal
        <4>2. HasJob(p, c, j)
          BY <2>1, <4>1 DEF HasJob, OverAs, OffWork
        <4>3. j \in blob => job[j].mode = "publish"
          BY <2>1, <2>3, <2>5, <2>11, <4>1 DEF Owned, Brings
        <4>4. Owned(job'[j], j \in blob', p, c, j)
          BY <1>1, <2>4, <4>2, <4>3 DEF Owned
        <4>5. Kept(job'[j], j \in blob')
          BY <2>4, <4>1, <4>3 DEF Kept, Terminal
        <4>6. job'[j].status # "Done"
          BY <3>2, <4>1
        <4> QED
          BY <2>4, <2>6, <4>4, <4>5, <4>6 DEF RowFine, p
      <3> QED
        BY <2>7, <3>1, <3>2
    <2>13. TakenAway(blob', c)
      BY <2>5 DEF TakenAway
    <2>14. /\ \A v \in Watchers : s = <<v, "main">> => v = w
           /\ \A v \in Watchers : job[j].owner = v => s = <<v, "main">>
      BY <1>2, <2>3
    <2>15. call[s].kind # "delete"
      BY <1>1
    <2> QED
      BY <1>1, <2>1, <2>4, <2>5, <2>9, <2>10, <2>12, <2>13, <2>14, <2>15, TouchFine DEF p
  <1> QED
    BY <1>1, <1>2, ServedSlot, FineReportBeat

LEMMA FinePublishSave ==
  ASSUME FineInv, NEW s \in Slots, PublishSave(s)
  PROVE  Fine'
  <1>0. TypeInv
    BY DEF FineInv, ToldInv
  <1>1. /\ call[s] \in Calls /\ call[s].at = "save" /\ call[s].kind = "publish" /\ call[s].job \in Jobs
        /\ UNCHANGED <<blob, watcher, faults>> /\ s[2] # "late"
    BY <1>0, PublishSaved, ServedSlot
  <1>2. PICK w \in Watchers : s = <<w, "main">>
    BY <1>1, ServedSlot
  <1> DEFINE p == watcher[w]
             j == call[s].job
             c == Reply(call[s])
  <1>3. /\ WatcherFormed(w, p, call[s], Beats(w)) /\ WorkerFine(job, blob, w, p, call[s]) /\ p.pc = "reporting"
        /\ j = p.job /\ s[1] = w /\ MainOf(call, w) = call[s] /\ j \in Jobs
    BY <1>1, <1>2, ServedMain
  <1>4. /\ Fits(w, p, call[s], job[j], j \in blob) /\ ~call[s].conflict
        /\ job[j].mode = "publish" /\ job[j].mode = p.mode /\ Clean(p, call[s])
    BY <1>1, <1>3 DEF WorkerFine, WatcherFormed, OverAs, OffWork
  <1>5. job[j].status \in Active /\ job[j].owner = w /\ job[j].status # "gone" /\ j \in blob
    BY <1>1, <1>3, <1>4 DEF Fits, Active
  <1>6. /\ call' = Answered(s, call[s]) /\ \A i \in Jobs \ {j} : job'[i] = job[i]
        /\ job'[j].status = job[j].status /\ job'[j].fresh /\ job'[j].owner = w /\ job'[j].mode = job[j].mode
    BY <1>0, <1>5, PublishSaved
  <1>7. /\ call' = [call EXCEPT ![s] = c] /\ c.at = "reply" /\ c.kind = "publish" /\ c.job = j
        /\ c.conflict = call[s].conflict
    BY <1>1, <1>6, ReplyForm
  <1> HIDE DEF c, j, p
  <1>8. MainOf(call', w) = c
    BY <1>2, <1>7, SlotSet
  <1>9. Fits(w, p, c, job'[p.job], p.job \in blob')
    BY <1>1, <1>3, <1>4, <1>5, <1>6, <1>7 DEF Fits
  <1>10. WorkerFine(job', blob', w, p, c)
    BY <1>1, <1>3, <1>4, <1>6, <1>7, <1>9 DEF WorkerFine, Clean
  <1>11. \A i \in Jobs \ {j} : ~HasJob(watcher[w], call[s], i)
    BY <1>3 DEF HasJob, p
  <1>12. job[j].status \notin Terminal \cup {"absent", "Failed", "Done"}
    BY <1>5 DEF Active, Terminal
  <1>13. HasJob(p, c, j)
    BY <1>3, <1>7 DEF HasJob, OverAs, OffWork
  <1>14. Owned(job'[j], j \in blob', p, c, j) /\ Kept(job'[j], j \in blob')
    BY <1>4, <1>5, <1>6, <1>12, <1>13 DEF Owned, Kept
  <1>15. RowFine(job'[j], j \in blob', DeletingIn(call', j), watcher[job'[j].owner], MainOf(call', job'[j].owner), j)
    BY <1>6, <1>8, <1>12, <1>14 DEF RowFine, p
  <1>16. TakenAway(blob', c)
    BY <1>7 DEF TakenAway
  <1>17. /\ \A v \in Watchers : s = <<v, "main">> => v = w
         /\ \A v \in Watchers : job[j].owner = v => s = <<v, "main">>
    BY <1>2, <1>5
  <1>18. call[s].kind # "delete"
    BY <1>1
  <1> QED
    BY <1>1, <1>3, <1>6, <1>7, <1>10, <1>11, <1>15, <1>16, <1>17, <1>18, TouchFine DEF p

\* A request of the owner's, on the row j, that leaves the watchers' requests,
\* and the row where it is active, alone.
LEMMA OwnerFine ==
  ASSUME FineInv, NEW u \in Users, NEW s \in Slots, s = <<u, "main">>, NEW c, call' = [call EXCEPT ![s] = c],
         UNCHANGED watcher, NEW j \in Jobs, \A i \in Jobs \ {j} : job'[i] = job[i],
         \A i \in Jobs \ {j} : i \in blob' <=> i \in blob, j \in blob' => j \in blob,
         call[s].kind = "delete" => call[s].job = j, TakenAway(blob', c),
         job[j].status # "absent", job'[j].mode = job[j].mode,
         job[j].status \in Active =>
           /\ job'[j].status = job[j].status /\ job'[j].owner = job[j].owner /\ job'[j].fresh = job[j].fresh
           /\ j \in blob <=> j \in blob',
         job[j].status \notin Active => job'[j].status \notin Active,
         Kept(job'[j], j \in blob'),
         job'[j].status = "Done" /\ j \notin blob' => DeletingIn(call', j)
  PROVE  Fine'
  <1>1. s[2] # "late" /\ \A w \in Watchers : s # <<w, "main">>
    BY SlotTypes
  <1>2. \A w \in Watchers : MainOf(call', w) = MainOf(call, w)
    BY <1>1, SlotSet
  <1> DEFINE v == job[j].owner
  <1>3. Owned(job[j], j \in blob, watcher[v], MainOf(call, v), j)
    BY FineRow
  <1> HIDE DEF v
  <1>4. Owned(job'[j], j \in blob', watcher[job'[j].owner], MainOf(call', job'[j].owner), j)
    <2>1. CASE job[j].status \in Active
      <3>1. v \in Watchers /\ job'[j].owner = v
        BY <1>3, <2>1 DEF Owned, v
      <3>2. Owned(job'[j], j \in blob', watcher[v], MainOf(call', v), j)
        BY <1>2, <1>3, <2>1, <3>1 DEF Owned, v
      <3> QED
        BY <3>1, <3>2
    <2>2. CASE job[j].status \notin Active
      BY <2>2 DEF Owned
    <2> QED
      BY <2>1, <2>2
  <1>5. RowFine(job'[j], j \in blob', DeletingIn(call', j), watcher[job'[j].owner], MainOf(call', job'[j].owner), j)
    BY <1>4 DEF RowFine
  <1>6. \A w \in Watchers : job[j].status \in Active /\ job[j].owner = w /\ s # <<w, "main">> =>
          job'[j].status = job[j].status /\ job'[j].owner = job[j].owner /\ (j \in blob => j \in blob')
    OBVIOUS
  <1>7. \A w \in Watchers : s = <<w, "main">> =>
          /\ WorkerFine(job', blob', w, watcher[w], c)
          /\ \A i \in Jobs \ {j} : ~HasJob(watcher[w], call[s], i)
    BY <1>1
  <1>8. /\ job[j].status # "absent" => job'[j].mode = job[j].mode
        /\ j \in blob' => j \in blob \/ job[j].status \in Active
    OBVIOUS
  <1> QED
    BY <1>1, <1>5, <1>6, <1>7, <1>8, TouchFine

\* What is known of the owner's request, and of its job.
LEMMA ServedOwner ==
  ASSUME FineInv, NEW s \in Slots, call[s].at # "free", call[s].kind \in {"cancel", "delete"}
  PROVE  /\ call[s] \in Calls /\ call[s].job \in Jobs /\ job[call[s].job].status # "absent"
         /\ CurrentIn(job, s, call[s]) /\ TakenAway(blob, call[s]) /\ TypeInv
         /\ \E u \in Users : s = <<u, "main">>
  <1>1. CurrentIn(job, s, call[s]) /\ TakenAway(blob, call[s]) /\ TypeInv
    BY DEF FineInv, SerialInv, Current, CurrentAt, Fine
  <1>2. call[s] \in Calls /\ CallFormed(s, call[s]) /\ \E u \in Users : s = <<u, "main">>
    BY ServedSlot
  <1>3. call[s].job \in Jobs /\ job[call[s].job].status # "absent"
    BY <1>2 DEF CallFormed
  <1> QED
    BY <1>1, <1>2, <1>3

\* A result that is being deleted, but for what this request deletes.
LEMMA StillDeleting ==
  ASSUME FineInv, NEW u \in Users, NEW s \in Slots, s = <<u, "main">>, NEW c, call' = [call EXCEPT ![s] = c],
         NEW j \in Jobs, job[j].status = "Done", j \notin blob, call[s].at # "save" \/ call[s].kind # "delete"
  PROVE  DeletingIn(call', j)
  <1>1. PICK x \in Users : MainOf(call, x).at = "save" /\ MainOf(call, x).kind = "delete" /\ MainOf(call, x).job = j
    BY FineRow DEF DeletingIn
  <1>2. s # <<x, "main">>
    BY <1>1 DEF MainOf
  <1>3. MainOf(call', x) = MainOf(call, x)
    BY <1>2, SlotSet
  <1> QED
    BY <1>1, <1>3 DEF DeletingIn

\* The reading halves of Cancel and Delete, and the first of the owner's steps.
LEMMA AskedFine ==
  ASSUME FineInv, NEW u \in Users, NEW s \in Slots, s = <<u, "main">>, NEW c, call' = [call EXCEPT ![s] = c],
         UNCHANGED <<job, blob, watcher>>, NEW j \in Jobs, job[j].status # "absent",
         call[s].kind = "delete" => call[s].job = j, call[s].at # "save",
         c.at # "save" \/ c.kind # "delete"
  PROVE  Fine'
  <1>1. TakenAway(blob', c)
    BY DEF TakenAway
  <1>2. Kept(job'[j], j \in blob')
    BY FineRow
  <1>3. job'[j].status = "Done" /\ j \notin blob' => DeletingIn(call', j)
    BY StillDeleting
  <1> QED
    BY <1>1, <1>2, <1>3, OwnerFine

LEMMA FineCancelRead ==
  ASSUME FineInv, NEW s \in Slots, CancelRead(s)
  PROVE  Fine'
  <1> DEFINE j == call[s].job
             row == job[j]
             d == [call[s] EXCEPT !.at = "save", !.to = IF row.status = "Queued" THEN "Cancelled" ELSE "beat"]
             c == IF row.status \in Terminal \cup {"gone"} THEN Free ELSE d
  <1>1. call[s].at = "sent" /\ call[s].kind = "cancel" /\ UNCHANGED <<job, blob, watcher>>
        /\ call' = [call EXCEPT ![s] = c]
    BY DEF CancelRead, Arrived
  <1>2. j \in Jobs /\ row.status # "absent" /\ call[s] \in Calls
    BY <1>1, ServedOwner
  <1>3. PICK u \in Users : s = <<u, "main">>
    BY <1>1, ServedOwner
  <1>4. d.kind = "cancel"
    BY <1>1, <1>2 DEF Calls
  <1>5. c.at # "save" \/ c.kind # "delete"
    BY <1>4, ConstantTypes
  <1> HIDE DEF c
  <1> QED
    BY <1>1, <1>2, <1>3, <1>5, AskedFine

LEMMA FineDeleteRead ==
  ASSUME FineInv, NEW s \in Slots, DeleteRead(s)
  PROVE  Fine'
  <1> DEFINE j == call[s].job
             row == job[j]
             d == [call[s] EXCEPT !.at = "blobs", !.result = row.result /\ row.mode # "publish"]
             c == IF MayDelete(row) THEN d ELSE Free
  <1>1. call[s].at = "sent" /\ call[s].kind = "delete" /\ UNCHANGED <<job, blob, watcher>>
        /\ call' = [call EXCEPT ![s] = c]
    BY DEF DeleteRead, Arrived
  <1>2. j \in Jobs /\ row.status # "absent" /\ call[s] \in Calls
    BY <1>1, ServedOwner
  <1>3. PICK u \in Users : s = <<u, "main">>
    BY <1>1, ServedOwner
  <1>4. d.at = "blobs"
    BY <1>1, <1>2 DEF Calls
  <1>5. c.at # "save" \/ c.kind # "delete"
    BY <1>4, ConstantTypes
  <1> HIDE DEF c
  <1> QED
    BY <1>1, <1>2, <1>3, <1>5, AskedFine

LEMMA FineCancelSave ==
  ASSUME FineInv, NEW s \in Slots, CancelSave(s)
  PROVE  Fine'
  <1> DEFINE j == call[s].job
  <1>1. /\ call[s].at = "save" /\ call[s].kind = "cancel" /\ call' = [call EXCEPT ![s] = Free]
        /\ UNCHANGED <<blob, watcher>>
    BY DEF CancelSave
  <1>2. /\ j \in Jobs /\ job[j].status # "absent" /\ call[s] \in Calls /\ TypeInv
        /\ CurrentIn(job, s, call[s])
    BY <1>1, ServedOwner
  <1>3. PICK u \in Users : s = <<u, "main">>
    BY <1>1, ServedOwner
  <1>4. job[j].status \in Active \cup {"Queued"} /\ call[s].to = IF job[j].status = "Queued" THEN "Cancelled" ELSE "beat"
    BY <1>1, <1>2 DEF CurrentIn
  <1>5. job[j].status # "gone"
    BY <1>4 DEF Active
  <1>6. /\ \A i \in Jobs \ {j} : job'[i] = job[i]
        /\ job'[j].status = IF job[j].status = "Queued" THEN "Cancelled" ELSE job[j].status
        /\ job'[j].fresh = job[j].fresh /\ job'[j].result = job[j].result
        /\ job'[j].owner = job[j].owner /\ job'[j].mode = job[j].mode
    BY <1>2, <1>4, <1>5, CancelSaved
  <1>7. TakenAway(blob', Free)
    BY ConstantTypes DEF TakenAway
  <1>8. Kept(job[j], j \in blob)
    BY <1>2, FineRow
  <1> HIDE DEF j
  <1>9. job[j].status = "Queued" => job'[j].status \notin Active \cup {"absent", "Failed", "Done"}
    BY <1>6 DEF Active
  <1>10. job[j].status # "Queued" => job[j].status \in Active /\ job[j].status \notin {"Done", "Failed"}
    BY <1>4 DEF Active
  <1>11. Kept(job'[j], j \in blob')
    <2>1. CASE job[j].status = "Queued"
      <3>1. j \in blob => job[j].mode = "publish"
        BY <1>8, <2>1 DEF Kept, Active, Terminal
      <3> QED
        BY <1>1, <1>6, <1>9, <2>1, <3>1 DEF Kept
    <2>2. CASE job[j].status # "Queued"
      BY <1>1, <1>6, <1>8, <2>2 DEF Kept
    <2> QED
      BY <2>1, <2>2
  <1>12. job'[j].status # "Done"
    BY <1>6, <1>9, <1>10
  <1>13. job[j].status \in Active => job[j].status # "Queued"
    BY DEF Active
  <1>14. call[s].kind # "delete"
    BY <1>1
  <1> QED
    BY <1>1, <1>2, <1>3, <1>6, <1>7, <1>9, <1>10, <1>11, <1>12, <1>13, <1>14, OwnerFine DEF j

LEMMA FineDeleteBlobs ==
  ASSUME FineInv, NEW s \in Slots, DeleteBlobs(s)
  PROVE  Fine'
  <1> DEFINE j == call[s].job
             c == [call[s] EXCEPT !.at = "save"]
  <1>1. /\ call[s].at = "blobs" /\ call' = [call EXCEPT ![s] = c] /\ UNCHANGED <<job, watcher>>
        /\ blob' = IF call[s].result THEN blob \ {j} ELSE blob
    BY DEF DeleteBlobs
  <1>2. call[s].kind = "delete"
    BY <1>1, ServedSlot DEF CallFormed
  <1>3. /\ j \in Jobs /\ job[j].status # "absent" /\ call[s] \in Calls /\ CurrentIn(job, s, call[s])
    BY <1>1, <1>2, ServedOwner
  <1>4. PICK u \in Users : s = <<u, "main">>
    BY <1>1, <1>2, ServedOwner
  <1>5. c.at = "save" /\ c.kind = "delete" /\ c.job = j /\ c.result = call[s].result
    BY <1>1, <1>2, <1>3 DEF Calls
  <1> HIDE DEF c
  <1>6. job[j].status \in Terminal /\ job[j].status \notin Active
    BY <1>1, <1>2, <1>3 DEF CurrentIn, Active, Terminal
  <1>7. MainOf(call', u) = c
    BY <1>1, <1>4, SlotSet
  <1>8. DeletingIn(call', j)
    BY <1>5, <1>7 DEF DeletingIn
  <1>9. j \in blob' => j \in blob
    BY <1>1
  <1>10. TakenAway(blob', c)
    BY <1>1, <1>5 DEF TakenAway
  <1>11. Kept(job'[j], j \in blob')
    <2>1. Kept(job[j], j \in blob)
      BY <1>3, FineRow
    <2> QED
      BY <1>1, <1>9, <2>1 DEF Kept
  <1>12. \A i \in Jobs \ {j} : i \in blob' <=> i \in blob
    BY <1>1
  <1> HIDE DEF j
  <1> QED
    BY <1>1, <1>3, <1>4, <1>6, <1>8, <1>9, <1>10, <1>11, <1>12, OwnerFine DEF j

\* A finished job goes with its result.
LEMMA FineDeleteSave ==
  ASSUME FineInv, NEW s \in Slots, DeleteSave(s)
  PROVE  Fine'
  <1> DEFINE j == call[s].job
  <1>1. /\ call[s].at = "save" /\ call[s].kind = "delete" /\ call' = [call EXCEPT ![s] = Free]
        /\ UNCHANGED <<blob, watcher>>
    BY DEF DeleteSave
  <1>2. /\ j \in Jobs /\ job[j].status # "absent" /\ call[s] \in Calls /\ TypeInv
        /\ CurrentIn(job, s, call[s]) /\ TakenAway(blob, call[s])
    BY <1>1, ServedOwner
  <1>3. PICK u \in Users : s = <<u, "main">>
    BY <1>1, ServedOwner
  <1>4. /\ \A i \in Jobs \ {j} : job'[i] = job[i]
        /\ job'[j].status = "gone" /\ job'[j].mode = job[j].mode
    BY <1>2, DeleteSaved
  <1>5. /\ job[j].status \in Terminal /\ job[j].status \notin Active
        /\ call[s].result = (job[j].result /\ job[j].mode # "publish")
    BY <1>1, <1>2 DEF CurrentIn, Active, Terminal
  <1>6. j \in blob => job[j].mode = "publish"
    <2>1. Kept(job[j], j \in blob)
      BY <1>2, FineRow
    <2> QED
      BY <1>1, <1>2, <1>5, <2>1 DEF Kept, TakenAway
  <1>7. Kept(job'[j], j \in blob')
    BY <1>1, <1>4, <1>6 DEF Kept
  <1>8. TakenAway(blob', Free)
    BY ConstantTypes DEF TakenAway
  <1>9. job'[j].status \notin Active \cup {"Done"}
    BY <1>4 DEF Active
  <1> HIDE DEF j
  <1> QED
    BY <1>1, <1>2, <1>3, <1>4, <1>5, <1>7, <1>8, <1>9, OwnerFine DEF j

LEMMA FineServe ==
  ASSUME FineInv, NEW s \in Slots, Serve(s)
  PROVE  Fine'
  BY FineSweepRead, FineSweepSave, FineClaimNext, FineReportRead, FineReportSave, FinePublishRead,
     FinePublishSave, FineCancelRead, FineCancelSave, FineDeleteRead, FineDeleteBlobs, FineDeleteSave
  DEF Serve

LEMMA FineAsk ==
  ASSUME FineInv, NEW u \in Users, NEW kind \in {"cancel", "delete"}, NEW j \in Jobs, Ask(u, kind, j)
  PROVE  Fine'
  <1> DEFINE c == [Free EXCEPT !.at = "sent", !.kind = kind, !.job = j]
             s == <<u, "main">>
  <1>1. /\ call[s] = Free /\ call' = [call EXCEPT ![s] = c] /\ job[j].status # "absent"
        /\ UNCHANGED <<job, blob, watcher>> /\ s \in Slots
    BY SlotTypes DEF Ask
  <1>2. c.at = "sent" /\ Free.kind # "delete"
    BY ConstantTypes DEF Free, Calls
  <1> HIDE DEF c, s
  <1>3. call[s].kind # "delete" /\ call[s].at # "save"
    BY <1>1, <1>2, ConstantTypes
  <1> QED
    BY <1>1, <1>2, <1>3, AskedFine DEF s

\* A job no one has heard of yet.
LEMMA FineCreate ==
  ASSUME FineInv, NEW j \in Jobs, NEW mode \in Modes, Create(j, mode)
  PROVE  Fine'
  <1>0. TypeInv
    BY DEF FineInv, ToldInv
  <1>1. /\ \A i \in Jobs \ {j} : job'[i] = job[i]
        /\ job[j].status = "absent" /\ job'[j].status = "Queued" /\ UNCHANGED <<blob, call, watcher>>
    BY <1>0, Created DEF Create
  <1>2. j \notin blob
    <2>1. Kept(job[j], j \in blob)
      BY FineRow
    <2> QED
      BY <1>1, <2>1 DEF Kept
  <1>3. ASSUME NEW w \in Watchers PROVE WorkerFine(job', blob, w, watcher[w], MainOf(call, w))
    <2> DEFINE p == watcher[w]
               c == MainOf(call, w)
    <2>1. WorkerFine(job, blob, w, p, c) /\ WatcherFormed(w, p, c, Beats(w)) /\ c \in Calls
      BY FineWorker
    <2> HIDE DEF p, c
    <2>2. p.pc \notin OffWork => p.job \in Jobs /\ job'[p.job] = job[p.job]
      BY <1>1, <2>1 DEF WatcherFormed
    <2>3. c.at = "reply" /\ c.kind = "claim" /\ c.job # NoJob => job'[c.job] = job[c.job]
      BY <1>1, <2>1 DEF WorkerFine, Calls
    <2> QED
      BY <2>1, <2>2, <2>3 DEF WorkerFine, p, c
  <1>4. ASSUME NEW i \in Jobs
        PROVE  RowFine(job'[i], i \in blob, DeletingIn(call, i), watcher[job'[i].owner], MainOf(call, job'[i].owner), i)
    <2>1. CASE i = j
      <3>1. Owned(job'[i], i \in blob, watcher[job'[i].owner], MainOf(call, job'[i].owner), i)
        BY <1>1, <2>1 DEF Owned, Active
      <3> QED
        BY <1>1, <1>2, <2>1, <3>1 DEF RowFine, Kept
    <2>2. CASE i # j
      BY <1>1, <2>2 DEF FineInv, Fine, RowsFine
    <2> QED
      BY <2>1, <2>2
  <1>5. WorkersFine' /\ RowsFine'
    BY <1>1, <1>3, <1>4 DEF WorkersFine, RowsFine
  <1>6. (\A w \in Watchers : call[<<w, "late">>] = Free)' /\ (\A s \in Slots : TakenAway(blob, call[s]))'
    BY <1>1 DEF FineInv, Fine
  <1> QED
    BY <1>5, <1>6 DEF Fine

\* The claim of a watcher at work does not age without an outage.
LEMMA FineAgeOut ==
  ASSUME FineInv, NEW j \in Jobs, AgeOut(j)
  PROVE  faults' = faults + 1
  <1> DEFINE w == job[j].owner
  <1>1. job[j].status \in Active
    BY DEF AgeOut
  <1>2. w \in Watchers /\ HasJob(watcher[w], MainOf(call, w), j)
    BY <1>1, FineRow DEF Owned
  <1>3. watcher[w].job = j \/ call[<<w, "main">>].job = j
    BY <1>2 DEF HasJob, MainOf
  <1>4. AtWork(j)
    BY <1>2, <1>3 DEF AtWork
  <1> QED
    BY <1>4 DEF AgeOut

-----------------------------------------------------------------------------
(* The watcher's steps.                                                        *)

\* Without a job before or after.
LEMMA OffFine ==
  ASSUME FineInv, NEW w \in Watchers, NEW q, NEW m, UNCHANGED <<job, blob>>,
         watcher' = [watcher EXCEPT ![w] = q], OnlyMine(w, m),
         q.pc \in {"idle", "claiming"}, ~m.conflict, m.at # "reply",
         \A j \in Jobs : ~HasJob(watcher[w], MainOf(call, w), j)
  PROVE  Fine'
  <1>1. WorkerFine(job, blob', w, q, m)
    BY DEF WorkerFine, OffWork
  <1>2. Keeps(w, q, m) /\ Grown(w)
    BY DEF Keeps, Grown
  <1> QED
    BY <1>1, <1>2, WorkFine

\* With the same job before and after.
LEMMA OnFine ==
  ASSUME FineInv, NEW w \in Watchers, NEW q, NEW m, UNCHANGED <<job, blob>>,
         watcher' = [watcher EXCEPT ![w] = q], OnlyMine(w, m),
         watcher[w].pc \notin OffWork, q.pc \notin OffWork,
         q.job = watcher[w].job, q.mode = watcher[w].mode, ~m.conflict, m.at # "reply" \/ m.kind # "claim",
         ~OverAs(m), q.pc = "reporting" /\ m.kind = "report" => m.to # "Claimed", Clean(q, m),
         Fits(w, q, m, job[q.job], q.job \in blob),
         q.mode # "publish" /\ Brings(watcher[w], MainOf(call, w)) => Brings(q, m)
  PROVE  Fine'
  <1> DEFINE p == watcher[w]
             c == MainOf(call, w)
  <1>1. WorkerFine(job, blob, w, p, c) /\ p.pc \notin OffWork /\ q.job = p.job /\ q.mode = p.mode
    BY FineWorker
  <1>2. job[q.job].mode = q.mode
    BY <1>1 DEF WorkerFine
  <1>3. WorkerFine(job, blob', w, q, m)
    BY <1>2 DEF WorkerFine
  <1>4. q.mode # "publish" /\ Brings(p, c) => Brings(q, m)
    OBVIOUS
  <1> HIDE DEF p, c
  <1>5. \A j \in Jobs : HasJob(p, c, j) => HasJob(q, m, j) /\ j = q.job
    BY <1>1 DEF HasJob, OffWork
  <1>6. \A j \in Jobs : HasJob(p, c, j) /\ job[j].mode # "publish" => (Brings(p, c) => Brings(q, m))
    BY <1>2, <1>4, <1>5
  <1>7. Keeps(w, q, m) /\ Grown(w)
    BY <1>5, <1>6 DEF Keeps, Grown, p, c
  <1> QED
    BY <1>3, <1>7, WorkFine

\* A handler that has its job, and what its row says then.
LEMMA AtWorkFine ==
  ASSUME FineInv, NEW w \in Watchers, watcher[w].pc \notin OffWork \cup {"reporting"}
  PROVE  /\ watcher[w] \in Processes /\ MainOf(call, w).at = "free" /\ MainOf(call, w) \in Calls
         /\ watcher[w].job \in Jobs /\ job[watcher[w].job].mode = watcher[w].mode
         /\ job[watcher[w].job].owner = w /\ job[watcher[w].job].status \in Active
         /\ watcher[w].pc = "claimed" => job[watcher[w].job].status = "Claimed"
         /\ watcher[w].pc \in {"running", "stopping", "solved"} => job[watcher[w].job].status = "Running"
         /\ watcher[w].pc = "uploading" => job[watcher[w].job].status = "Uploading"
         /\ watcher[w].pc = "closing" /\ watcher[w].out = "result" =>
              job[watcher[w].job].status = "Uploading" /\ watcher[w].job \in blob
         /\ watcher[w].pc # "closing" => watcher[w].out = "result"
         /\ watcher[w].mode \in Asking => watcher[w].out # "Failed"
         /\ ~OverAs(MainOf(call, w)) /\ ~MainOf(call, w).conflict
         /\ watcher[w].pc # "closing" => ~Brings(watcher[w], MainOf(call, w))
  <1> DEFINE p == watcher[w]
             c == MainOf(call, w)
  <1>1. /\ p \in Processes /\ WatcherFormed(w, p, c, Beats(w)) /\ WorkerFine(job, blob, w, p, c) /\ c \in Calls
        /\ p.pc \notin OffWork \cup {"reporting"} /\ c.at = "free"
    BY FineWorker DEF OffWork
  <1> HIDE DEF p, c
  <1>2. ~OverAs(c) /\ ~c.conflict
    BY <1>1 DEF OverAs, WorkerFine
  <1>3. Fits(w, p, c, job[p.job], p.job \in blob) /\ Clean(p, c) /\ job[p.job].mode = p.mode
    BY <1>1, <1>2 DEF WorkerFine
  <1>4. p.pc # "closing" => p.out = "result" /\ ~Brings(p, c)
    BY <1>1 DEF WatcherFormed, Processes, Steps, OffWork, Brings
  <1>5. p.job \in Jobs
    BY <1>1 DEF WatcherFormed
  <1>6. /\ job[p.job].owner = w /\ job[p.job].status \in Active
        /\ p.pc = "claimed" => job[p.job].status = "Claimed"
        /\ p.pc \in {"running", "stopping", "solved"} => job[p.job].status = "Running"
        /\ p.pc = "uploading" => job[p.job].status = "Uploading"
        /\ p.pc = "closing" /\ p.out = "result" => job[p.job].status = "Uploading" /\ p.job \in blob
    BY <1>3 DEF Fits
  <1> QED
    BY <1>1, <1>2, <1>3, <1>4, <1>5, <1>6 DEF Clean, p, c

LEMMA FinePoll ==
  ASSUME FineInv, NEW w \in Watchers, Poll(w)
  PROVE  Fine'
  <1> DEFINE q == [Idle EXCEPT !.pc = "claiming"]
             m == [Free EXCEPT !.at = "sent"]
  <1>1. /\ watcher[w].pc = "idle" /\ UNCHANGED <<job, blob>> /\ watcher' = [watcher EXCEPT ![w] = q]
        /\ call' = [call EXCEPT ![<<w, "main">>] = m]
    BY DEF Poll, Become, Send
  <1>2. q.pc = "claiming" /\ m.at = "sent" /\ m.kind = "claim" /\ ~m.conflict
    BY ConstantTypes DEF Processes, Calls, Free
  <1> HIDE DEF q, m
  <1>3. OnlyMine(w, m)
    BY <1>1, <1>2, MineMain
  <1>4. \A j \in Jobs : ~HasJob(watcher[w], MainOf(call, w), j)
    BY <1>1 DEF HasJob, OffWork
  <1> QED
    BY <1>1, <1>2, <1>3, <1>4, OffFine

LEMMA FineRestart ==
  ASSUME FineInv, NEW w \in Watchers, Restart(w)
  PROVE  Fine'
  <1>1. watcher[w].pc = "down" /\ UNCHANGED <<job, blob, call>> /\ watcher' = [watcher EXCEPT ![w] = Idle]
    BY DEF Restart, Become
  <1>2. MainOf(call, w).at = "free" /\ ~MainOf(call, w).conflict
    BY <1>1, FineWorker DEF WorkerFine
  <1>3. \A j \in Jobs : ~HasJob(watcher[w], MainOf(call, w), j)
    BY <1>1 DEF HasJob, OffWork
  <1> QED
    BY <1>1, <1>2, <1>3, ConstantTypes, MineSame, OffFine

LEMMA FineReportStage ==
  ASSUME FineInv, NEW w \in Watchers, ReportStage(w)
  PROVE  Fine'
  <1> DEFINE p == watcher[w]
             q == Step(p, "reporting", p.out)
  <1>0. TypeInv
    BY DEF FineInv, ToldInv
  <1>1. PICK to \in {"Running", "Uploading"} :
          /\ p.pc = (IF to = "Running" THEN "claimed" ELSE "solved")
          /\ Send(w, Report(w, to)) /\ UNCHANGED <<job, blob>>
          /\ watcher' = [watcher EXCEPT ![w] = [p EXCEPT !.pc = "reporting"]]
    BY DEF ReportStage, Become
  <1> DEFINE m == Sent(w, to, FALSE)
  <1>2. /\ p \in Processes /\ p.job \in Jobs /\ job[p.job].owner = w /\ job[p.job].status \in Active
        /\ job[p.job].status = (IF to = "Running" THEN "Claimed" ELSE "Running")
        /\ p.out = "result" /\ p.pc \notin OffWork /\ ~Brings(p, MainOf(call, w))
    BY <1>1, AtWorkFine DEF OffWork
  <1>3. /\ q.pc = "reporting" /\ q.job = p.job /\ q.mode = p.mode /\ q.out = p.out
        /\ watcher' = [watcher EXCEPT ![w] = q]
    <2>1. "reporting" \in Steps
      BY DEF Steps
    <2> QED
      BY <1>1, <1>2, <2>1, SteppedOn
  <1>4. to \in Active \cup Terminal \cup {"beat"} /\ to \in Active /\ to \notin Terminal
    BY DEF Active, Terminal
  <1>5. /\ m.at = "sent" /\ m.kind = "report" /\ m.to = to /\ m.conflict = FALSE
        /\ call' = [call EXCEPT ![<<w, "main">>] = m]
    BY <1>1, <1>2, <1>4, ReportCall DEF Send
  <1> HIDE DEF q, m
  <1>6. OnlyMine(w, m)
    BY <1>5, MineMain
  <1>7. Clean(q, m) /\ ~OverAs(m) /\ q.pc \notin OffWork
    BY <1>2, <1>3, <1>5 DEF Clean, OverAs, OffWork
  <1>8. Fits(w, q, m, job[q.job], q.job \in blob)
    BY <1>2, <1>3, <1>4, <1>5 DEF Fits
  <1>9. to # "Claimed"
    OBVIOUS
  <1> QED
    BY <1>1, <1>2, <1>3, <1>5, <1>6, <1>7, <1>8, <1>9, OnFine

\* A child goes on, ends or is stopped.
LEMMA ChildFine ==
  ASSUME FineInv, NEW w \in Watchers, watcher[w].pc \in {"running", "stopping"}, NEW q,
         UNCHANGED <<job, blob, call>>, watcher' = [watcher EXCEPT ![w] = q],
         q.pc \in {"running", "stopping", "solved", "closing"}, q.pc = "closing" => q.out # "result",
         q.job = watcher[w].job, q.mode = watcher[w].mode, q.mode \in Asking => q.out # "Failed"
  PROVE  Fine'
  <1> DEFINE p == watcher[w]
             m == MainOf(call, w)
  <1>1. /\ p \in Processes /\ p.job \in Jobs /\ job[p.job].owner = w /\ job[p.job].status \in Active
        /\ job[p.job].status = "Running" /\ m.at = "free" /\ ~OverAs(m) /\ ~m.conflict
        /\ ~Brings(p, m) /\ p.pc \notin OffWork
    BY AtWorkFine DEF OffWork
  <1>2. OnlyMine(w, m)
    BY MineSame
  <1>3. Clean(q, m) /\ Fits(w, q, m, job[q.job], q.job \in blob) /\ q.pc \notin OffWork
    BY <1>1 DEF Clean, Fits, OffWork
  <1> QED
    BY <1>1, <1>2, <1>3, OnFine

\* The first child of a handler that asks is one it knows of.
LEMMA FirstChild ==
  ASSUME NEW p \in Processes, p.todo # <<>>, p.mode \in Asking,
         \A i \in 1..Len(p.todo) : p.todo[i] \in AskingChildren
  PROVE  Child(p) \in AskingChildren
  <1>1. p.todo \in Seq(ChildKinds)
    BY PlanTypes DEF Processes
  <1> DEFINE t == p.todo
  <1>2. t \in Seq(ChildKinds) /\ t # <<>> /\ \A i \in 1..Len(t) : t[i] \in AskingChildren
    BY <1>1
  <1> HIDE DEF t
  <1>3. Head(t) = t[1] /\ 1 \in 1..Len(t)
    BY <1>2
  <1> QED
    BY <1>2, <1>3 DEF Child, t

LEMMA FineChildren ==
  ASSUME FineInv, NEW w \in Watchers, ChildSucceeds(w) \/ ApplyStop(w) \/ EngineStops(w)
  PROVE  Fine'
  <1> DEFINE p == watcher[w]
             n == Noticed(p)
  <1>1. p.pc \in {"running", "stopping"} /\ UNCHANGED <<job, blob, call>>
    BY DEF ChildSucceeds, ApplyStop, EngineStops
  <1>2. /\ p \in Processes /\ p.out = "result" /\ WatcherFormed(w, p, MainOf(call, w), Beats(w))
    BY <1>1, AtWorkFine, FineWorker DEF OffWork
  <1>3. /\ p.todo # <<>> /\ (p.pc = "stopping" => p.applied /\ Engine(p))
        /\ p.mode \in Asking => \A i \in 1..Len(p.todo) : p.todo[i] \in AskingChildren
    BY <1>1, <1>2 DEF WatcherFormed
  <1>4. /\ n \in Processes /\ n.applied = TRUE /\ n.pc = p.pc /\ n.job = p.job /\ n.mode = p.mode
        /\ n.todo = p.todo /\ n.out = p.out /\ Engine(n) = Engine(p) /\ Child(n) = Child(p)
    BY <1>2, NoticedForm
  <1>5. p.mode \in Asking => Child(p) \in AskingChildren
    BY <1>2, <1>3, FirstChild
  <1> HIDE DEF n
  <1>6. ASSUME NEW r \in Processes, r.todo = p.todo, r.job = p.job, r.mode = p.mode, r.out = p.out,
               watcher' = [watcher EXCEPT ![w] = Advanced(r)]
        PROVE  Fine'
    <2>1. /\ Advanced(r).job = r.job /\ Advanced(r).mode = r.mode
          /\ Advanced(r).pc \in {"closing", "running", "solved"}
          /\ Advanced(r).out = (IF Engine(r) /\ r.disowned THEN "Cancelled" ELSE r.out)
          /\ Engine(r) /\ r.disowned <=> Advanced(r).pc = "closing"
      BY <1>3, <1>6, AdvancedForm
    <2> QED
      BY <1>1, <1>2, <1>6, <2>1, ChildFine
  <1>7. ASSUME NEW r \in Processes, r.job = p.job, r.mode = p.mode, r.applied,
               p.mode \in Asking => Engine(r) \/ Child(r) = "extract",
               watcher' = [watcher EXCEPT ![w] = Raised(r, Missing(r))]
        PROVE  Fine'
    <2> DEFINE out == Missing(r)
               q == Raised(r, out)
    <2>1. out \in {"Cancelled", "Failed"} /\ (p.mode \in Asking => out = "Cancelled")
      BY <1>7 DEF Missing, Asking
    <2>2. watcher' = [watcher EXCEPT ![w] = q]
      BY <1>7
    <2> HIDE DEF out
    <2>3. "closing" \in Steps
      BY DEF Steps
    <2>4. q.pc = "closing" /\ q.out = out /\ q.job = r.job /\ q.mode = r.mode
      BY <2>1, <2>3, Stepped
    <2> HIDE DEF q
    <2>5. q.pc = "closing" /\ q.out # "result" /\ q.job = p.job /\ q.mode = p.mode /\ (q.mode \in Asking => q.out # "Failed")
      BY <1>7, <2>1, <2>4
    <2> QED
      BY <1>1, <2>2, <2>5, ChildFine
  <1>8. CASE ChildSucceeds(w)
    BY <1>2, <1>6, <1>8 DEF ChildSucceeds, Become
  <1>9. CASE EngineStops(w)
    <2>1. \/ watcher' = [watcher EXCEPT ![w] = Advanced(p)]
          \/ watcher' = [watcher EXCEPT ![w] = Raised(p, Missing(p))]
      BY <1>9 DEF EngineStops, Become
    <2>2. p.applied /\ Engine(p)
      BY <1>3, <1>9 DEF EngineStops
    <2> QED
      BY <1>2, <1>6, <1>7, <2>1, <2>2
  <1>10. CASE ApplyStop(w)
    <2>1. /\ Stoppable(p)
          /\ IF Engine(n) THEN watcher' = [watcher EXCEPT ![w] = [n EXCEPT !.pc = "stopping"]]
             ELSE \/ watcher' = [watcher EXCEPT ![w] = Advanced(n)]
                  \/ watcher' = [watcher EXCEPT ![w] = Raised(n, Missing(n))]
      BY <1>10 DEF ApplyStop, Become, Noticed, n
    <2>2. CASE watcher' = [watcher EXCEPT ![w] = [n EXCEPT !.pc = "stopping"]]
      <3> DEFINE q == Step(n, "stopping", n.out)
      <3>1. "stopping" \in Steps
        BY DEF Steps
      <3>2. q.pc = "stopping" /\ q.job = n.job /\ q.mode = n.mode /\ q.out = n.out
            /\ q = [n EXCEPT !.pc = "stopping"]
        BY <1>4, <3>1, SteppedOn
      <3> HIDE DEF q
      <3> QED
        BY <1>1, <1>2, <1>4, <2>2, <3>2, ChildFine
    <2>3. CASE watcher' = [watcher EXCEPT ![w] = Advanced(n)]
      BY <1>4, <1>6, <2>3
    <2>4. CASE ~Engine(n) /\ watcher' = [watcher EXCEPT ![w] = Raised(n, Missing(n))]
      <3>1. Child(n) # "dump" /\ Child(n) # "solve"
        BY <1>4, <2>1, <2>4 DEF Stoppable, Engine
      <3>2. p.mode \in Asking => Child(n) = "extract"
        BY <1>4, <1>5, <3>1 DEF AskingChildren
      <3> QED
        BY <1>4, <1>7, <2>4, <3>2
    <2> QED
      BY <2>1, <2>2, <2>3, <2>4
  <1> QED
    BY <1>8, <1>9, <1>10

LEMMA FineReceive ==
  ASSUME FineInv, NEW w \in Watchers, Receive(w)
  PROVE  Fine'
  <1> DEFINE p == watcher[w]
             c == MainOf(call, w)
             q == After(w, c)
  <1>0. TypeInv
    BY DEF FineInv, ToldInv
  <1>1. /\ c.at = "reply" /\ watcher' = [watcher EXCEPT ![w] = q] /\ UNCHANGED <<job, blob>>
        /\ call' = [call EXCEPT ![<<w, "main">>] = Free]
    BY DEF Receive, Leaves, Become, MainOf
  <1>2. /\ p \in Processes /\ c \in Calls /\ WatcherFormed(w, p, c, Beats(w)) /\ WorkerFine(job, blob, w, p, c)
        /\ CallFormed(<<w, "main">>, c) /\ ~c.conflict
    BY FineWorker DEF WorkerFine
  <1>3. Free.at = "free" /\ Free.kind = "claim" /\ ~Free.conflict /\ ~OverAs(Free)
    BY ConstantTypes DEF Free, OverAs
  <1>4. OnlyMine(w, Free)
    BY <1>1, <1>3, MineMain
  <1>5. c.kind \in {"claim", "report", "publish"}
    BY <1>1, <1>2, SlotTypes DEF CallFormed, Calls
  <1>6. CASE c.kind = "claim" /\ c.job # NoJob
    <2> DEFINE mode == job[c.job].mode
               todo == Children[mode]
               n == [Idle EXCEPT !.pc = "claimed", !.job = c.job, !.mode = mode, !.todo = todo]
    <2>1. q = n
      BY <1>1, <1>6 DEF After
    <2>2. p.pc = "claiming" /\ c.job \in Jobs /\ job[c.job].status = "Claimed" /\ job[c.job].owner = w
      BY <1>1, <1>2, <1>6 DEF WatcherFormed, WorkerFine, Calls
    <2> HIDE DEF mode, todo
    <2>3. n.pc = "claimed" /\ n.job = c.job /\ n.mode = mode /\ n.out = "result"
      BY DEF Idle
    <2> HIDE DEF n, q, p, c
    <2>4. Fits(w, q, Free, job[q.job], q.job \in blob) /\ Clean(q, Free) /\ q.pc \notin OffWork
      BY <1>3, <2>1, <2>2, <2>3 DEF Fits, Clean, Active, OffWork
    <2>5. WorkerFine(job, blob', w, q, Free)
      BY <1>1, <1>3, <2>1, <2>3, <2>4 DEF WorkerFine, mode
    <2>6. Keeps(w, q, Free) /\ Grown(w)
      <3>1. \A j \in Jobs : HasJob(p, c, j) => HasJob(q, Free, j)
        BY <1>3, <2>1, <2>2, <2>3, <2>4 DEF HasJob, OffWork
      <3>2. ~Brings(p, c)
        BY <2>2 DEF Brings
      <3> QED
        BY <1>1, <3>1, <3>2 DEF Keeps, Grown, p, c
    <2> QED
      BY <1>1, <1>4, <2>5, <2>6, WorkFine
  <1>7. ASSUME q = Idle, \A j \in Jobs : ~HasJob(p, c, j) PROVE Fine'
    BY <1>1, <1>3, <1>4, <1>7, ConstantTypes, OffFine
  <1>8. CASE c.kind = "claim" /\ c.job = NoJob
    <2>1. q = Idle
      BY <1>8 DEF After
    <2>2. p.pc = "claiming" /\ NoJob \notin Jobs
      BY <1>1, <1>2, <1>8, ConstantTypes DEF WatcherFormed
    <2>3. \A j \in Jobs : ~HasJob(p, c, j)
      BY <1>8, <2>2 DEF HasJob, OffWork
    <2> QED
      BY <1>7, <2>1, <2>3
  <1>9. CASE c.kind # "claim"
    <2> DEFINE row == job[p.job]
               in == p.job \in blob
    <2>1. p.pc = "reporting" /\ p.pc \notin OffWork /\ c.job = p.job
      BY <1>1, <1>2, <1>9 DEF WatcherFormed, OffWork
    <2>2. ~OverAs(c) => Fits(w, p, c, row, in)
      BY <1>2, <2>1 DEF WorkerFine
    <2>3. ASSUME ~OverAs(c), ~Brings(p, c), NEW a \in Processes, NEW pc \in {"running", "uploading", "closing"},
                 q = Step(a, pc, "result"), a.job = p.job, a.mode = p.mode,
                 row.status = (IF pc = "running" THEN "Running" ELSE "Uploading"), pc = "closing" => in
          PROVE  Fine'
      <3>1. pc \in Steps
        BY DEF Steps
      <3>2. q.pc = pc /\ q.out = "result" /\ q.job = p.job /\ q.mode = p.mode
        BY <2>3, <3>1, Stepped
      <3> HIDE DEF q
      <3>3. row.owner = w /\ row.status \in Active
        BY <2>2, <2>3 DEF Fits
      <3>4. Fits(w, q, Free, job[q.job], q.job \in blob) /\ Clean(q, Free) /\ q.pc \notin OffWork
        BY <1>3, <2>3, <3>2, <3>3 DEF Fits, Clean, OffWork
      <3> QED
        BY <1>1, <1>3, <1>4, <2>1, <2>3, <3>2, <3>4, OnFine
    <2>4. CASE c.kind = "publish"
      <3>1. p.out = "result" /\ ~OverAs(c) /\ ~Brings(p, c)
        BY <1>1, <1>2, <2>1, <2>4 DEF WatcherFormed, OverAs, Brings
      <3>2. row.status = "Uploading" /\ in
        BY <1>1, <2>1, <2>2, <2>4, <3>1 DEF Fits
      <3>3. q = Step(p, "closing", "result")
        BY <1>1, <1>2, <2>4, <3>1 DEF After, Step, Processes
      <3> QED
        BY <1>2, <2>3, <3>1, <3>2, <3>3
    <2>5. CASE c.kind = "report" /\ c.to = "Running"
      <3>1. p.out = "result" /\ ~OverAs(c) /\ ~Brings(p, c)
        BY <1>1, <1>2, <2>1, <2>5 DEF WatcherFormed, OverAs, Brings, Terminal
      <3>2. row.status = "Running"
        BY <1>1, <2>1, <2>2, <2>5, <3>1 DEF Fits, Active
      <3> DEFINE a == Observed(p, c)
      <3>3. a \in Processes /\ a.job = p.job /\ a.mode = p.mode /\ a.out = "result"
        BY <1>2, <3>1, ObservedForm
      <3>4. q = [a EXCEPT !.pc = "running"]
        BY <1>1, <1>2, <2>5 DEF After
      <3> HIDE DEF a, q
      <3>5. "running" \in Steps
        BY DEF Steps
      <3>6. q = Step(a, "running", "result")
        BY <3>3, <3>4, <3>5, SteppedOn
      <3> QED
        BY <2>3, <3>1, <3>2, <3>3, <3>6
    <2>6. CASE c.kind = "report" /\ c.to = "Uploading"
      <3>1. p.out = "result" /\ ~OverAs(c) /\ ~Brings(p, c)
        BY <1>1, <1>2, <2>1, <2>6 DEF WatcherFormed, OverAs, Brings, Terminal
      <3>2. row.status = "Uploading"
        BY <1>1, <2>1, <2>2, <2>6, <3>1 DEF Fits, Active
      <3>3. q = [p EXCEPT !.pc = "uploading"]
        BY <1>1, <1>2, <2>6 DEF After
      <3> HIDE DEF q
      <3>4. "uploading" \in Steps
        BY DEF Steps
      <3>5. q = Step(p, "uploading", "result")
        BY <1>2, <3>1, <3>3, <3>4, SteppedOn
      <3> QED
        BY <1>2, <2>3, <3>1, <3>2, <3>5
    <2>7. CASE c.kind = "report" /\ c.to \notin {"Running", "Uploading"}
      <3>1. q = Idle
        BY <2>7 DEF After
      <3>2. c.to \in Terminal
        BY <1>1, <1>2, <2>1, <2>7 DEF WatcherFormed, WorkerFine, Calls, Active
      <3>3. OverAs(c)
        BY <1>1, <2>7, <3>2 DEF OverAs
      <3>4. \A j \in Jobs : ~HasJob(p, c, j)
        BY <2>1, <3>3 DEF HasJob
      <3> QED
        BY <1>7, <3>1, <3>4
    <2> QED
      BY <1>5, <1>9, <2>4, <2>5, <2>6, <2>7
  <1> QED
    BY <1>6, <1>8, <1>9

LEMMA FineHear ==
  ASSUME FineInv, NEW w \in Watchers, Hear(w)
  PROVE  Fine'
  <1> DEFINE p == watcher[w]
             c == MainOf(call, w)
             q == Observed(p, Beats(w))
  <1>1. /\ watcher' = [watcher EXCEPT ![w] = q] /\ UNCHANGED <<job, blob>>
        /\ call' = [call EXCEPT ![<<w, "beat">>] = Free]
    BY DEF Hear, Become, Beats
  <1>2. p \in Processes /\ Beats(w) \in Calls /\ WorkerFine(job, blob, w, p, c)
    BY FineWorker
  <1>3. q.pc = p.pc /\ q.out = p.out /\ q.job = p.job /\ q.mode = p.mode
    BY <1>2, ObservedForm
  <1>4. Free.kind # "delete"
    BY DEF Free
  <1>5. OnlyMine(w, c)
    BY <1>1, <1>4, MineBeat
  <1> HIDE DEF p, c, q
  <1>6. WorkerFine(job, blob', w, q, c)
    BY <1>1, <1>2, <1>3 DEF WorkerFine, Fits, Clean
  <1>7. Keeps(w, q, c) /\ Grown(w)
    BY <1>1, <1>3 DEF Keeps, Grown, HasJob, Brings, p, c
  <1> QED
    BY <1>1, <1>5, <1>6, <1>7, WorkFine

LEMMA FineBeat ==
  ASSUME FineInv, NEW w \in Watchers, Beat(w)
  PROVE  Fine'
  <1>1. /\ UNCHANGED <<job, blob, watcher>>
        /\ call' = [call EXCEPT ![<<w, "beat">>] = [Report(w, "beat") EXCEPT !.at = "sent"]]
    BY DEF Beat
  <1>2. [Report(w, "beat") EXCEPT !.at = "sent"].kind = "report"
    <2> DEFINE r == Report(w, "beat")
    <2>1. r \in Calls /\ r.kind = "report"
      BY ReportFields DEF FineInv, ToldInv
    <2> HIDE DEF r
    <2>2. [r EXCEPT !.at = "sent"].kind = "report"
      BY <2>1 DEF Calls
    <2> QED
      BY <2>2 DEF r
  <1> QED
    BY <1>1, <1>2, BeatFine

LEMMA FineUpload ==
  ASSUME FineInv, NEW w \in Watchers, Upload(w)
  PROVE  Fine'
  <1> DEFINE p == watcher[w]
             c == MainOf(call, w)
  <1>1. p.pc = "uploading" /\ UNCHANGED job
    BY DEF Upload
  <1>2. /\ p \in Processes /\ p.job \in Jobs /\ job[p.job].owner = w /\ job[p.job].status \in Active
        /\ job[p.job].status = "Uploading" /\ p.out = "result" /\ p.pc \notin OffWork
        /\ c.at = "free" /\ ~OverAs(c) /\ ~c.conflict /\ job[p.job].mode = p.mode
        /\ ~Brings(p, c)
    BY <1>1, AtWorkFine DEF OffWork
  <1>3. "closing" \in Steps /\ "reporting" \in Steps
    BY DEF Steps
  <1>4. ASSUME p.mode # "publish", blob' = blob \cup {p.job}, UNCHANGED call,
               watcher' = [watcher EXCEPT ![w] = [p EXCEPT !.pc = "closing"]]
        PROVE  Fine'
    <2> DEFINE q == Step(p, "closing", p.out)
    <2>1. /\ q.pc = "closing" /\ q.out = "result" /\ q.job = p.job /\ q.mode = p.mode
          /\ watcher' = [watcher EXCEPT ![w] = q]
      BY <1>2, <1>3, <1>4, SteppedOn
    <2>2. OnlyMine(w, c)
      BY <1>4, MineSame
    <2> HIDE DEF q, p, c
    <2>3. Grown(w)
      BY <1>2, <1>4 DEF Grown
    <2>4. Fits(w, q, c, job[q.job], q.job \in blob') /\ Clean(q, c) /\ q.pc \notin OffWork
      BY <1>2, <1>4, <2>1 DEF Fits, Clean, OffWork
    <2>5. WorkerFine(job, blob', w, q, c)
      BY <1>2, <2>1, <2>4 DEF WorkerFine
    <2>6. Keeps(w, q, c)
      <3>1. Brings(q, c) /\ \A j \in Jobs : HasJob(p, c, j) => HasJob(q, c, j)
        BY <1>1, <1>2, <2>1, <2>4 DEF Brings, HasJob, OffWork
      <3> QED
        BY <3>1 DEF Keeps, p, c
    <2> QED
      BY <1>1, <2>1, <2>2, <2>3, <2>5, <2>6, WorkFine
  <1>5. ASSUME Send(w, [Free EXCEPT !.kind = "publish", !.job = p.job]), UNCHANGED blob,
               watcher' = [watcher EXCEPT ![w] = [p EXCEPT !.pc = "reporting"]]
        PROVE  Fine'
    <2> DEFINE q == Step(p, "reporting", p.out)
               d == [Free EXCEPT !.kind = "publish", !.job = p.job]
               m == [d EXCEPT !.at = "sent"]
    <2>1. q.pc = "reporting" /\ q.out = "result" /\ q.job = p.job /\ q.mode = p.mode
          /\ watcher' = [watcher EXCEPT ![w] = q]
      BY <1>2, <1>3, <1>5, SteppedOn
    <2>2. d \in Calls /\ d.kind = "publish" /\ ~d.conflict
      BY <1>2, ConstantTypes DEF Calls, Free
    <2>3. call' = [call EXCEPT ![<<w, "main">>] = m]
      BY <1>5 DEF Send
    <2> HIDE DEF d
    <2>4. m.at = "sent" /\ m.kind = "publish" /\ ~m.conflict
      BY <2>2 DEF Calls
    <2> HIDE DEF q, m
    <2>5. OnlyMine(w, m)
      BY <2>3, <2>4, MineMain
    <2>6. Fits(w, q, m, job[q.job], q.job \in blob) /\ Clean(q, m) /\ q.pc \notin OffWork /\ ~OverAs(m)
      BY <1>2, <2>1, <2>4 DEF Fits, Clean, OffWork, OverAs
    <2> QED
      BY <1>1, <1>2, <1>5, <2>1, <2>4, <2>5, <2>6, OnFine
  <1> QED
    BY <1>4, <1>5 DEF Upload, Become

LEMMA FineClose ==
  ASSUME FineInv, NEW w \in Watchers, Close(w)
  PROVE  Fine'
  <1> DEFINE p == watcher[w]
             c == MainOf(call, w)
             q == Step(p, "reporting", p.out)
  <1>0. TypeInv
    BY DEF FineInv, ToldInv
  <1>1. p.pc = "closing" /\ UNCHANGED <<job, blob>> /\ watcher' = [watcher EXCEPT ![w] = [p EXCEPT !.pc = "reporting"]]
    BY DEF Close, Become
  <1>2. /\ p \in Processes /\ p.job \in Jobs /\ job[p.job].owner = w /\ job[p.job].status \in Active
        /\ p.out = "result" => job[p.job].status = "Uploading" /\ p.job \in blob
        /\ p.mode \in Asking => p.out # "Failed"
        /\ p.pc \notin OffWork
    BY <1>1, AtWorkFine DEF OffWork
  <1>3. /\ q.pc = "reporting" /\ q.out = p.out /\ q.job = p.job /\ q.mode = p.mode
        /\ watcher' = [watcher EXCEPT ![w] = q]
    <2>1. "reporting" \in Steps
      BY DEF Steps
    <2> QED
      BY <1>1, <1>2, <2>1, SteppedOn
  <1> HIDE DEF q
  <1>4. ASSUME NEW m, m.at = "sent", m.kind = "report", ~m.conflict, call' = [call EXCEPT ![<<w, "main">>] = m],
               m.to \in Terminal, m.to = "Done" => p.out = "result", m.to = "Failed" => p.out = "Failed",
               p.out = "result" /\ p.mode # "publish" => Brings(q, m)
        PROVE  Fine'
    <2>1. OnlyMine(w, m)
      BY <1>4, MineMain
    <2>2. m.to \notin Active
      BY <1>4 DEF Active, Terminal
    <2>3. Fits(w, q, m, job[q.job], q.job \in blob) /\ Clean(q, m) /\ q.pc \notin OffWork /\ ~OverAs(m)
      BY <1>2, <1>3, <1>4, <2>2 DEF Fits, Clean, OffWork, OverAs
    <2>4. q.mode # "publish" /\ Brings(p, c) => Brings(q, m)
      BY <1>1, <1>3, <1>4 DEF Brings
    <2>5. m.to # "Claimed"
      BY <2>2 DEF Active
    <2> QED
      BY <1>1, <1>2, <1>3, <1>4, <2>1, <2>3, <2>4, <2>5, OnFine
  <1>5. CASE p.out = "result" /\ p.mode # "publish"
    <2> DEFINE to == TerminalStatus(p)
               m == Sent(w, to, TRUE)
    <2>1. to \in Active \cup Terminal \cup {"beat"} /\ to \in Terminal /\ to # "Failed"
      BY DEF TerminalStatus, Terminal
    <2>2. call' = [call EXCEPT ![<<w, "main">>] = [[Report(w, to) EXCEPT !.result = TRUE] EXCEPT !.at = "sent"]]
      BY <1>1, <1>5 DEF Close, Send
    <2>3. [[Report(w, to) EXCEPT !.result = TRUE] EXCEPT !.at = "sent"] = m
      BY DEF Report, Free, Sent
    <2>4. m.at = "sent" /\ m.kind = "report" /\ ~m.conflict /\ m.to = to /\ m.result
      BY <1>2, <2>1, ReportCall
    <2> HIDE DEF m, to
    <2>5. Brings(q, m)
      BY <1>3, <2>1, <2>4 DEF Brings
    <2> QED
      BY <1>4, <1>5, <2>1, <2>2, <2>3, <2>4, <2>5
  <1>6. CASE p.out = "result" /\ p.mode = "publish"
    \* its row tells of the result already, and has none to delete
    <2> DEFINE to == TerminalStatus(p)
               m == Sent(w, to, FALSE)
    <2>1. to \in Active \cup Terminal \cup {"beat"} /\ to \in Terminal /\ to # "Failed"
      BY DEF TerminalStatus, Terminal
    <2>2. call' = [call EXCEPT ![<<w, "main">>] = [[Report(w, to) EXCEPT !.result = FALSE] EXCEPT !.at = "sent"]]
      BY <1>1, <1>6 DEF Close, Send
    <2>3. [[Report(w, to) EXCEPT !.result = FALSE] EXCEPT !.at = "sent"] = m
      BY DEF Report, Free, Sent
    <2>4. m.at = "sent" /\ m.kind = "report" /\ ~m.conflict /\ m.to = to
      BY <1>2, <2>1, ReportCall
    <2> HIDE DEF m, to
    <2> QED
      BY <1>4, <1>6, <2>1, <2>2, <2>3, <2>4
  <1>7. CASE p.out # "result"
    <2> DEFINE m == Sent(w, p.out, FALSE)
    <2>1. p.out \in {"Cancelled", "Failed"} /\ p.out \in Active \cup Terminal \cup {"beat"} /\ p.out \in Terminal
      BY <1>2, <1>7 DEF Processes, Terminal
    <2>2. call' = [call EXCEPT ![<<w, "main">>] = m]
      <3>1. call' = [call EXCEPT ![<<w, "main">>] = [Report(w, p.out) EXCEPT !.at = "sent"]]
        BY <1>1, <1>7 DEF Close, Send
      <3> QED
        BY <1>2, <2>1, <3>1, ReportCall
    <2>3. m.at = "sent" /\ m.kind = "report" /\ ~m.conflict /\ m.to = p.out
      BY <1>2, <2>1, ReportCall
    <2> HIDE DEF m
    <2> QED
      BY <1>4, <1>7, <2>1, <2>2, <2>3
  <1> QED
    BY <1>5, <1>6, <1>7

-----------------------------------------------------------------------------
LEMMA FineWork ==
  ASSUME FineInv, NEW w \in Watchers, Work(w) \/ ChildSucceeds(w) \/ Beat(w) \/ Hear(w)
  PROVE  Fine'
  BY FinePoll, FineReportStage, FineReceive, FineChildren, FineUpload, FineClose, FineRestart, FineBeat, FineHear
  DEF Work

\* Every fault is counted.
LEMMA FaultCounts ==
  ASSUME \/ \E w \in Watchers : Fault(w)
         \/ \E u \in Users : Abort(u)
  PROVE  faults' = faults + 1
  BY DEF Fault, Lose, LoseBeat, GiveUp, Crash, ChildFails, UploadFails, Abort

\* A step from a fine state without a fault leads to a fine state.
LEMMA FineStep ==
  ASSUME FineInv, Next
  PROVE  Fine' \/ faults' = faults + 1
  BY FineServe, FineWork, FineCreate, FineAgeOut, FineAsk, FaultCounts DEF Next

\* No step takes a fault back.
LEMMA FaultsStay ==
  ASSUME ToldInv, Next
  PROVE  faults \in Nat /\ (faults' = faults \/ faults' = faults + 1)
  <1>1. faults \in Nat
    BY BoundsAssumption DEF ToldInv, TypeInv, TypeOK
  <1>2. ASSUME NEW s \in Slots, Serve(s) PROVE faults' = faults
    BY <1>2 DEF Serve, SweepRead, SweepSave, ClaimNext, ReportRead, ReportSave, PublishRead, PublishSave,
                CancelRead, CancelSave, DeleteRead, DeleteBlobs, DeleteSave
  <1>3. ASSUME NEW w \in Watchers, Work(w) \/ ChildSucceeds(w) \/ Beat(w) \/ Hear(w) PROVE faults' = faults
    BY <1>3 DEF Work, Poll, ReportStage, Receive, ApplyStop, EngineStops, Upload, Close, Restart, ChildSucceeds,
                Beat, Hear
  <1>4. ASSUME NEW j \in Jobs, AgeOut(j) \/ \E mode \in Modes : Create(j, mode)
        PROVE  faults' = faults \/ faults' = faults + 1
    BY <1>4 DEF AgeOut, Create
  <1>5. ASSUME NEW u \in Users, \E kind \in {"cancel", "delete"}, j \in Jobs : Ask(u, kind, j)
        PROVE  faults' = faults
    BY <1>5 DEF Ask
  <1> QED
    BY <1>1, <1>2, <1>3, <1>4, <1>5, FaultCounts DEF Next

LEMMA ResultsInductive ==
  ASSUME ~Overlap, ResultsInv, [Next]_vars
  PROVE  ResultsInv'
  <1>1. SerialInv' /\ ToldInv'
    BY SerialInductive, ToldInductive DEF ResultsInv
  <1>2. CASE UNCHANGED vars
    <2>1. FaultFree'
      BY <1>2 DEF vars, ResultsInv, FaultFree, Fine, TakenAway, WorkersFine, RowsFine, WorkerFine, Fits, Clean,
                  OverAs, RowFine, Owned, Kept, HasJob, Brings, MainOf, DeletingIn
    <2> QED
      BY <1>1, <2>1 DEF ResultsInv
  <1>3. CASE Next
    <2>1. faults \in Nat /\ (faults' = faults \/ faults' = faults + 1)
      BY <1>3, FaultsStay DEF ResultsInv
    <2>2. ASSUME faults' = 0 PROVE Fine'
      <3>1. faults = 0 /\ faults' # faults + 1
        BY <2>1, <2>2
      <3>2. FineInv
        BY <3>1 DEF ResultsInv, FaultFree, FineInv
      <3> QED
        BY <1>3, <3>1, <3>2, FineStep
    <2> QED
      BY <1>1, <2>2 DEF ResultsInv, FaultFree
  <1> QED
    BY <1>2, <1>3

LEMMA ResultsInitially ==
  ASSUME Init
  PROVE  ResultsInv
  <1>1. \A s \in Slots : call[s] = Free
    BY DEF Init
  <1>2. \A w \in Watchers : watcher[w].pc = "idle"
    BY ConstantTypes DEF Init
  <1>3. \A j \in Jobs : job[j].status = "absent" /\ blob = {}
    BY DEF Init, Absent
  <1>4. \A w \in Watchers : MainOf(call, w) = Free /\ call[<<w, "late">>] = Free
    BY <1>1, SlotTypes DEF MainOf
  <1>5. Free.at = "free" /\ ~Free.conflict
    BY ConstantTypes DEF Free, Calls
  <1>6. WorkersFine
    BY <1>2, <1>4, <1>5 DEF WorkersFine, WorkerFine, OffWork
  <1>7. RowsFine
    BY <1>3 DEF RowsFine, RowFine, Owned, Kept, Active
  <1>8. \A s \in Slots : TakenAway(blob, call[s])
    BY <1>1, <1>5 DEF TakenAway
  <1> QED
    BY <1>4, <1>6, <1>7, <1>8, SerialInitially, ToldInitially DEF ResultsInv, FaultFree, Fine

LEMMA ResultsInvariance ==
  ASSUME ~Overlap
  PROVE  Spec => []ResultsInv
  <1>1. ResultsInv /\ [Next]_vars => ResultsInv'
    BY ResultsInductive
  <1> QED
    BY <1>1, ResultsInitially, PTL DEF Spec

\* One handler at a time, what a row says of its result is true: a Done row
\* names one, which is in storage unless something failed or its deletion is
\* under way, and without failures a deleted job leaves nothing in storage.
THEOREM ResultsTrue ==
  ASSUME ~Overlap
  PROVE  Spec => []ResultsAccounted
  <1>1. ASSUME ResultsInv, NEW j \in Jobs
        PROVE  /\ job[j].status = "Done" => job[j].result /\ (j \notin blob => faults > 0 \/ Deleting(j))
               /\ job[j].status = "gone" /\ job[j].mode # "publish" /\ faults = 0 => j \notin blob
    <2>1. faults \in Nat /\ (job[j].status = "Done" => job[j].result)
      BY <1>1, BoundsAssumption DEF ResultsInv, ToldInv, Told, DoneHas, TypeInv, TypeOK
    <2>2. CASE faults = 0
      <3>1. Kept(job[j], j \in blob) /\ (job[j].status = "Done" /\ j \notin blob => DeletingIn(call, j))
        BY <1>1, <2>2 DEF ResultsInv, FaultFree, Fine, RowsFine, RowFine
      <3>2. DeletingIn(call, j) => Deleting(j)
        BY DEF DeletingIn, Deleting, MainOf
      <3> QED
        BY <2>1, <3>1, <3>2 DEF Kept, Active, Terminal
    <2>3. CASE faults > 0
      BY <2>1, <2>3
    <2> QED
      BY <2>1, <2>2, <2>3
  <1>2. ResultsInv => ResultsAccounted
    BY <1>1 DEF ResultsAccounted
  <1> QED
    BY <1>2, ResultsInvariance, PTL

\* One handler at a time, no job fails unless something failed: a Stop, however
\* far the engine has come and whatever it has written, is never reported as a
\* failure by the handlers that ask whether a stop was applied.
THEOREM FailsByFault ==
  ASSUME ~Overlap
  PROVE  Spec => []FailsOnlyByFault
  <1>1. ASSUME ResultsInv, faults = 0, NEW j \in Jobs, job[j].mode \in Asking
        PROVE  job[j].status # "Failed"
    BY <1>1 DEF ResultsInv, FaultFree, Fine, RowsFine, RowFine, Kept
  <1>2. ResultsInv => FailsOnlyByFault
    BY <1>1 DEF FailsOnlyByFault, Asking
  <1> QED
    BY <1>2, ResultsInvariance, PTL

=============================================================================
