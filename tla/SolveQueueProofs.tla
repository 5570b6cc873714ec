-------------------------- MODULE SolveQueueProofs --------------------------
(* For any number of watchers, users, jobs, attempts and faults, and whether   *)
(* or not handlers overlap: the types of SolveQueue, that no two watchers ever *)
(* hold the same claim, and how often a job can be handed out however sweeps   *)
(* overlap.  With handlers that do not overlap: that a job is handed out at    *)
(* most MaxAttempts times, and that the queue implements JobLifecycle.         *)
EXTENDS SolveQueue, FiniteSetTheorems, TLAPS

AtWorkStates == {"working", "reporting"}

\* Which slots carry which requests, and what a request and a process carry.
WellFormed ==
  /\ \A s \in Slots :
       /\ call[s].at # "free" /\ call[s].kind # "submit" => s[1] \in Watchers
       /\ call[s].at \in {"sweep", "pop"} => call[s].kind = "claim"
       /\ call[s].at \in {"sent", "sweep", "pop"} /\ call[s].kind = "claim" => call[s].job = NoJob
       /\ call[s].at # "free" /\ call[s].kind = "report" => call[s].job \in Jobs
       /\ call[s].at # "free" /\ call[s].kind = "submit" => s[1] \in Users
       /\ call[s].at # "free" /\ call[s].kind = "report" /\ s[2] = "main" => call[s].to # "beat"
  /\ \A w \in Watchers :
       /\ watcher[w].pc \in AtWorkStates => watcher[w].job \in Jobs
       /\ call[<<w, "main">>].at # "free" =>
            watcher[w].pc = IF call[<<w, "main">>].kind = "claim" THEN "claiming" ELSE "reporting"

Inv == TypeOK /\ WellFormed /\ ClaimsDistinct

\* What is fixed: the records a run starts from, the stages of the chain, the slots.
LEMMA ConstantTypes ==
  /\ Absent \in Rows /\ Free \in Calls /\ Idle \in Processes
  /\ NoJob \notin Jobs
  /\ \A x \in Active : StageAfter[x] \in Active \cup Terminal /\ StageAfter[x] # "beat"
  /\ \A w \in Watchers : /\ <<w, "main">> \in Slots /\ <<w, "beat">> \in Slots /\ <<w, "late">> \in Slots
                         /\ <<w, "main">>[1] = w /\ <<w, "main">>[2] = "main"
                         /\ <<w, "late">>[1] = w /\ <<w, "late">>[2] = "late"
                         /\ <<w, "beat">>[1] = w /\ <<w, "beat">>[2] = "beat"
  /\ \A u \in Users : <<u, "main">> \in Slots /\ <<u, "main">>[1] = u
  BY NullAssumption, BoundsAssumption
  DEF Absent, Free, Idle, Rows, Calls, Processes, Jobs, NoJob, Active, Terminal, Open, StageAfter, Slots

\* The program starts with the whole of Inv: every table, slot and watcher empty.
LEMMA InitInv == Init => Inv
  <1> SUFFICES ASSUME Init PROVE Inv
    OBVIOUS
  <1>1. TypeOK
    BY ConstantTypes, BoundsAssumption DEF Init, TypeOK
  <1>2. WellFormed
    BY ConstantTypes DEF Init, WellFormed, Free, Idle, AtWorkStates
  <1>3. \A w \in Watchers : Held(w) = NoClaim
    BY ConstantTypes DEF Init, Held, Free, Idle, NoClaim
  <1>4. ClaimsDistinct
    BY <1>3 DEF ClaimsDistinct, NoClaim
  <1> QED
    BY <1>1, <1>2, <1>4 DEF Inv

-----------------------------------------------------------------------------
(* Types.  Each step is shown to keep TypeOK and WellFormed together: which    *)
(* fields of a request mean something depends on the slot it is in.            *)

\* Changing the request in one slot keeps the table of requests in its type.
LEMMA AnsweredType ==
  ASSUME TypeOK, NEW s \in Slots, NEW c \in Calls
  PROVE  Answered(s, c) \in [Slots -> Calls]
  BY ConstantTypes DEF TypeOK, Answered, Calls

\* Changing one request, and no watcher, keeps every request in the slot it belongs to.
LEMMA AnsweredForm ==
  ASSUME TypeOK, WellFormed, NEW s \in Slots, NEW c \in Calls, call' = Answered(s, c),
         UNCHANGED watcher, call[s].at # "free", s[1] \in Watchers,
         c.kind = call[s].kind, c.to = call[s].to, c.kind = "report" => c.job = call[s].job,
         c.kind # "submit"
  PROVE  WellFormed'
  BY DEF TypeOK, WellFormed, Answered, Calls, Free, AtWorkStates

\* What TypeOK says of each element, so that a leaf need not expand it.
LEMMA ElementTypes ==
  ASSUME TypeOK
  PROVE  /\ \A s \in Slots : call[s] \in Calls
         /\ \A j \in Jobs : job[j] \in Rows
         /\ \A w \in Watchers : watcher[w] \in Processes
  BY DEF TypeOK

Statuses == Open \cup Terminal \cup {"absent"}

\* The saves of a row, and a sweep's read, keep a record in its set.
LEMMA SweptRow ==
  ASSUME NEW r \in Rows, NEW st \in Statuses, NEW o \in Watchers \cup {Nobody}
  PROVE  [r EXCEPT !.owner = o, !.status = st] \in Rows
  BY DEF Rows, Statuses

\* The report's save keeps a row in its set.
LEMMA ReportedRow ==
  ASSUME NEW r \in Rows, NEW st \in Statuses
  PROVE  [r EXCEPT !.fresh = TRUE, !.status = st] \in Rows
  BY DEF Rows, Statuses

\* A sweep that has read carries sets of jobs.
LEMMA SweepCall ==
  ASSUME NEW c \in Calls, NEW a \in {"sweep", "pop"}, NEW S \in SUBSET Jobs, NEW T \in SUBSET Jobs
  PROVE  [c EXCEPT !.at = a, !.stale = S, !.spent = T] \in Calls
  BY DEF Calls

\* Every step of the API keeps the types and the form of the requests.
LEMMA ServeTypes ==
  ASSUME TypeOK, WellFormed, NEW s \in Slots, Serve(s)
  PROVE  TypeOK' /\ WellFormed'
  <1>a. /\ \A t \in Slots : call[t] \in Calls
        /\ \A j \in Jobs : job[j] \in Rows
    BY ElementTypes
  <1>b. call[s] \in Calls
    BY <1>a
  <1> USE ConstantTypes
  <1>1. CASE SweepRead(s)
    <2>1. StaleRows \in SUBSET Jobs /\ SpentRows \in SUBSET Jobs
      BY DEF StaleRows, SpentRows
    <2> DEFINE c == [call[s] EXCEPT !.at = IF StaleRows = {} THEN "pop" ELSE "sweep",
                                    !.stale = StaleRows, !.spent = SpentRows]
    <2>c. c \in Calls
      BY <1>b, <2>1, SweepCall
    <2>2. call' \in [Slots -> Calls]
      BY <1>1, <2>c DEF SweepRead, TypeOK
    <2>3. TypeOK'
      BY <1>1, <2>2 DEF SweepRead, TypeOK
    <2>4. WellFormed'
      BY <1>1 DEF SweepRead, Arrived, TypeOK, WellFormed, Calls, AtWorkStates
    <2> QED BY <2>3, <2>4
  <1>2. CASE SweepSave(s)
    <2>1. \A j \in Jobs : Swept(j, call[s].spent) \in Rows
      <3> SUFFICES ASSUME NEW j \in Jobs PROVE Swept(j, call[s].spent) \in Rows
        OBVIOUS
      <3> DEFINE st == IF j \in call[s].spent THEN "Failed" ELSE "Queued"
      <3>1. st \in Statuses
        BY DEF Statuses, Open, Terminal
      <3>2. Swept(j, call[s].spent) = [job[j] EXCEPT !.owner = Nobody, !.status = st]
        BY DEF Swept
      <3> HIDE DEF st
      <3>3. job[j] \in Rows /\ Nobody \in Watchers \cup {Nobody}
        BY <1>a
      <3>4. [job[j] EXCEPT !.owner = Nobody, !.status = st] \in Rows
        BY ONLY <3>1, <3>3, SweptRow
      <3> QED BY <3>2, <3>4
    <2>2. job' \in [Jobs -> Rows]
      BY <1>2, <2>1 DEF SweepSave, TypeOK
    <2>c. [call[s] EXCEPT !.at = "pop", !.stale = {}, !.spent = {}] \in Calls
      BY <1>b DEF Calls
    <2>3. call' \in [Slots -> Calls]
      BY <1>2, <2>c DEF SweepSave, TypeOK
    <2>4. TypeOK'
      BY <1>2, <2>2, <2>3 DEF SweepSave, TypeOK
    <2>5. WellFormed'
      BY <1>2 DEF SweepSave, TypeOK, WellFormed, Calls, AtWorkStates
    <2> QED BY <2>4, <2>5
  <1>3. CASE ClaimNext(s)
    <2>1. s[1] \in Watchers /\ call[s].kind = "claim"
      BY <1>3 DEF ClaimNext, WellFormed
    <2>2. CASE QueuedRows = {} /\ call' = Answered(s, call[s]) /\ UNCHANGED job
      <3>1. TypeOK'
        BY <1>b, <1>3, <2>2, AnsweredType DEF ClaimNext, TypeOK
      <3>2. WellFormed'
        BY <1>b, <1>3, <2>1, <2>2, AnsweredForm DEF ClaimNext
      <3> QED BY <3>1, <3>2
    <2>3. ASSUME NEW j \in QueuedRows,
                 job' = [job EXCEPT ![j] = Claimed(j, s[1])],
                 call' = Answered(s, [call[s] EXCEPT !.job = j, !.turn = job[j].attempts + 1])
          PROVE  TypeOK' /\ WellFormed'
      <3>1. j \in Jobs
        BY DEF QueuedRows
      <3>2. Claimed(j, s[1]) \in Rows
        <4>1. job[j].attempts + 1 \in Nat /\ job[j] \in Rows
          BY <1>a, <3>1 DEF Rows
        <4>2. "Claimed" \in Open \cup Terminal \cup {"absent"}
          BY DEF Open, Active
        <4> QED BY <2>1, <4>1, <4>2 DEF Claimed, Rows
      <3>3. [call[s] EXCEPT !.job = j, !.turn = job[j].attempts + 1] \in Calls
        <4>1. job[j].attempts + 1 \in Nat
          BY <1>a, <3>1 DEF Rows
        <4> QED BY <1>b, <3>1, <4>1 DEF Calls
      <3>4. TypeOK'
        BY <1>3, <2>3, <3>1, <3>2, <3>3, AnsweredType DEF ClaimNext, TypeOK
      <3>5. WellFormed'
        <4> DEFINE c == [call[s] EXCEPT !.job = j, !.turn = job[j].attempts + 1]
        <4>1. c \in Calls /\ c.kind = "claim" /\ c.to = call[s].to /\ call' = Answered(s, c)
          BY <1>b, <2>1, <2>3, <3>3 DEF Calls
        <4>2. call[s].at # "free" /\ UNCHANGED watcher
          BY <1>3 DEF ClaimNext
        <4> HIDE DEF c
        <4> QED BY <2>1, <4>1, <4>2, AnsweredForm
      <3> QED BY <3>4, <3>5
    <2> QED BY <1>3, <2>2, <2>3 DEF ClaimNext
  <1>4. CASE ReportRead(s)
    <2>1. s[1] \in Watchers /\ call[s].kind = "report" /\ call[s].at = "sent"
      BY <1>4 DEF ReportRead, Arrived, WellFormed
    <2>2. CASE call' = [call EXCEPT ![s].at = "save"]
      <3>1. TypeOK'
        <4>1. [call[s] EXCEPT !.at = "save"] \in Calls
          BY <1>b DEF Calls
        <4> QED BY <1>4, <2>2, <4>1 DEF ReportRead, TypeOK
      <3>2. WellFormed'
        <4> DEFINE c == [call[s] EXCEPT !.at = "save"]
        <4>1. /\ call' = [call EXCEPT ![s] = c] /\ UNCHANGED watcher
              /\ c.at = "save" /\ c.kind = call[s].kind /\ c.job = call[s].job /\ c.to = call[s].to
          BY <1>4, <1>b, <2>2 DEF ReportRead, Calls
        <4>2. \A t \in Slots : call'[t] = IF t = s THEN c ELSE call[t]
          BY <4>1 DEF TypeOK
        <4> HIDE DEF c
        <4> QED BY <2>1, <4>1, <4>2 DEF WellFormed, AtWorkStates
      <3> QED BY <3>1, <3>2
    <2>3. CASE call' = Answered(s, call[s])
      <3>1. TypeOK'
        <4>1. call' \in [Slots -> Calls]
          BY <1>b, <2>3, AnsweredType
        <4> QED BY <1>4, <4>1 DEF ReportRead, TypeOK
      <3>2. WellFormed'
        BY <1>b, <1>4, <2>1, <2>3, AnsweredForm DEF ReportRead
      <3> QED BY <3>1, <3>2
    <2> QED BY <1>4, <2>2, <2>3 DEF ReportRead
  <1>5. CASE ReportSave(s)
    <2>1. s[1] \in Watchers /\ call[s].job \in Jobs
      BY <1>5 DEF ReportSave, WellFormed
    <2>2. Reported(job[call[s].job], call[s].to) \in Rows
      <3>1. call[s].to \in Active \cup Terminal \cup {"beat"} /\ job[call[s].job] \in Rows
        BY <1>a, <1>b, <2>1 DEF Calls
      <3> DEFINE r == job[call[s].job]
                 st == IF call[s].to = "beat" THEN r.status ELSE call[s].to
      <3>2. st \in Statuses
        BY <3>1 DEF Statuses, Rows, Open
      <3>3. Reported(r, call[s].to) = [r EXCEPT !.fresh = TRUE, !.status = st]
        BY <3>1 DEF Reported, Rows
      <3>4. r \in Rows
        BY <3>1
      <3> HIDE DEF st, r
      <3>5. [r EXCEPT !.fresh = TRUE, !.status = st] \in Rows
        BY <3>2, <3>4, ReportedRow
      <3>6. Reported(r, call[s].to) \in Rows
        BY <3>3, <3>5
      <3> QED BY <3>6 DEF r
    <2>3. TypeOK'
      BY <1>b, <1>5, <2>1, <2>2, AnsweredType DEF ReportSave, TypeOK
    <2>4. WellFormed'
      BY <1>b, <1>5, <2>1, AnsweredForm DEF ReportSave
    <2> QED BY <2>3, <2>4
  <1>6. CASE SubmitRead(s)
    <2>1. TypeOK'
      <3>1. [call[s] EXCEPT !.at = "save"] \in Calls
        BY <1>b DEF Calls
      <3> QED BY <1>6, <3>1 DEF SubmitRead, TypeOK
    <2>2. WellFormed'
      BY <1>6 DEF SubmitRead, Arrived, TypeOK, WellFormed, Calls, Free, AtWorkStates
    <2> QED BY <2>1, <2>2
  <1>7. CASE SubmitSave(s)
    <2>1. InsertedRow(call[s].sim) \in Rows
      BY <1>b DEF InsertedRow, Absent, Rows, Calls, Open
    <2>2. TypeOK'
      BY <1>7, <2>1 DEF SubmitSave, TypeOK
    <2>3. WellFormed'
      BY <1>7 DEF SubmitSave, TypeOK, WellFormed, Calls, Free, AtWorkStates
    <2> QED BY <2>2, <2>3
  <1> QED
    BY <1>1, <1>2, <1>3, <1>4, <1>5, <1>6, <1>7 DEF Serve

\* The report a watcher at work builds is a request with a job and a stage.
LEMMA ReportCall ==
  ASSUME NEW w \in Watchers, watcher[w] \in Processes, watcher[w].job \in Jobs,
         NEW to \in Active \cup Terminal \cup {"beat"}
  PROVE  /\ Report(w, to) \in Calls
         /\ Report(w, to).at = "sent" /\ Report(w, to).kind = "report"
         /\ Report(w, to).job \in Jobs /\ Report(w, to).to = to
  BY ConstantTypes DEF Report, Calls, Processes, Free

\* What a watcher becomes when its request is over.
LEMMA ResumedProcess ==
  ASSUME NEW w \in Watchers, watcher[w] \in Processes, NEW c \in Calls,
         c.kind # "submit", c.kind = "report" => c.to # "beat" /\ watcher[w].job \in Jobs
  PROVE  /\ Resumed(w, c) \in Processes
         /\ Resumed(w, c).pc \in AtWorkStates => Resumed(w, c).job \in Jobs
  <1>1. CASE c.kind = "claim" /\ c.at = "reply" /\ c.job # NoJob
    BY <1>1 DEF Resumed, Calls, Processes, Active, AtWorkStates
  <1>2. CASE c.kind = "claim" /\ ~(c.at = "reply" /\ c.job # NoJob)
    BY <1>2, ConstantTypes DEF Resumed, Idle, AtWorkStates
  <1>3. CASE c.kind # "claim" /\ c.to \in Terminal
    BY <1>3, ConstantTypes DEF Resumed, Idle, AtWorkStates
  <1>4. CASE c.kind # "claim" /\ c.to \notin Terminal
    <2>1. c.to \in Active /\ watcher[w].job \in Jobs
      BY <1>4 DEF Calls
    <2>2. [watcher[w] EXCEPT !.pc = "working", !.stage = c.to] \in Processes
      BY <2>1 DEF Processes
    <2>3. Resumed(w, c) = [watcher[w] EXCEPT !.pc = "working", !.stage = c.to]
      BY <1>4 DEF Resumed
    <2>4. [watcher[w] EXCEPT !.pc = "working", !.stage = c.to].job = watcher[w].job
      BY DEF Processes
    <2> QED BY <2>1, <2>2, <2>3, <2>4
  <1> QED BY <1>1, <1>2, <1>3, <1>4

\* A step in which watcher w becomes p and its main and late requests m and l.
LEMMA WatcherStep ==
  ASSUME TypeOK, WellFormed, NEW w \in Watchers, NEW p \in Processes, NEW m \in Calls, NEW l \in Calls,
         UNCHANGED job, faults' \in 0..MaxFaults,
         watcher' = [watcher EXCEPT ![w] = p],
         call' = [call EXCEPT ![<<w, "main">>] = m, ![<<w, "late">>] = l],
         p.pc \in AtWorkStates => p.job \in Jobs,
         m.at # "free" => /\ m.at \notin {"sweep", "pop"} /\ m.kind # "submit"
                          /\ p.pc = IF m.kind = "claim" THEN "claiming" ELSE "reporting"
                          /\ m.kind = "report" => m.job \in Jobs /\ m.to # "beat"
                          /\ m.kind = "claim" => m.job = NoJob,
         l \in {Free, call[<<w, "main">>], call[<<w, "late">>]}
  PROVE  TypeOK' /\ WellFormed'
  <1> DEFINE ms == <<w, "main">>
             ls == <<w, "late">>
  <1>1. ms \in Slots /\ ls \in Slots /\ ms # ls /\ ms[1] = w /\ ls[1] = w /\ ms[2] = "main" /\ ls[2] = "late"
    BY ConstantTypes
  <1>2. TypeOK'
    BY <1>1 DEF TypeOK
  <1>3. call'[ms] = m /\ call'[ls] = l /\ \A s \in Slots : s # ms /\ s # ls => call'[s] = call[s]
    BY <1>1 DEF TypeOK
  <1>4. \A v \in Watchers : v # w => <<v, "main">> # ms /\ <<v, "main">> # ls /\ <<v, "main">> \in Slots
    BY ConstantTypes
  <1>5. l = Free \/ l = call[ms] \/ l = call[ls]
    OBVIOUS
  <1>6. \A s \in Slots :
          /\ call'[s].at # "free" /\ call'[s].kind # "submit" => s[1] \in Watchers
          /\ call'[s].at \in {"sweep", "pop"} => call'[s].kind = "claim"
          /\ call'[s].at \in {"sent", "sweep", "pop"} /\ call'[s].kind = "claim" => call'[s].job = NoJob
          /\ call'[s].at # "free" /\ call'[s].kind = "report" => call'[s].job \in Jobs
          /\ call'[s].at # "free" /\ call'[s].kind = "submit" => s[1] \in Users
          /\ call'[s].at # "free" /\ call'[s].kind = "report" /\ s[2] = "main" => call'[s].to # "beat"
    <2> SUFFICES ASSUME NEW s \in Slots
                 PROVE  /\ call'[s].at # "free" /\ call'[s].kind # "submit" => s[1] \in Watchers
                        /\ call'[s].at \in {"sweep", "pop"} => call'[s].kind = "claim"
                        /\ call'[s].at \in {"sent", "sweep", "pop"} /\ call'[s].kind = "claim" => call'[s].job = NoJob
                        /\ call'[s].at # "free" /\ call'[s].kind = "report" => call'[s].job \in Jobs
                        /\ call'[s].at # "free" /\ call'[s].kind = "submit" => s[1] \in Users
                        /\ call'[s].at # "free" /\ call'[s].kind = "report" /\ s[2] = "main" => call'[s].to # "beat"
      OBVIOUS
    <2>1. CASE s = ms
      BY <1>1, <1>3, <2>1
    <2>2. CASE s = ls
      <3>1. call'[s] = l /\ s[1] = w /\ s[2] # "main"
        BY <1>1, <1>3, <2>2
      <3>2. CASE l = Free
        BY <3>1, <3>2 DEF Free
      <3>3. CASE l = call[ms]
        BY <1>1, <3>1, <3>3 DEF WellFormed
      <3>4. CASE l = call[ls]
        BY <1>1, <3>1, <3>4 DEF WellFormed
      <3> QED BY <1>5, <3>2, <3>3, <3>4
    <2>3. CASE s # ms /\ s # ls
      BY <1>3, <2>3 DEF WellFormed
    <2> QED BY <2>1, <2>2, <2>3
  <1>7. \A v \in Watchers :
          /\ watcher'[v].pc \in AtWorkStates => watcher'[v].job \in Jobs
          /\ call'[<<v, "main">>].at # "free" =>
               watcher'[v].pc = IF call'[<<v, "main">>].kind = "claim" THEN "claiming" ELSE "reporting"
    <2>1. watcher'[w] = p /\ \A v \in Watchers : v # w => watcher'[v] = watcher[v]
      BY DEF TypeOK
    <2> SUFFICES ASSUME NEW v \in Watchers
                 PROVE  /\ watcher'[v].pc \in AtWorkStates => watcher'[v].job \in Jobs
                        /\ call'[<<v, "main">>].at # "free" =>
                             watcher'[v].pc = IF call'[<<v, "main">>].kind = "claim" THEN "claiming" ELSE "reporting"
      OBVIOUS
    <2>2. CASE v = w
      BY <1>3, <2>1, <2>2
    <2>3. CASE v # w
      <3>1. call'[<<v, "main">>] = call[<<v, "main">>] /\ watcher'[v] = watcher[v]
        BY <1>3, <1>4, <2>1, <2>3
      <3> QED BY <3>1 DEF WellFormed
    <2> QED BY <2>2, <2>3
  <1>8. WellFormed'
    BY <1>6, <1>7 DEF WellFormed
  <1> QED BY <1>2, <1>8

\* The actions of the watchers, the users and the clock.
LEMMA ClientTypes ==
  ASSUME TypeOK, WellFormed, Next, ~ \E s \in Slots : Serve(s)
  PROVE  TypeOK' /\ WellFormed'
  <1>a. /\ \A s \in Slots : call[s] \in Calls
        /\ \A j \in Jobs : job[j] \in Rows
        /\ \A w \in Watchers : watcher[w] \in Processes
    BY ElementTypes
  <1>b. faults \in 0..MaxFaults
    BY DEF TypeOK
  <1>c. faults < MaxFaults => faults + 1 \in 0..MaxFaults
    BY <1>b, BoundsAssumption
  <1>d. \A w \in Watchers :
          /\ <<w, "main">> \in Slots /\ <<w, "late">> \in Slots /\ <<w, "beat">> \in Slots
          /\ <<w, "main">> # <<w, "late">>
          /\ call[<<w, "main">>] \in Calls /\ call[<<w, "late">>] \in Calls
    BY <1>a, ConstantTypes
  <1>e. /\ Free \in Calls /\ Free.at = "free"
        /\ Idle \in Processes /\ Idle.pc = "idle"
    BY ConstantTypes DEF Free, Idle
  <1>f. [Idle EXCEPT !.pc = "down"] \in Processes /\ [Idle EXCEPT !.pc = "down"].pc = "down"
    BY <1>e DEF Processes
  <1>g. \A w \in Watchers :
          call[<<w, "main">>].at # "free" =>
            /\ call[<<w, "main">>].kind # "submit"
            /\ call[<<w, "main">>].kind = "report" =>
                 call[<<w, "main">>].to # "beat" /\ watcher[w].job \in Jobs
    <2>1. \A w \in Watchers : <<w, "main">>[1] = w /\ <<w, "main">>[2] = "main" /\ w \notin Users
      BY ConstantTypes, NullAssumption
    <2> QED BY <1>d, <2>1 DEF WellFormed, AtWorkStates
  <1>h. \A w \in Watchers : call = [call EXCEPT ![<<w, "late">>] = call[<<w, "late">>]]
    BY <1>d DEF TypeOK
  <1>1. ASSUME NEW w \in Watchers, Poll(w) PROVE TypeOK' /\ WellFormed'
    <2> DEFINE p == [watcher[w] EXCEPT !.pc = "claiming"]
               m == [Free EXCEPT !.at = "sent"]
    <2>1. p \in Processes /\ p.pc = "claiming" /\ watcher' = [watcher EXCEPT ![w] = p]
      BY <1>1, <1>a DEF Poll, Processes
    <2>2. m \in Calls /\ m.at = "sent" /\ m.kind = "claim" /\ m.job = NoJob
      BY <1>e DEF Calls, Free
    <2>3. call' = [call EXCEPT ![<<w, "main">>] = m, ![<<w, "late">>] = call[<<w, "late">>]]
      BY <1>1, <1>d DEF Poll, TypeOK
    <2>4. UNCHANGED job /\ faults' \in 0..MaxFaults
      BY <1>1, <1>b DEF Poll
    <2> HIDE DEF p, m
    <2> QED BY <1>d, <2>1, <2>2, <2>3, <2>4, WatcherStep DEF AtWorkStates
  <1>2. ASSUME NEW w \in Watchers, ReportStage(w) PROVE TypeOK' /\ WellFormed'
    <2>1. PICK to \in {StageAfter[watcher[w].stage]} \cup {x \in {"Failed"} : watcher[w].stage # "Claimed"} :
            call' = [call EXCEPT ![<<w, "main">>] = Report(w, to)]
      BY <1>2 DEF ReportStage
    <2>2. to \in Active \cup Terminal /\ to # "beat"
      <3>1. watcher[w].stage \in Active
        BY <1>a DEF Processes
      <3> QED BY <2>1, <3>1, ConstantTypes DEF Terminal
    <2> DEFINE p == [watcher[w] EXCEPT !.pc = "reporting"]
               m == Report(w, to)
    <2>3. watcher[w].job \in Jobs
      BY <1>2 DEF ReportStage, WellFormed, AtWorkStates
    <2>4. /\ p \in Processes /\ p.pc = "reporting" /\ p.job = watcher[w].job
          /\ watcher' = [watcher EXCEPT ![w] = p]
      BY <1>2, <1>a DEF ReportStage, Processes
    <2>5. m \in Calls /\ m.at = "sent" /\ m.kind = "report" /\ m.job \in Jobs /\ m.to = to
      BY <1>a, <2>2, <2>3, ReportCall
    <2>6. call' = [call EXCEPT ![<<w, "main">>] = m, ![<<w, "late">>] = call[<<w, "late">>]]
      BY <2>1, <1>d DEF TypeOK
    <2>7. UNCHANGED job /\ faults' \in 0..MaxFaults
      BY <1>2, <1>b DEF ReportStage
    <2> HIDE DEF p, m
    <2> QED BY <1>d, <2>2, <2>3, <2>4, <2>5, <2>6, <2>7, WatcherStep
  <1>3. ASSUME NEW w \in Watchers, Receive(w) PROVE TypeOK' /\ WellFormed'
    <2> DEFINE p == Resumed(w, call[<<w, "main">>])
    <2>1. p \in Processes /\ (p.pc \in AtWorkStates => p.job \in Jobs)
      BY <1>3, <1>a, <1>d, <1>g, ResumedProcess DEF Receive
    <2>2. /\ watcher' = [watcher EXCEPT ![w] = p]
          /\ call' = [call EXCEPT ![<<w, "main">>] = Free, ![<<w, "late">>] = call[<<w, "late">>]]
          /\ UNCHANGED job /\ faults' \in 0..MaxFaults
      BY <1>3, <1>b, <1>d DEF Receive, TypeOK
    <2> HIDE DEF p
    <2> QED BY <1>d, <1>e, <2>1, <2>2, WatcherStep
  <1>4. ASSUME NEW w \in Watchers, Restart(w) PROVE TypeOK' /\ WellFormed'
    <2>1. TypeOK'
      BY <1>4, <1>e DEF Restart, TypeOK
    <2>2. call[<<w, "main">>].at = "free"
      BY <1>4 DEF Restart, WellFormed
    <2>3. \A v \in Watchers : watcher'[v] = IF v = w THEN Idle ELSE watcher[v]
      BY <1>4 DEF Restart, TypeOK
    <2>4. WellFormed'
      BY <1>4, <1>e, <2>2, <2>3 DEF Restart, WellFormed, AtWorkStates
    <2> QED BY <2>1, <2>4
  <1>5. ASSUME NEW w \in Watchers, Beat(w) PROVE TypeOK' /\ WellFormed'
    <2>1. watcher[w].job \in Jobs
      BY <1>5 DEF Beat, Beating, WellFormed, AtWorkStates
    <2> DEFINE b == Report(w, "beat")
    <2>2. b \in Calls /\ b.at = "sent" /\ b.kind = "report" /\ b.job \in Jobs
      BY <1>a, <2>1, ReportCall
    <2>3. call' = [call EXCEPT ![<<w, "beat">>] = b] /\ UNCHANGED <<job, watcher, faults>>
      BY <1>5 DEF Beat
    <2> HIDE DEF b
    <2>4. TypeOK'
      BY <2>2, <2>3 DEF TypeOK
    <2>5. <<w, "beat">>[1] = w /\ <<w, "beat">>[2] = "beat" /\ \A v \in Watchers : <<v, "main">> # <<w, "beat">>
      BY ConstantTypes
    <2>6. \A s \in Slots : call'[s] = IF s = <<w, "beat">> THEN b ELSE call[s]
      BY <2>3 DEF TypeOK
    <2>7. WellFormed'
      BY <1>d, <2>2, <2>3, <2>5, <2>6 DEF WellFormed
    <2> QED BY <2>4, <2>7
  <1>6. ASSUME NEW w \in Watchers, Lose(w) PROVE TypeOK' /\ WellFormed'
    <2> DEFINE c == [call[<<w, "main">>] EXCEPT !.at = "free"]
               p == Resumed(w, c)
    <2>1. c \in Calls /\ c.kind = call[<<w, "main">>].kind /\ c.to = call[<<w, "main">>].to
      BY <1>d DEF Calls
    <2>2. call[<<w, "main">>].at # "free"
      BY <1>6 DEF Lose
    <2>3. p \in Processes /\ (p.pc \in AtWorkStates => p.job \in Jobs)
      <3> HIDE DEF c
      <3> QED BY <1>a, <1>g, <2>1, <2>2, ResumedProcess
    <2>4. /\ watcher' = [watcher EXCEPT ![w] = p]
          /\ call' = [call EXCEPT ![<<w, "main">>] = Free, ![<<w, "late">>] = call[<<w, "late">>]]
          /\ UNCHANGED job /\ faults' \in 0..MaxFaults
      BY <1>6, <1>c, <1>d DEF Lose, TypeOK
    <2> HIDE DEF p
    <2> QED BY <1>d, <1>e, <2>3, <2>4, WatcherStep
  <1>7. ASSUME NEW w \in Watchers, GiveUp(w) PROVE TypeOK' /\ WellFormed'
    <2> DEFINE c == [call[<<w, "main">>] EXCEPT !.at = "free"]
               p == Resumed(w, c)
    <2>1. c \in Calls /\ c.kind = call[<<w, "main">>].kind /\ c.to = call[<<w, "main">>].to
      BY <1>d DEF Calls
    <2>2. call[<<w, "main">>].at # "free"
      BY <1>7 DEF GiveUp
    <2>3. p \in Processes /\ (p.pc \in AtWorkStates => p.job \in Jobs)
      <3> HIDE DEF c
      <3> QED BY <1>a, <1>g, <2>1, <2>2, ResumedProcess
    <2>4. /\ watcher' = [watcher EXCEPT ![w] = p]
          /\ call' = [call EXCEPT ![<<w, "main">>] = Free, ![<<w, "late">>] = call[<<w, "main">>]]
          /\ UNCHANGED job /\ faults' \in 0..MaxFaults
      BY <1>7, <1>c DEF GiveUp
    <2> HIDE DEF p
    <2> QED BY <1>d, <1>e, <2>3, <2>4, WatcherStep
  <1>8. ASSUME NEW w \in Watchers, Crash(w) PROVE TypeOK' /\ WellFormed'
    <2> DEFINE p == [Idle EXCEPT !.pc = "down"]
    <2>1. /\ watcher' = [watcher EXCEPT ![w] = p]
          /\ UNCHANGED job /\ faults' \in 0..MaxFaults
      BY <1>8, <1>c DEF Crash
    <2>2. PICK kept \in {Free} \cup {x \in {call[<<w, "main">>]} : x.at \in {"sent", "sweep", "pop", "save"}} :
            call' = [call EXCEPT ![<<w, "main">>] = Free,
                                 ![<<w, "late">>] = IF kept = Free THEN @ ELSE kept]
      BY <1>8 DEF Crash
    <2> DEFINE l == IF kept = Free THEN call[<<w, "late">>] ELSE kept
    <2>3. l \in Calls /\ l \in {Free, call[<<w, "main">>], call[<<w, "late">>]}
      BY <1>d, <1>e, <2>2
    <2>4. call' = [call EXCEPT ![<<w, "main">>] = Free, ![<<w, "late">>] = l]
      BY <1>d, <2>2 DEF TypeOK
    <2> HIDE DEF p, l
    <2>5. p \in Processes /\ p.pc \notin AtWorkStates
      BY <1>f DEF p, AtWorkStates
    <2> QED BY <1>e, <2>1, <2>3, <2>4, <2>5, WatcherStep
  <1>9. ASSUME NEW w \in Watchers, PioFailsToStart(w) PROVE TypeOK' /\ WellFormed'
    <2> DEFINE p == [Idle EXCEPT !.pc = "down"]
    <2>1. /\ watcher' = [watcher EXCEPT ![w] = p] /\ UNCHANGED <<job, call>>
          /\ faults' \in 0..MaxFaults /\ watcher[w].pc = "working"
      BY <1>9, <1>c DEF PioFailsToStart
    <2>2. p \in Processes /\ p.pc \notin AtWorkStates
      BY <1>f DEF AtWorkStates
    <2> HIDE DEF p
    <2>3. TypeOK'
      BY <2>1, <2>2 DEF TypeOK
    <2>4. call[<<w, "main">>].at = "free"
      BY <2>1 DEF WellFormed
    <2>5. \A v \in Watchers : watcher'[v] = IF v = w THEN p ELSE watcher[v]
      BY <2>1 DEF TypeOK
    <2>6. WellFormed'
      BY <2>1, <2>2, <2>4, <2>5 DEF WellFormed, AtWorkStates
    <2> QED BY <2>3, <2>6
  <1>10. ASSUME NEW u \in Users, NEW sim \in Sims \cup {NoSim}, Submit(u, sim) PROVE TypeOK' /\ WellFormed'
    <2> DEFINE c == [Free EXCEPT !.at = "sent", !.kind = "submit", !.sim = sim]
    <2>1. c \in Calls /\ c.at = "sent" /\ c.kind = "submit"
      BY <1>e DEF Calls, Free
    <2>2. call' = [call EXCEPT ![<<u, "main">>] = c] /\ UNCHANGED <<job, watcher, faults>>
      BY <1>10 DEF Submit
    <2>3. <<u, "main">> \in Slots /\ <<u, "main">>[1] = u /\ \A v \in Watchers : <<v, "main">> # <<u, "main">>
      BY ConstantTypes, NullAssumption
    <2> HIDE DEF c
    <2>4. TypeOK'
      BY <2>1, <2>2 DEF TypeOK
    <2>5. \A s \in Slots : call'[s] = IF s = <<u, "main">> THEN c ELSE call[s]
      BY <2>2 DEF TypeOK
    <2>6. WellFormed'
      BY <1>d, <2>1, <2>2, <2>3, <2>5 DEF WellFormed
    <2> QED BY <2>4, <2>6
  <1>11. ASSUME NEW j \in Jobs, AgeOut(j) PROVE TypeOK' /\ WellFormed'
    <2>1. [job[j] EXCEPT !.fresh = FALSE] \in Rows
      BY <1>a DEF Rows
    <2>2. TypeOK'
      BY <1>11, <1>b, <1>c, <2>1 DEF AgeOut, TypeOK
    <2>3. WellFormed'
      BY <1>11 DEF AgeOut, WellFormed
    <2> QED BY <2>2, <2>3
  <1> QED
    BY <1>1, <1>2, <1>3, <1>4, <1>5, <1>6, <1>7, <1>8, <1>9, <1>10, <1>11 DEF Next, Work, Fault

\* Types and well-formedness are an inductive invariant of their own.
LEMMA FormInductive ==
  TypeOK /\ WellFormed /\ [Next]_vars => TypeOK' /\ WellFormed'
  <1> SUFFICES ASSUME TypeOK, WellFormed, [Next]_vars PROVE TypeOK' /\ WellFormed'
    OBVIOUS
  <1>1. CASE UNCHANGED vars
    BY <1>1 DEF vars, TypeOK, WellFormed
  <1>2. CASE \E s \in Slots : Serve(s)
    BY <1>2, ServeTypes
  <1>3. CASE Next /\ ~ \E s \in Slots : Serve(s)
    BY <1>3, ClientTypes
  <1> QED BY <1>1, <1>2, <1>3

\* The table, the requests and the processes keep their types, whatever the
\* clients send, lose, abandon or repeat.
THEOREM TypeCorrect == Spec => []TypeOK
  <1>1. Init => TypeOK /\ WellFormed
    BY InitInv DEF Inv
  <1> QED BY <1>1, FormInductive, PTL DEF Spec

-----------------------------------------------------------------------------
(* Claims.  A held claim is new only in ClaimNext, where its turn exceeds the  *)
(* turn of every claim of that job given out before.                           *)

\* What a watcher holds, by what its process and its request say.
LEMMA HeldTypes ==
  ASSUME TypeOK, NEW w \in Watchers
  PROVE  /\ Held(w)[1] \in Jobs \cup {NoJob} /\ Held(w)[2] \in Nat
         /\ Held(w) = <<Held(w)[1], Held(w)[2]>>
  <1>1. watcher[w] \in Processes /\ call[<<w, "main">>] \in Calls
    BY ElementTypes, ConstantTypes
  <1> QED BY <1>1 DEF Held, NoClaim, Calls, Processes

\* No claim appears and no attempt is forgotten: distinct claims stay distinct.
LEMMA ClaimsShrink ==
  ASSUME TypeOK, TypeOK', ClaimsDistinct,
         \A w \in Watchers : Held(w)' = Held(w) \/ Held(w)'[1] = NoJob,
         \A j \in Jobs : job'[j].attempts >= job[j].attempts
  PROVE  ClaimsDistinct'
  <1> SUFFICES ASSUME NEW w \in Watchers, Held(w)'[1] # NoJob
               PROVE  /\ \A v \in Watchers : Held(v)' = Held(w)' => v = w
                      /\ Held(w)'[2] <= job'[Held(w)'[1]].attempts
    BY DEF ClaimsDistinct
  <1>1. Held(w)' = Held(w)
    OBVIOUS
  <1>2. \A v \in Watchers : Held(v)' = Held(w)' => Held(v) = Held(w)
    BY <1>1
  <1>3. Held(w)[1] \in Jobs /\ Held(w)[2] \in Nat
    BY <1>1, HeldTypes
  <1>4. job[Held(w)[1]].attempts \in Nat /\ job'[Held(w)[1]].attempts \in Nat
    BY <1>3 DEF TypeOK, Rows
  <1>5. Held(w)[2] <= job[Held(w)[1]].attempts
    BY <1>1 DEF ClaimsDistinct
  <1> QED BY <1>1, <1>2, <1>3, <1>4, <1>5 DEF ClaimsDistinct

\* A claim held that no other watcher holds, of an attempt never counted before.
LEMMA ClaimsGrow ==
  ASSUME TypeOK, TypeOK', ClaimsDistinct, NEW w \in Watchers, NEW j \in Jobs,
         Held(w)' = <<j, job[j].attempts + 1>>,
         \A v \in Watchers : v # w => Held(v)' = Held(v),
         job'[j].attempts = job[j].attempts + 1,
         \A k \in Jobs : k # j => job'[k].attempts = job[k].attempts
  PROVE  ClaimsDistinct'
  <1>1. \A k \in Jobs : job[k].attempts \in Nat
    BY DEF TypeOK, Rows
  <1>2. j # NoJob
    BY ConstantTypes
  <1>3. \A v \in Watchers : v # w => Held(v)' # Held(w)'
    <2> SUFFICES ASSUME NEW v \in Watchers, v # w, Held(v) = <<j, job[j].attempts + 1>> PROVE FALSE
      OBVIOUS
    <2>1. Held(v)[1] = j /\ Held(v)[2] = job[j].attempts + 1
      OBVIOUS
    <2>2. Held(v)[2] <= job[j].attempts
      BY <1>2, <2>1 DEF ClaimsDistinct
    <2> QED BY <1>1, <2>1, <2>2
  <1>4. ASSUME NEW v \in Watchers, v # w, Held(v)'[1] # NoJob
        PROVE  /\ \A u \in Watchers : Held(u)' = Held(v)' => u = v
               /\ Held(v)'[2] <= job'[Held(v)'[1]].attempts
    <2>1. Held(v)' = Held(v)
      BY <1>4
    <2>2. \A u \in Watchers : Held(u)' = Held(v)' => u = v
      BY <1>3, <1>4, <2>1 DEF ClaimsDistinct
    <2>3. Held(v)[1] \in Jobs /\ Held(v)[2] \in Nat /\ Held(v)[2] <= job[Held(v)[1]].attempts
      BY <1>4, <2>1, HeldTypes DEF ClaimsDistinct
    <2>4. job'[Held(v)[1]].attempts >= job[Held(v)[1]].attempts /\ job'[Held(v)[1]].attempts \in Nat
      BY <1>1, <2>3
    <2> QED BY <1>1, <2>1, <2>2, <2>3, <2>4
  <1>5. /\ \A v \in Watchers : Held(v)' = Held(w)' => v = w
        /\ Held(w)'[2] <= job'[Held(w)'[1]].attempts
    <2>1. Held(w)'[1] = j /\ Held(w)'[2] = job[j].attempts + 1
      OBVIOUS
    <2> QED BY <1>1, <1>3, <2>1
  <1> QED BY <1>4, <1>5 DEF ClaimsDistinct

\* What a watcher holds depends on its process and its own request only.
LEMMA HeldUnchanged ==
  ASSUME NEW w \in Watchers, watcher'[w] = watcher[w], call'[<<w, "main">>] = call[<<w, "main">>]
  PROVE  Held(w)' = Held(w)
  BY DEF Held

\* A request moving from stage to stage brings nobody a claim unless it is a
\* claim being answered.
LEMMA HeldInService ==
  ASSUME TypeOK, WellFormed, NEW s \in Slots, UNCHANGED watcher,
         \A t \in Slots : t # s => call'[t] = call[t],
         call[s].at # "free", call[s].at # "reply",
         s[2] = "main" => \/ call'[s].kind # "claim" /\ call[s].kind # "claim"
                          \/ call'[s].at # "reply"
                          \/ call'[s].job = NoJob
  PROVE  \A w \in Watchers : Held(w)' = Held(w) \/ Held(w)'[1] = NoJob
  <1> SUFFICES ASSUME NEW w \in Watchers PROVE Held(w)' = Held(w) \/ Held(w)'[1] = NoJob
    OBVIOUS
  <1>1. <<w, "main">> \in Slots /\ <<w, "main">>[2] = "main"
    BY ConstantTypes
  <1>2. CASE <<w, "main">> # s
    BY <1>1, <1>2, HeldUnchanged
  <1>3. CASE <<w, "main">> = s
    BY <1>1, <1>3 DEF Held, NoClaim
  <1> QED BY <1>2, <1>3

\* A step that leaves the table alone forgets no attempt.
LEMMA AttemptsKept ==
  ASSUME TypeOK, UNCHANGED job
  PROVE  \A j \in Jobs : job'[j].attempts >= job[j].attempts
  BY DEF TypeOK, Rows

\* Answering one slot leaves the other slots alone.
LEMMA AnsweredCall ==
  ASSUME TypeOK, NEW s \in Slots, NEW c \in Calls, call' = Answered(s, c)
  PROVE  /\ \A t \in Slots : t # s => call'[t] = call[t]
         /\ s[2] = "main" => /\ call'[s].kind = c.kind /\ call'[s].job = c.job
                             /\ call'[s].turn = c.turn /\ call'[s].at = "reply"
         /\ s[2] # "main" => call'[s] = Free
  BY DEF TypeOK, Answered, Calls

\* Every step of the API keeps claims apart: only the pop hands one out.
LEMMA ServeClaims ==
  ASSUME Inv, NEW s \in Slots, Serve(s), TypeOK'
  PROVE  ClaimsDistinct'
  <1> USE DEF Inv
  <1>a. /\ \A t \in Slots : call[t] \in Calls
        /\ \A j \in Jobs : job[j] \in Rows
        /\ call[s] \in Calls
    BY ElementTypes
  <1>b. \A j \in Jobs : job[j].attempts \in Nat /\ job[j].attempts >= job[j].attempts
    BY <1>a DEF Rows
  <1>1. CASE SweepRead(s)
    <2>1. /\ \A t \in Slots : t # s => call'[t] = call[t]
          /\ call'[s].at # "reply" /\ call[s].at = "sent" /\ UNCHANGED <<job, watcher>>
      BY <1>1, <1>a DEF SweepRead, Arrived, TypeOK, Calls
    <2>2. \A w \in Watchers : Held(w)' = Held(w) \/ Held(w)'[1] = NoJob
      BY <2>1, HeldInService
    <2> QED BY <2>1, <2>2, AttemptsKept, ClaimsShrink
  <1>2. CASE SweepSave(s)
    <2>1. /\ \A t \in Slots : t # s => call'[t] = call[t]
          /\ call'[s].at # "reply" /\ call[s].at = "sweep" /\ UNCHANGED watcher
      BY <1>2, <1>a DEF SweepSave, TypeOK, Calls
    <2>2. \A w \in Watchers : Held(w)' = Held(w) \/ Held(w)'[1] = NoJob
      BY <2>1, HeldInService
    <2>3. \A j \in Jobs : Swept(j, call[s].spent).attempts = job[j].attempts
      BY <1>a DEF Swept, Rows
    <2>4. \A j \in Jobs : job'[j].attempts >= job[j].attempts
      BY <1>2, <1>b, <2>3 DEF SweepSave
    <2> QED BY <2>2, <2>4, ClaimsShrink
  <1>3. CASE ClaimNext(s)
    <2>0. s[1] \in Watchers /\ call[s].at = "pop" /\ call[s].kind = "claim" /\ UNCHANGED watcher
      BY <1>3 DEF ClaimNext, WellFormed
    <2>1. CASE QueuedRows = {} /\ call' = Answered(s, call[s]) /\ UNCHANGED job
      <3>1. \A t \in Slots : t # s => call'[t] = call[t]
        BY <1>a, <2>1, AnsweredCall
      <3>2. \A w \in Watchers : Held(w)' = Held(w) \/ Held(w)'[1] = NoJob
        <4>1. call[s].job = NoJob
          BY <2>0 DEF WellFormed
        <4>2. s[2] = "main" => call'[s].job = NoJob
          BY <1>a, <2>1, <4>1, AnsweredCall
        <4> QED BY <2>0, <3>1, <4>2, HeldInService
      <3> QED BY <2>1, <3>2, AttemptsKept, ClaimsShrink
    <2>2. ASSUME NEW j \in QueuedRows,
                 job' = [job EXCEPT ![j] = Claimed(j, s[1])],
                 call' = Answered(s, [call[s] EXCEPT !.job = j, !.turn = job[j].attempts + 1])
          PROVE  ClaimsDistinct'
      <3> DEFINE c == [call[s] EXCEPT !.job = j, !.turn = job[j].attempts + 1]
      <3>1. j \in Jobs
        BY DEF QueuedRows
      <3>2. c \in Calls /\ c.kind = "claim" /\ c.job = j /\ c.turn = job[j].attempts + 1
        <4>1. job[j].attempts + 1 \in Nat
          BY <1>b, <3>1
        <4> QED BY <1>a, <2>0, <3>1, <4>1 DEF Calls
      <3>3. /\ job'[j].attempts = job[j].attempts + 1
            /\ \A k \in Jobs : k # j => job'[k].attempts = job[k].attempts
        BY <1>a, <2>2, <3>1 DEF TypeOK, Claimed, Rows
      <3>4. call' = Answered(s, c)
        BY <2>2
      <3> HIDE DEF c
      <3>5. /\ \A t \in Slots : t # s => call'[t] = call[t]
            /\ s[2] = "main" => /\ call'[s].kind = "claim" /\ call'[s].job = j
                                /\ call'[s].turn = job[j].attempts + 1 /\ call'[s].at = "reply"
            /\ s[2] # "main" => call'[s] = Free
        BY <3>2, <3>4, AnsweredCall
      <3>6. CASE s = <<s[1], "main">>
        <4>0. s[2] = "main"
          BY <3>6
        <4>1. \A v \in Watchers : v # s[1] => <<v, "main">> \in Slots /\ <<v, "main">> # s
          <5> SUFFICES ASSUME NEW v \in Watchers, v # s[1]
                       PROVE  <<v, "main">> \in Slots /\ <<v, "main">> # s
            OBVIOUS
          <5>1. <<v, "main">>[1] = v
            OBVIOUS
          <5> QED BY <5>1, ConstantTypes
        <4>2. \A v \in Watchers : v # s[1] => Held(v)' = Held(v)
          BY <2>0, <3>5, <4>1, HeldUnchanged
        <4>3. watcher[s[1]].pc = "claiming"
          BY <2>0, <3>6 DEF WellFormed
        <4>4. Held(s[1])' = <<j, job[j].attempts + 1>>
          BY <2>0, <3>5, <3>6, <4>0, <4>3 DEF Held
        <4> QED BY <2>0, <3>1, <3>3, <4>2, <4>4, ClaimsGrow
      <3>7. CASE s # <<s[1], "main">>
        <4>1. \A v \in Watchers : <<v, "main">> \in Slots /\ <<v, "main">> # s
          <5> SUFFICES ASSUME NEW v \in Watchers
                       PROVE  <<v, "main">> \in Slots /\ <<v, "main">> # s
            OBVIOUS
          <5>1. <<v, "main">>[1] = v
            OBVIOUS
          <5> QED BY <3>7, <5>1, ConstantTypes
        <4>2. \A v \in Watchers : Held(v)' = Held(v)
          BY <2>0, <3>5, <4>1, HeldUnchanged
        <4>3. \A k \in Jobs : job'[k].attempts >= job[k].attempts
          BY <1>b, <3>1, <3>3
        <4> QED BY <4>2, <4>3, ClaimsShrink
      <3> QED BY <3>6, <3>7
    <2> QED BY <1>3, <2>1, <2>2 DEF ClaimNext
  <1>4. CASE ReportRead(s)
    <2>0. call[s].kind = "report" /\ call[s].at = "sent" /\ UNCHANGED <<job, watcher>>
      BY <1>4 DEF ReportRead, Arrived
    <2>1. /\ \A t \in Slots : t # s => call'[t] = call[t]
          /\ s[2] = "main" => call'[s].kind # "claim"
      <3>1. CASE call' = [call EXCEPT ![s].at = "save"]
        BY <1>a, <2>0, <3>1 DEF TypeOK, Calls
      <3>2. CASE call' = Answered(s, call[s])
        BY <1>a, <2>0, <3>2, AnsweredCall
      <3> QED BY <1>4, <3>1, <3>2 DEF ReportRead
    <2>2. \A w \in Watchers : Held(w)' = Held(w) \/ Held(w)'[1] = NoJob
      BY <2>0, <2>1, HeldInService
    <2> QED BY <2>0, <2>2, AttemptsKept, ClaimsShrink
  <1>5. CASE ReportSave(s)
    <2>0. call[s].kind = "report" /\ call[s].at = "save" /\ UNCHANGED watcher /\ call[s].job \in Jobs
      BY <1>5 DEF ReportSave, WellFormed
    <2>1. /\ \A t \in Slots : t # s => call'[t] = call[t]
          /\ s[2] = "main" => call'[s].kind # "claim"
      BY <1>5, <1>a, <2>0, AnsweredCall DEF ReportSave
    <2>2. \A w \in Watchers : Held(w)' = Held(w) \/ Held(w)'[1] = NoJob
      BY <2>0, <2>1, HeldInService
    <2>3. Reported(job[call[s].job], call[s].to).attempts = job[call[s].job].attempts
      BY <1>a, <2>0 DEF Reported, Rows
    <2>4. \A j \in Jobs : job'[j].attempts >= job[j].attempts
      BY <1>5, <1>b, <2>0, <2>3 DEF ReportSave, TypeOK
    <2> QED BY <2>2, <2>4, ClaimsShrink
  <1>6. CASE SubmitRead(s)
    <2>1. /\ \A t \in Slots : t # s => call'[t] = call[t]
          /\ call'[s].at # "reply" /\ call[s].at = "sent" /\ UNCHANGED <<job, watcher>>
      BY <1>6, <1>a DEF SubmitRead, Arrived, TypeOK, Calls, Free
    <2>2. \A w \in Watchers : Held(w)' = Held(w) \/ Held(w)'[1] = NoJob
      BY <2>1, HeldInService
    <2> QED BY <2>1, <2>2, AttemptsKept, ClaimsShrink
  <1>7. CASE SubmitSave(s)
    <2>1. /\ \A t \in Slots : t # s => call'[t] = call[t]
          /\ call'[s].at # "reply" /\ call[s].at = "save" /\ UNCHANGED watcher
      BY <1>7, <1>a DEF SubmitSave, TypeOK, Calls, Free
    <2>2. \A w \in Watchers : Held(w)' = Held(w) \/ Held(w)'[1] = NoJob
      BY <2>1, HeldInService
    <2>3. PICK j \in Jobs : job[j] = Absent /\ job' = [job EXCEPT ![j] = InsertedRow(call[s].sim)]
      BY <1>7 DEF SubmitSave
    <2>4. InsertedRow(call[s].sim).attempts = 0 /\ Absent.attempts = 0
      BY DEF InsertedRow, Absent
    <2>5. \A k \in Jobs : job'[k].attempts >= job[k].attempts
      BY <1>b, <2>3, <2>4 DEF TypeOK
    <2> QED BY <2>2, <2>5, ClaimsShrink
  <1> QED
    BY <1>1, <1>2, <1>3, <1>4, <1>5, <1>6, <1>7 DEF Serve

\* A watcher that goes on after a request holds what it held, or nothing.
LEMMA ResumedHolds ==
  ASSUME TypeOK, WellFormed, NEW w \in Watchers, NEW c \in Calls,
         call[<<w, "main">>].at # "free",
         c.kind = call[<<w, "main">>].kind, c.to = call[<<w, "main">>].to,
         c = call[<<w, "main">>] \/ c.at = "free",
         watcher' = [watcher EXCEPT ![w] = Resumed(w, c)],
         call'[<<w, "main">>] = Free
  PROVE  Held(w)' = Held(w) \/ Held(w)'[1] = NoJob
  <1> DEFINE ms == <<w, "main">>
  <1>0. ms \in Slots /\ call[ms] \in Calls /\ watcher[w] \in Processes
    BY ElementTypes, ConstantTypes
  <1>1. watcher'[w] = Resumed(w, c)
    BY DEF TypeOK
  <1>2. CASE c.kind = "claim" /\ c.at = "reply" /\ c.job # NoJob
    <2>1. c = call[ms] /\ watcher[w].pc = "claiming"
      BY <1>2 DEF WellFormed
    <2>2. Held(w) = <<c.job, c.turn>>
      BY <1>2, <2>1 DEF Held
    <2>3. Held(w)' = <<c.job, c.turn>>
      BY <1>1, <1>2 DEF Held, Resumed
    <2> QED BY <2>2, <2>3
  <1>3. CASE Resumed(w, c) = Idle
    BY <1>1, <1>3 DEF Held, Idle, Free, NoClaim
  <1>4. CASE c.kind # "claim" /\ c.to \notin Terminal
    <2>1. watcher[w].pc = "reporting"
      BY <1>4 DEF WellFormed
    <2>2. Held(w) = <<watcher[w].job, watcher[w].turn>>
      BY <2>1 DEF Held
    <2>3. Resumed(w, c) = [watcher[w] EXCEPT !.pc = "working", !.stage = c.to]
      BY <1>4 DEF Resumed
    <2>4. /\ Resumed(w, c).pc = "working" /\ Resumed(w, c).job = watcher[w].job
          /\ Resumed(w, c).turn = watcher[w].turn
      BY <1>0, <2>3 DEF Processes
    <2>5. Held(w)' = <<watcher[w].job, watcher[w].turn>>
      BY <1>1, <2>4 DEF Held
    <2> QED BY <2>2, <2>5
  <1> QED BY <1>2, <1>3, <1>4 DEF Resumed

\* No step of a watcher, a user or the clock makes a claim.
LEMMA ClientClaims ==
  ASSUME Inv, Next, ~ \E s \in Slots : Serve(s), TypeOK'
  PROVE  ClaimsDistinct'
  <1> USE DEF Inv
  <1>a. \A s \in Slots : call[s] \in Calls
    BY ElementTypes
  <1>b. \A w \in Watchers : /\ <<w, "main">> \in Slots /\ <<w, "late">> \in Slots /\ <<w, "beat">> \in Slots
                            /\ <<w, "main">> # <<w, "late">> /\ <<w, "main">> # <<w, "beat">>
                            /\ call[<<w, "main">>] \in Calls /\ watcher[w] \in Processes
    BY ElementTypes, ConstantTypes
  <1>c. \A v, w \in Watchers : v # w => /\ <<v, "main">> # <<w, "main">> /\ <<v, "main">> # <<w, "late">>
                                        /\ <<v, "main">> # <<w, "beat">>
    BY ConstantTypes
  \* What remains to show of a step of watcher w.
  <1>d. ASSUME NEW w \in Watchers, UNCHANGED job,
               \A v \in Watchers : v # w => /\ watcher'[v] = watcher[v]
                                            /\ call'[<<v, "main">>] = call[<<v, "main">>],
               Held(w)' = Held(w) \/ Held(w)'[1] = NoJob
        PROVE  ClaimsDistinct'
    <2>1. \A v \in Watchers : Held(v)' = Held(v) \/ Held(v)'[1] = NoJob
      BY <1>d, HeldUnchanged
    <2> QED BY <1>d, <2>1, AttemptsKept, ClaimsShrink
  <1>1. ASSUME NEW w \in Watchers, Poll(w) PROVE ClaimsDistinct'
    <2>1. watcher'[w].pc = "claiming" /\ call'[<<w, "main">>].at = "sent" /\ UNCHANGED job
      BY <1>1, <1>b DEF Poll, TypeOK, Processes, Free
    <2>2. \A v \in Watchers : v # w => watcher'[v] = watcher[v] /\ call'[<<v, "main">>] = call[<<v, "main">>]
      BY <1>1, <1>b, <1>c DEF Poll, TypeOK
    <2>3. Held(w)'[1] = NoJob
      BY <2>1 DEF Held, NoClaim
    <2> QED BY <1>d, <2>1, <2>2, <2>3
  <1>2. ASSUME NEW w \in Watchers, ReportStage(w) PROVE ClaimsDistinct'
    <2>1. /\ watcher'[w].pc = "reporting" /\ watcher[w].pc = "working" /\ UNCHANGED job
          /\ watcher'[w].job = watcher[w].job /\ watcher'[w].turn = watcher[w].turn
      BY <1>2, <1>b DEF ReportStage, TypeOK, Processes
    <2>2. \A v \in Watchers : v # w => watcher'[v] = watcher[v] /\ call'[<<v, "main">>] = call[<<v, "main">>]
      BY <1>2, <1>b, <1>c DEF ReportStage, TypeOK
    <2>3. Held(w)' = Held(w)
      BY <2>1 DEF Held
    <2> QED BY <1>d, <2>1, <2>2, <2>3
  <1>3. ASSUME NEW w \in Watchers, Receive(w) PROVE ClaimsDistinct'
    <2>1. /\ watcher' = [watcher EXCEPT ![w] = Resumed(w, call[<<w, "main">>])]
          /\ call'[<<w, "main">>] = Free /\ call[<<w, "main">>].at # "free" /\ UNCHANGED job
      BY <1>3, <1>b DEF Receive, TypeOK
    <2>2. \A v \in Watchers : v # w => watcher'[v] = watcher[v] /\ call'[<<v, "main">>] = call[<<v, "main">>]
      BY <1>3, <1>b, <1>c DEF Receive, TypeOK
    <2> QED BY <1>b, <1>d, <2>1, <2>2, ResumedHolds
  <1>4. ASSUME NEW w \in Watchers, Lose(w) \/ GiveUp(w) PROVE ClaimsDistinct'
    <2> DEFINE c == [call[<<w, "main">>] EXCEPT !.at = "free"]
    <2>1. c \in Calls /\ c.at = "free" /\ c.kind = call[<<w, "main">>].kind /\ c.to = call[<<w, "main">>].to
      BY <1>b DEF Calls
    <2>2. /\ watcher' = [watcher EXCEPT ![w] = Resumed(w, c)]
          /\ call'[<<w, "main">>] = Free /\ call[<<w, "main">>].at # "free" /\ UNCHANGED job
      BY <1>4, <1>b DEF Lose, GiveUp, TypeOK
    <2>3. \A v \in Watchers : v # w => watcher'[v] = watcher[v] /\ call'[<<v, "main">>] = call[<<v, "main">>]
      BY <1>4, <1>b, <1>c DEF Lose, GiveUp, TypeOK
    <2> HIDE DEF c
    <2> QED BY <1>d, <2>1, <2>2, <2>3, ResumedHolds
  <1>5. ASSUME NEW w \in Watchers, Crash(w) \/ PioFailsToStart(w) PROVE ClaimsDistinct'
    <2>1. watcher'[w].pc = "down" /\ UNCHANGED job
      BY <1>5, <1>b DEF Crash, PioFailsToStart, TypeOK, Idle
    <2>2. \A v \in Watchers : v # w => watcher'[v] = watcher[v] /\ call'[<<v, "main">>] = call[<<v, "main">>]
      BY <1>5, <1>b, <1>c DEF Crash, PioFailsToStart, TypeOK
    <2>3. call'[<<w, "main">>].at # "reply"
      <3>1. CASE Crash(w)
        <4>1. PICK l : call' = [call EXCEPT ![<<w, "main">>] = Free, ![<<w, "late">>] = l]
          BY <3>1 DEF Crash
        <4> QED BY <1>b, <4>1 DEF TypeOK, Free
      <3>2. CASE PioFailsToStart(w)
        BY <1>b, <3>2 DEF PioFailsToStart, WellFormed
      <3> QED BY <1>5, <3>1, <3>2
    <2>4. Held(w)'[1] = NoJob
      BY <2>1, <2>3 DEF Held, NoClaim
    <2> QED BY <1>d, <2>1, <2>2, <2>4
  <1>6. ASSUME NEW w \in Watchers, Restart(w) PROVE ClaimsDistinct'
    <2>1. watcher'[w] = Idle /\ UNCHANGED <<job, call>> /\ watcher[w].pc = "down"
      BY <1>6 DEF Restart, TypeOK
    <2>2. \A v \in Watchers : v # w => watcher'[v] = watcher[v]
      BY <1>6 DEF Restart, TypeOK
    <2>3. call[<<w, "main">>].at # "reply"
      BY <1>b, <2>1 DEF WellFormed
    <2>4. Held(w)'[1] = NoJob
      BY <2>1, <2>3 DEF Held, NoClaim, Idle
    <2> QED BY <1>d, <2>1, <2>2, <2>4
  <1>7. ASSUME NEW w \in Watchers, Beat(w) PROVE ClaimsDistinct'
    <2>1. UNCHANGED <<job, watcher>> /\ \A v \in Watchers : call'[<<v, "main">>] = call[<<v, "main">>]
      BY <1>7, <1>b, <1>c DEF Beat, TypeOK
    <2> QED BY <1>d, <1>7, <2>1, HeldUnchanged
  <1>8. ASSUME NEW u \in Users, NEW sim \in Sims \cup {NoSim}, Submit(u, sim) PROVE ClaimsDistinct'
    <2>1. \A v \in Watchers : <<v, "main">> # <<u, "main">>
      BY NullAssumption
    <2>2. UNCHANGED <<job, watcher>> /\ \A v \in Watchers : call'[<<v, "main">>] = call[<<v, "main">>]
      BY <1>8, <1>b, <2>1 DEF Submit, TypeOK
    <2>3. \A v \in Watchers : Held(v)' = Held(v)
      BY <2>2, HeldUnchanged
    <2> QED BY <2>2, <2>3, AttemptsKept, ClaimsShrink
  <1>9. ASSUME NEW j \in Jobs, AgeOut(j) PROVE ClaimsDistinct'
    <2>1. UNCHANGED <<call, watcher>> /\ \A k \in Jobs : job'[k].attempts = job[k].attempts
      BY <1>9, ElementTypes DEF AgeOut, TypeOK, Rows
    <2>2. \A v \in Watchers : Held(v)' = Held(v)
      BY <2>1, HeldUnchanged
    <2>3. \A k \in Jobs : job'[k].attempts >= job[k].attempts
      BY <2>1, ElementTypes DEF Rows
    <2> QED BY <2>2, <2>3, ClaimsShrink
  <1> QED
    BY <1>1, <1>2, <1>3, <1>4, <1>5, <1>6, <1>7, <1>8, <1>9 DEF Next, Work, Fault

\* Mutual exclusion of the queue: for any number of watchers and jobs, however
\* the handlers overlap and whatever is lost, abandoned or restarted, no claim
\* that ClaimNextAsync hands out is ever held by two watchers, and none is held
\* for an attempt the row has not counted.
THEOREM ClaimsExclusive == Spec => []ClaimsDistinct
  <1>1. Inv /\ [Next]_vars => Inv'
    <2> SUFFICES ASSUME Inv, [Next]_vars PROVE Inv'
      OBVIOUS
    <2>1. TypeOK' /\ WellFormed'
      BY FormInductive DEF Inv
    <2>2. CASE UNCHANGED vars
      <3>1. \A w \in Watchers : Held(w)' = Held(w)
        BY <2>2 DEF vars, Held
      <3>2. ClaimsDistinct'
        BY <2>2, <3>1 DEF vars, Inv, ClaimsDistinct
      <3> QED BY <2>1, <3>2 DEF Inv
    <2>3. CASE \E s \in Slots : Serve(s)
      BY <2>1, <2>3, ServeClaims DEF Inv
    <2>4. CASE Next /\ ~ \E s \in Slots : Serve(s)
      BY <2>1, <2>4, ClientClaims DEF Inv
    <2> QED BY <2>2, <2>3, <2>4
  <1>2. Inv => ClaimsDistinct
    BY DEF Inv
  <1> QED BY InitInv, <1>1, <1>2, PTL DEF Spec

-----------------------------------------------------------------------------
(* One handler at a time: what is true of the table when no handler's read and *)
(* save enclose another's, and that the queue is then the atomic one.          *)

Mid == {"sweep", "save"}

\* At most one handler is between its read and its save,
Alone == \A s, t \in Slots : call[s].at \in Mid /\ call[t].at \in Mid => s = t

\* and what it has read, it would read now.
Current ==
  \A s \in Slots :
    /\ call[s].at = "sweep" => /\ call[s].stale \subseteq StaleRows /\ call[s].stale # {}
                               /\ call[s].spent = {j \in call[s].stale : job[j].attempts >= MaxAttempts}
    /\ call[s].at = "save" /\ call[s].kind = "report" => Accepts(job[call[s].job], call[s], s[1])

\* Only what has attempts left is queued, and what is not there is nobody's.
Accounted ==
  /\ ClaimsAccounted
  /\ \A j \in Jobs : /\ job[j].status = "absent" => job[j].owner = Nobody
                     /\ job[j].status = "Queued" => job[j].attempts < MaxAttempts

SerialInv == TypeOK /\ WellFormed /\ Alone /\ Current /\ Accounted

\* A client only brings requests on their way, or leaves one to its late slot.
LEMMA ClientCalls ==
  ASSUME TypeOK, WellFormed, Next, ~ \E s \in Slots : Serve(s), NEW s \in Slots, call'[s].at \in Mid
  PROVE  \/ call'[s] = call[s]
         \/ \E w \in Watchers : /\ s = <<w, "late">> /\ call'[s] = call[<<w, "main">>]
                                /\ call'[<<w, "main">>].at \notin Mid
  <1> DEFINE Goal == \/ call'[s] = call[s]
                     \/ \E w \in Watchers : /\ s = <<w, "late">> /\ call'[s] = call[<<w, "main">>]
                                            /\ call'[<<w, "main">>].at \notin Mid
  <1> SUFFICES Goal
    OBVIOUS
  <1> USE DEF Mid
  <1>a. Free.at = "free" /\ call \in [Slots -> Calls]
    BY DEF Free, TypeOK
  <1>b. \A w \in Watchers : /\ <<w, "main">> \in Slots /\ <<w, "late">> \in Slots /\ <<w, "beat">> \in Slots
                            /\ <<w, "main">> # <<w, "late">>
    BY ConstantTypes
  <1>1. ASSUME NEW t \in Slots, NEW c, c.at = "sent" \/ c.at = "free", call' = [call EXCEPT ![t] = c]
        PROVE  Goal
    BY <1>a, <1>1
  <1>2. ASSUME NEW w \in Watchers, Poll(w) \/ Beat(w) \/ ReportStage(w) PROVE Goal
    <2>1. \A to : Report(w, to).at = "sent"
      BY DEF Report, Free
    <2>2. [Free EXCEPT !.at = "sent"].at = "sent"
      BY DEF Free
    <2> QED BY <1>1, <1>2, <1>b, <2>1, <2>2 DEF Poll, Beat, ReportStage
  <1>3. ASSUME NEW w \in Watchers, Receive(w) \/ Lose(w) PROVE Goal
    BY <1>1, <1>3, <1>a, <1>b DEF Receive, Lose
  <1>4. ASSUME NEW w \in Watchers, NEW kept \in {Free, call[<<w, "main">>], call[<<w, "late">>]},
               call' = [call EXCEPT ![<<w, "main">>] = Free, ![<<w, "late">>] = kept]
        PROVE  Goal
    <2>1. call'[<<w, "main">>] = Free /\ call'[<<w, "late">>] = kept
          /\ \A t \in Slots : t # <<w, "main">> /\ t # <<w, "late">> => call'[t] = call[t]
      BY <1>4, <1>a, <1>b
    <2> QED BY <1>4, <1>a, <2>1
  <1>5. ASSUME NEW w \in Watchers, GiveUp(w) PROVE Goal
    BY <1>4, <1>5 DEF GiveUp
  <1>6. ASSUME NEW w \in Watchers, Crash(w) PROVE Goal
    <2>1. PICK kept \in {Free, call[<<w, "main">>]} :
            call' = [call EXCEPT ![<<w, "main">>] = Free,
                                 ![<<w, "late">>] = IF kept = Free THEN @ ELSE kept]
      BY <1>6 DEF Crash
    <2>2. call' = [call EXCEPT ![<<w, "main">>] = Free,
                     ![<<w, "late">>] = IF kept = Free THEN call[<<w, "late">>] ELSE kept]
      BY <1>a, <1>b, <2>1
    <2> QED BY <1>4, <2>1, <2>2
  <1>7. ASSUME NEW u \in Users, NEW sim \in Sims \cup {NoSim}, Submit(u, sim) PROVE Goal
    <2>1. [Free EXCEPT !.at = "sent", !.kind = "submit", !.sim = sim].at = "sent"
      BY DEF Free
    <2> QED BY <1>1, <1>7, <2>1, ConstantTypes DEF Submit
  <1>8. CASE UNCHANGED call
    BY <1>8
  <1> QED
    BY <1>2, <1>3, <1>5, <1>6, <1>7, <1>8
    DEF Next, Work, Fault, PioFailsToStart, Restart, AgeOut

\* Nothing but AgeOut and the API's handlers changes the table.
LEMMA ClientRows ==
  ASSUME TypeOK, Next, ~ \E s \in Slots : Serve(s), NEW j \in Jobs
  PROVE  \/ job'[j] = job[j]
         \/ job'[j] = [job[j] EXCEPT !.fresh = FALSE] /\ job[j].status \in Active
  <1>1. ASSUME NEW k \in Jobs, AgeOut(k)
        PROVE  \/ job'[j] = job[j]
               \/ job'[j] = [job[j] EXCEPT !.fresh = FALSE] /\ job[j].status \in Active
    BY <1>1 DEF AgeOut, TypeOK
  <1>2. CASE UNCHANGED job
    BY <1>2
  <1> QED
    BY <1>1, <1>2 DEF Next, Work, Fault, Poll, Beat, ReportStage, Receive, Lose, GiveUp, Crash,
                      PioFailsToStart, Restart, Submit

\* What an answer leaves in the slot.
LEMMA AnsweredAt ==
  ASSUME TypeOK, NEW s \in Slots, NEW c \in Calls, call' = Answered(s, c)
  PROVE  call'[s].at \notin Mid /\ \A t \in Slots : t # s => call'[t] = call[t]
  BY DEF TypeOK, Answered, Calls, Free, Mid

\* The handlers take turns: each reads when no other is between its read and its
\* save, so that what it saves is what it would decide now.
LEMMA ServeSerial ==
  ASSUME ~Overlap, SerialInv, NEW s \in Slots, Serve(s)
  PROVE  Alone' /\ Current'
  <1> USE DEF SerialInv, Mid
  <1>a. call[s] \in Calls /\ call \in [Slots -> Calls]
    BY ElementTypes DEF TypeOK
  <1>b. \A j \in Jobs : call[s].job = j => job[j] \in Rows
    BY ElementTypes
  <1>1. \A t \in Slots : t # s => call[t].at \notin Mid
    <2>1. call[s].at \in Mid \/ MayRun
      BY DEF Serve, SweepRead, SweepSave, ClaimNext, ReportRead, ReportSave, SubmitRead, SubmitSave, Arrived
    <2> QED BY <2>1 DEF Alone, MayRun, MidHandler
  \* What remains to show of each handler.
  <1>2. ASSUME \A t \in Slots : t # s => call'[t] = call[t],
               /\ call'[s].at = "sweep" =>
                    /\ call'[s].stale \subseteq StaleRows' /\ call'[s].stale # {}
                    /\ call'[s].spent = {j \in call'[s].stale : job'[j].attempts >= MaxAttempts}
               /\ call'[s].at = "save" /\ call'[s].kind = "report" =>
                    Accepts(job'[call'[s].job], call'[s], s[1])
        PROVE  Alone' /\ Current'
    <2>1. \A t \in Slots : t # s => call'[t].at \notin Mid
      BY <1>1, <1>2
    <2>2. Alone'
      BY <2>1 DEF Alone
    <2>3. Current'
      BY <1>2, <2>1 DEF Current
    <2> QED BY <2>2, <2>3
  <1>3. CASE SweepRead(s)
    <2>1. call' = [call EXCEPT ![s] = [@ EXCEPT !.at = IF StaleRows = {} THEN "pop" ELSE "sweep",
                                             !.stale = StaleRows, !.spent = SpentRows]]
          /\ UNCHANGED job
      BY <1>3 DEF SweepRead
    <2>2. /\ call'[s].stale = StaleRows /\ call'[s].spent = SpentRows
          /\ call'[s].at = IF StaleRows = {} THEN "pop" ELSE "sweep"
          /\ \A t \in Slots : t # s => call'[t] = call[t]
      BY <1>a, <2>1 DEF Calls
    <2>3. StaleRows' = StaleRows /\ SpentRows = {j \in StaleRows : job'[j].attempts >= MaxAttempts}
      BY <2>1 DEF StaleRows, SpentRows
    <2> QED BY <1>2, <2>2, <2>3
  <1>4. CASE ReportRead(s)
    <2>1. CASE Accepts(job[call[s].job], call[s], s[1]) /\ call' = [call EXCEPT ![s].at = "save"]
      <3>1. /\ call'[s].job = call[s].job /\ call'[s].to = call[s].to /\ call'[s].at = "save"
            /\ \A t \in Slots : t # s => call'[t] = call[t]
        BY <1>a, <2>1 DEF Calls
      <3>2. UNCHANGED job
        BY <1>4 DEF ReportRead
      <3> QED BY <1>2, <2>1, <3>1, <3>2 DEF Accepts
    <2>2. CASE call' = Answered(s, call[s])
      BY <1>2, <1>a, <2>2, AnsweredAt
    <2> QED BY <1>4, <2>1, <2>2 DEF ReportRead
  <1>5. CASE SubmitRead(s)
    <2>1. \/ call'[s] = Free
          \/ call'[s] = [call[s] EXCEPT !.at = "save"] /\ call[s].kind = "submit"
      BY <1>5, <1>a DEF SubmitRead, Arrived
    <2>2. \A t \in Slots : t # s => call'[t] = call[t]
      BY <1>5, <1>a DEF SubmitRead
    <2>3. call'[s].at # "sweep" /\ (call'[s].at = "save" => call'[s].kind = "submit")
      BY <1>a, <2>1 DEF Free, Calls
    <2> QED BY <1>2, <2>2, <2>3
  <1>6. CASE SweepSave(s)
    <2>1. call' = [call EXCEPT ![s] = [@ EXCEPT !.at = "pop", !.stale = {}, !.spent = {}]]
      BY <1>6 DEF SweepSave
    <2>2. call'[s].at = "pop" /\ \A t \in Slots : t # s => call'[t] = call[t]
      BY <1>a, <2>1 DEF Calls
    <2> QED BY <1>2, <2>2
  <1>7. CASE ClaimNext(s)
    <2>1. PICK c \in Calls : call' = Answered(s, c)
      <3>1. CASE call' = Answered(s, call[s])
        BY <1>a, <3>1
      <3>2. ASSUME NEW j \in QueuedRows, call' = Answered(s, [call[s] EXCEPT !.job = j, !.turn = job[j].attempts + 1])
            PROVE  \E c \in Calls : call' = Answered(s, c)
        <4>1. j \in Jobs /\ job[j].attempts + 1 \in Nat
          BY <3>2, ElementTypes DEF QueuedRows, Rows
        <4>2. [call[s] EXCEPT !.job = j, !.turn = job[j].attempts + 1] \in Calls
          BY <1>a, <4>1 DEF Calls
        <4> QED BY <3>2, <4>2
      <3> QED BY <1>7, <3>1, <3>2 DEF ClaimNext
    <2> QED BY <1>2, <2>1, AnsweredAt
  <1>8. CASE ReportSave(s)
    BY <1>2, <1>8, <1>a, AnsweredAt DEF ReportSave
  <1>9. CASE SubmitSave(s)
    <2>1. call'[s] = Free /\ \A t \in Slots : t # s => call'[t] = call[t]
      BY <1>9, <1>a DEF SubmitSave
    <2> QED BY <1>2, <2>1 DEF Free
  <1> QED
    BY <1>3, <1>4, <1>5, <1>6, <1>7, <1>8, <1>9 DEF Serve

\* Clients change nothing that a handler has read; a claim that falls silent was
\* not stale before, and is refused nothing.
LEMMA ClientSerial ==
  ASSUME SerialInv, Next, ~ \E s \in Slots : Serve(s)
  PROVE  Alone' /\ Current'
  <1> USE DEF SerialInv
  <1>a. \A w \in Watchers : /\ <<w, "main">> \in Slots /\ <<w, "late">> \in Slots
                            /\ <<w, "late">>[1] = <<w, "main">>[1]
    BY ConstantTypes
  <1>1. Alone'
    <2> SUFFICES ASSUME NEW s \in Slots, NEW t \in Slots, call'[s].at \in Mid, call'[t].at \in Mid
                 PROVE  s = t
      BY DEF Alone
    <2>1. \A r \in {s, t} :
            \/ call'[r] = call[r]
            \/ \E w \in Watchers : /\ r = <<w, "late">> /\ call'[r] = call[<<w, "main">>]
                                   /\ call'[<<w, "main">>].at \notin Mid
      BY ClientCalls
    <2>2. CASE call'[s] = call[s] /\ call'[t] = call[t]
      BY <2>2 DEF Alone
    <2>3. ASSUME NEW w \in Watchers, s = <<w, "late">>, call'[s] = call[<<w, "main">>],
                 call'[<<w, "main">>].at \notin Mid, call'[t] = call[t]
          PROVE  s = t
      BY <1>a, <2>3 DEF Alone
    <2>4. ASSUME NEW w \in Watchers, t = <<w, "late">>, call'[t] = call[<<w, "main">>],
                 call'[<<w, "main">>].at \notin Mid, call'[s] = call[s]
          PROVE  s = t
      BY <1>a, <2>4 DEF Alone
    <2>5. ASSUME NEW v \in Watchers, NEW w \in Watchers, s = <<v, "late">>, t = <<w, "late">>,
                 call'[s] = call[<<v, "main">>], call'[t] = call[<<w, "main">>]
          PROVE  s = t
      <3>1. <<v, "main">> = <<w, "main">>
        BY <1>a, <2>5 DEF Alone
      <3> QED BY <2>5, <3>1
    <2> QED BY <2>1, <2>2, <2>3, <2>4, <2>5
  <1>2. \A j \in Jobs : job[j] \in Rows
    BY ElementTypes
  <1>3. \A j \in Jobs : /\ job'[j].status = job[j].status /\ job'[j].owner = job[j].owner
                        /\ job'[j].attempts = job[j].attempts /\ (job'[j].fresh => job[j].fresh)
    BY <1>2, ClientRows DEF Rows
  <1>4. \A s \in Slots : call'[s].at \in Mid =>
          \E t \in Slots : t[1] = s[1] /\ call'[s] = call[t]
    <2> SUFFICES ASSUME NEW s \in Slots, call'[s].at \in Mid
                 PROVE  \E t \in Slots : t[1] = s[1] /\ call'[s] = call[t]
      OBVIOUS
    <2>1. ASSUME NEW w \in Watchers, s = <<w, "late">>, call'[s] = call[<<w, "main">>]
          PROVE  \E t \in Slots : t[1] = s[1] /\ call'[s] = call[t]
      BY <1>a, <2>1
    <2> QED BY <2>1, ClientCalls
  <1>5. Current'
    <2> SUFFICES ASSUME NEW s \in Slots, call'[s].at \in Mid
                 PROVE  /\ call'[s].at = "sweep" =>
                             /\ call'[s].stale \subseteq StaleRows' /\ call'[s].stale # {}
                             /\ call'[s].spent = {j \in call'[s].stale : job'[j].attempts >= MaxAttempts}
                        /\ call'[s].at = "save" /\ call'[s].kind = "report" =>
                             Accepts(job'[call'[s].job], call'[s], s[1])
      BY DEF Current, Mid
    <2>1. PICK t \in Slots : t[1] = s[1] /\ call'[s] = call[t]
      BY <1>4
    <2>2. StaleRows \subseteq StaleRows' /\ StaleRows \subseteq Jobs
      BY <1>3 DEF StaleRows
    <2>3. call[t].at = "sweep" => call[t].spent = {j \in call[t].stale : job'[j].attempts >= MaxAttempts}
      BY <1>3, <2>2 DEF Current
    <2>4. call[t].at = "save" /\ call[t].kind = "report" => Accepts(job'[call[t].job], call[t], t[1])
      <3>1. call[t].at # "free" /\ call[t].kind = "report" => call[t].job \in Jobs
        BY DEF WellFormed
      <3> QED BY <1>3, <3>1 DEF Current, Accepts
    <2> QED BY <2>1, <2>2, <2>3, <2>4 DEF Current
  <1> QED
    BY <1>1, <1>5

\* What may become of the table, one handler at a time.
Inserts == \E j \in Jobs, sim \in Sims \cup {NoSim} :
  job[j] = Absent /\ job' = [job EXCEPT ![j] = InsertedRow(sim)]
HandsOut == \E j \in Jobs, w \in Watchers : IsNext(j) /\ job' = [job EXCEPT ![j] = Claimed(j, w)]
Hears == \E j \in Jobs, to \in Active \cup Terminal \cup {"beat"} :
  /\ job[j].status \in Active /\ (to = "beat" \/ IsValidTransition(job[j].status, to))
  /\ job' = [job EXCEPT ![j] = Reported(@, to)]
FallsSilent == \E j \in Jobs :
  job[j].status \in Active /\ job[j].fresh /\ job' = [job EXCEPT ![j].fresh = FALSE]
TakesBack == \E S \in SUBSET StaleRows :
  /\ S # {}
  /\ job' = [j \in Jobs |-> IF j \in S THEN Swept(j, {k \in S : job[k].attempts >= MaxAttempts}) ELSE job[j]]

\* Every step of the system is one of these to the table, or none.
LEMMA RowStep ==
  ASSUME SerialInv, [Next]_vars
  PROVE  UNCHANGED job \/ Inserts \/ HandsOut \/ Hears \/ FallsSilent \/ TakesBack
  <1> USE DEF SerialInv
  <1>1. ASSUME NEW s \in Slots, SweepSave(s) PROVE TakesBack
    <2>1. /\ call[s].stale \in SUBSET StaleRows /\ call[s].stale # {}
          /\ call[s].spent = {k \in call[s].stale : job[k].attempts >= MaxAttempts}
      BY <1>1 DEF SweepSave, Current
    <2> QED BY <1>1, <2>1 DEF SweepSave, TakesBack
  <1>2. ASSUME NEW s \in Slots, ClaimNext(s) PROVE UNCHANGED job \/ HandsOut
    <2>1. s[1] \in Watchers
      BY <1>2 DEF ClaimNext, WellFormed
    <2> QED BY <1>2, <2>1 DEF ClaimNext, HandsOut, QueuedRows
  <1>3. ASSUME NEW s \in Slots, ReportSave(s) PROVE Hears
    <2>1. call[s].job \in Jobs /\ s[1] \in Watchers /\ call[s].to \in Active \cup Terminal \cup {"beat"}
      BY <1>3, ElementTypes DEF ReportSave, WellFormed, Calls
    <2>2. Accepts(job[call[s].job], call[s], s[1])
      BY <1>3 DEF ReportSave, Current
    <2>3. job[call[s].job].status \in Active
      <3>1. job[call[s].job] \in Rows /\ s[1] # Nobody
        BY <2>1, ElementTypes, NullAssumption
      <3> QED BY <2>1, <2>2, <3>1 DEF Accepts, Accounted, ClaimsAccounted, Rows, Open
    <2> QED BY <1>3, <2>1, <2>2, <2>3 DEF ReportSave, Hears, Accepts
  <1>4. ASSUME NEW s \in Slots, SubmitSave(s) PROVE Inserts
    <2>1. call[s].sim \in Sims \cup {NoSim}
      BY ElementTypes DEF Calls
    <2> QED BY <1>4, <2>1 DEF SubmitSave, Inserts
  <1>5. ASSUME NEW j \in Jobs, AgeOut(j) PROVE FallsSilent
    BY <1>5 DEF AgeOut, FallsSilent
  <1>6. ASSUME NEW s \in Slots, SweepRead(s) \/ ReportRead(s) \/ SubmitRead(s) PROVE UNCHANGED job
    BY <1>6 DEF SweepRead, ReportRead, SubmitRead
  <1>7. ASSUME NEW w \in Watchers, Work(w) \/ Beat(w) \/ Fault(w) PROVE UNCHANGED job
    BY <1>7 DEF Work, Beat, Fault, Poll, ReportStage, Receive, Restart, Lose, GiveUp, Crash, PioFailsToStart
  <1>8. ASSUME NEW u \in Users, NEW sim \in Sims \cup {NoSim}, Submit(u, sim) PROVE UNCHANGED job
    BY <1>8 DEF Submit
  <1> QED
    BY <1>1, <1>2, <1>3, <1>4, <1>5, <1>6, <1>7, <1>8 DEF Next, Serve, vars

\* Each of them keeps the account.
LEMMA AccountedInductive ==
  ASSUME SerialInv, [Next]_vars
  PROVE  Accounted'
  <1> USE DEF SerialInv
  <1>a. job \in [Jobs -> Rows] /\ \A j \in Jobs : job[j] \in Rows
    BY ElementTypes DEF TypeOK
  <1>1. CASE UNCHANGED job
    BY <1>1 DEF Accounted, ClaimsAccounted
  <1>2. CASE Inserts
    <2>1. PICK j \in Jobs, sim \in Sims \cup {NoSim} : job' = [job EXCEPT ![j] = InsertedRow(sim)]
      BY <1>2 DEF Inserts
    <2>2. job'[j].status = "Queued" /\ job'[j].owner = Nobody /\ job'[j].attempts = 0
      BY <1>a, <2>1 DEF InsertedRow, Absent
    <2>3. \A k \in Jobs \ {j} : job'[k] = job[k]
      BY <1>a, <2>1
    <2>4. /\ job'[j].attempts < MaxAttempts /\ job'[j].attempts <= MaxAttempts
          /\ job'[j].status \notin Active
      BY <2>2, BoundsAssumption DEF Active
    <2> QED BY <2>2, <2>3, <2>4 DEF Accounted, ClaimsAccounted
  <1>3. CASE HandsOut
    <2>1. PICK j \in Jobs, w \in Watchers : IsNext(j) /\ job' = [job EXCEPT ![j] = Claimed(j, w)]
      BY <1>3 DEF HandsOut
    <2>2. job'[j].status = "Claimed" /\ job'[j].owner = w /\ job'[j].attempts = job[j].attempts + 1
      BY <1>a, <2>1 DEF Claimed, Rows
    <2>3. job[j].attempts < MaxAttempts /\ job[j].attempts \in Nat
      BY <1>a, <2>1 DEF IsNext, QueuedRows, Accounted, Rows
    <2>4. \A k \in Jobs \ {j} : job'[k] = job[k]
      BY <1>a, <2>1
    <2>5. job'[j].attempts <= MaxAttempts /\ job'[j].status \notin {"Queued", "absent"}
      BY <2>2, <2>3, BoundsAssumption
    <2> QED BY <2>2, <2>4, <2>5 DEF Accounted, ClaimsAccounted
  <1>4. CASE Hears
    <2>1. PICK j \in Jobs, to \in Active \cup Terminal \cup {"beat"} :
            /\ job[j].status \in Active /\ (to = "beat" \/ IsValidTransition(job[j].status, to))
            /\ job' = [job EXCEPT ![j] = Reported(@, to)]
      BY <1>4 DEF Hears
    <2>2. /\ job'[j].status = IF to = "beat" THEN job[j].status ELSE to
          /\ job'[j].owner = job[j].owner /\ job'[j].attempts = job[j].attempts
      BY <1>a, <2>1 DEF Reported, Rows
    <2>3. job'[j].status \notin {"Queued", "absent"}
      BY <2>1, <2>2 DEF Active, Terminal
    <2>4. \A k \in Jobs \ {j} : job'[k] = job[k]
      BY <1>a, <2>1
    <2> QED BY <2>1, <2>2, <2>3, <2>4 DEF Accounted, ClaimsAccounted
  <1>5. CASE FallsSilent
    <2>1. PICK j \in Jobs : job[j].status \in Active /\ job' = [job EXCEPT ![j].fresh = FALSE]
      BY <1>5 DEF FallsSilent
    <2>2. /\ job'[j].status = job[j].status /\ job'[j].owner = job[j].owner
          /\ job'[j].attempts = job[j].attempts
      BY <1>a, <2>1 DEF Rows
    <2>3. \A k \in Jobs \ {j} : job'[k] = job[k]
      BY <1>a, <2>1
    <2> QED BY <2>1, <2>2, <2>3 DEF Accounted, ClaimsAccounted
  <1>6. CASE TakesBack
    <2>1. PICK S \in SUBSET StaleRows :
            job' = [j \in Jobs |-> IF j \in S THEN Swept(j, {k \in S : job[k].attempts >= MaxAttempts}) ELSE job[j]]
      BY <1>6 DEF TakesBack
    <2>2. S \in SUBSET Jobs /\ \A k \in Jobs \ S : job'[k] = job[k]
      BY <2>1 DEF StaleRows
    <2>3. ASSUME NEW j \in S
          PROVE  /\ job'[j].owner = Nobody /\ job'[j].attempts = job[j].attempts
                 /\ job'[j].status = IF job[j].attempts >= MaxAttempts THEN "Failed" ELSE "Queued"
                 /\ job[j].attempts \in Nat
      BY <1>a, <2>1, <2>2 DEF Swept, Rows
    <2>4. \A j \in S : job[j].attempts <= MaxAttempts
      BY <2>2 DEF Accounted, ClaimsAccounted
    <2>5. \A j \in S : /\ job'[j].attempts <= MaxAttempts /\ job'[j].status \notin Active \cup {"absent"}
                       /\ job'[j].status = "Queued" => job'[j].attempts < MaxAttempts
      BY <2>3, <2>4, BoundsAssumption DEF Active
    <2> QED BY <2>2, <2>3, <2>5 DEF Accounted, ClaimsAccounted
  <1> QED
    BY <1>1, <1>2, <1>3, <1>4, <1>5, <1>6, RowStep

LEMMA SerialInductive ==
  ASSUME ~Overlap, SerialInv, [Next]_vars
  PROVE  SerialInv'
  <1>1. TypeOK' /\ WellFormed'
    BY FormInductive DEF SerialInv
  <1>2. Alone' /\ Current'
    <2>1. CASE UNCHANGED vars
      BY <2>1 DEF SerialInv, Alone, Current, vars, StaleRows, Accepts
    <2>2. CASE \E s \in Slots : Serve(s)
      BY <2>2, ServeSerial
    <2>3. CASE Next /\ ~ \E s \in Slots : Serve(s)
      BY <2>3, ClientSerial
    <2> QED BY <2>1, <2>2, <2>3
  <1> QED
    BY <1>1, <1>2, AccountedInductive DEF SerialInv

LEMMA SerialInit == Init => SerialInv
  <1> SUFFICES ASSUME Init PROVE SerialInv
    OBVIOUS
  <1>1. TypeOK /\ WellFormed
    BY InitInv DEF Inv
  <1>2. \A s \in Slots : call[s].at = "free"
    BY DEF Init, Free
  <1>3. \A j \in Jobs : job[j] = Absent
    BY DEF Init
  <1> QED
    BY <1>1, <1>2, <1>3, BoundsAssumption
    DEF SerialInv, Alone, Current, Mid, Accounted, ClaimsAccounted, Absent, Active

LEMMA SerialInvariance ==
  ASSUME ~Overlap
  PROVE  Spec => []SerialInv
  BY SerialInit, SerialInductive, PTL DEF Spec

\* One handler at a time, a job is handed out at most MaxAttempts times, and its
\* row names a claimer while it is claimed and nobody while it is queued.
THEOREM ClaimsAreAccounted ==
  ASSUME ~Overlap
  PROVE  Spec => []ClaimsAccounted
  <1>1. SerialInv => ClaimsAccounted
    BY DEF SerialInv, Accounted
  <1> QED
    BY <1>1, SerialInvariance, PTL

\* The stages of the two specifications are the same.
LEMMA SameStages ==
  /\ Lifecycle!Owned = Active
  /\ \A current, next : IsValidTransition(current, next) =>
       /\ next = "Failed" \/ Lifecycle!Following(current, next)
       /\ next \in {"Failed"} \cup Lifecycle!Owned \cup {"Done"}
  <1>1. \A i \in 1..4 : i = 1 \/ i = 2 \/ i = 3 \/ i = 4
    OBVIOUS
  <1>2. /\ Lifecycle!Stages[1] = "Claimed" /\ Lifecycle!Stages[2] = "Solving" /\ Lifecycle!Stages[3] = "Extracting"
        /\ Lifecycle!Stages[4] = "Uploading" /\ Lifecycle!Stages[5] = "Done"
    BY DEF Lifecycle!Stages
  <1>3. Lifecycle!Owned = Active
    BY <1>1, <1>2 DEF Lifecycle!Owned, Active
  <1>4. ASSUME NEW current \in Active PROVE Lifecycle!Following(current, StageAfter[current])
    <2>1. \E i \in 1..4 : Lifecycle!Stages[i] = current /\ Lifecycle!Stages[i + 1] = StageAfter[current]
      BY <1>2 DEF Active, StageAfter
    <2> QED BY <2>1 DEF Lifecycle!Following
  <1>5. \A current \in Active : StageAfter[current] \in Active \cup {"Done"}
    BY DEF Active, StageAfter
  <1> QED
    BY <1>3, <1>4, <1>5 DEF IsValidTransition

\* A change of one row, seen in the columns.
LEMMA Columns ==
  ASSUME NEW j \in Jobs, \A k \in Jobs : k # j => job'[k] = job[k]
  PROVE  /\ [k \in Jobs |-> job'[k].status] = [[k \in Jobs |-> job[k].status] EXCEPT ![j] = job'[j].status]
         /\ [k \in Jobs |-> job'[k].fresh] = [[k \in Jobs |-> job[k].fresh] EXCEPT ![j] = job'[j].fresh]
         /\ job'[j].status = job[j].status => [k \in Jobs |-> job'[k].status] = [k \in Jobs |-> job[k].status]
         /\ job'[j].owner = job[j].owner => [k \in Jobs |-> job'[k].owner] = [k \in Jobs |-> job[k].owner]
         /\ job'[j].attempts = job[j].attempts => [k \in Jobs |-> job'[k].attempts] = [k \in Jobs |-> job[k].attempts]
         /\ job'[j].fresh = job[j].fresh => [k \in Jobs |-> job'[k].fresh] = [k \in Jobs |-> job[k].fresh]
  OBVIOUS

\* Each change of the table is one of the atomic queue, with the rows' columns
\* as its variables.
LEMMA LifecycleStep ==
  ASSUME SerialInv, [Next]_vars
  PROVE  [Lifecycle!Next]_(Lifecycle!lvars)
  <1> USE DEF SerialInv
  <1>a. job \in [Jobs -> Rows] /\ \A j \in Jobs : job[j] \in Rows
    BY ElementTypes DEF TypeOK
  <1> DEFINE status == [j \in Jobs |-> job[j].status]
             owner == [j \in Jobs |-> job[j].owner]
             attempts == [j \in Jobs |-> job[j].attempts]
             heard == [j \in Jobs |-> job[j].fresh]
  <1>1. CASE UNCHANGED job
    BY <1>1 DEF Lifecycle!lvars
  <1>2. CASE Inserts
    <2>1. PICK j \in Jobs, sim \in Sims \cup {NoSim} : job[j] = Absent /\ job' = [job EXCEPT ![j] = InsertedRow(sim)]
      BY <1>2 DEF Inserts
    <2>2. /\ job'[j].status = "Queued" /\ job'[j].owner = Nobody /\ job'[j].attempts = 0
          /\ job'[j].fresh = FALSE /\ \A k \in Jobs : k # j => job'[k] = job[k]
      BY <1>a, <2>1 DEF InsertedRow, Absent
    <2>3. /\ job[j].status = "absent" /\ job[j].owner = Nobody /\ job[j].attempts = 0 /\ job[j].fresh = FALSE
      BY <2>1 DEF Absent
    <2>4. Lifecycle!Insert(j)
      BY <2>2, <2>3, Columns DEF Lifecycle!Insert
    <2> QED BY <2>4 DEF Lifecycle!Next
  <1>3. CASE HandsOut
    <2>1. PICK j \in Jobs, w \in Watchers : IsNext(j) /\ job' = [job EXCEPT ![j] = Claimed(j, w)]
      BY <1>3 DEF HandsOut
    <2>2. /\ job'[j].status = "Claimed" /\ job'[j].owner = w /\ job'[j].attempts = job[j].attempts + 1
          /\ job'[j].fresh = TRUE /\ \A k \in Jobs : k # j => job'[k] = job[k]
      BY <1>a, <2>1 DEF Claimed, Rows
    <2>3. job[j].status = "Queued" /\ job[j].attempts < MaxAttempts
      BY <2>1 DEF IsNext, QueuedRows, Accounted
    <2>4. \A k \in Jobs : job[k].status = "Queued" => j <= k
      BY <2>1 DEF IsNext, QueuedRows
    <2>5. Lifecycle!HandOut(j, w)
      BY <2>2, <2>3, <2>4 DEF Lifecycle!HandOut
    <2> QED BY <2>5 DEF Lifecycle!Next
  <1>4. CASE Hears
    <2>1. PICK j \in Jobs, to \in Active \cup Terminal \cup {"beat"} :
            /\ job[j].status \in Active /\ (to = "beat" \/ IsValidTransition(job[j].status, to))
            /\ job' = [job EXCEPT ![j] = Reported(@, to)]
      BY <1>4 DEF Hears
    <2>2. /\ job'[j].status = IF to = "beat" THEN job[j].status ELSE to
          /\ job'[j].owner = job[j].owner /\ job'[j].attempts = job[j].attempts
          /\ job'[j].fresh = TRUE /\ \A k \in Jobs : k # j => job'[k] = job[k]
      BY <1>a, <2>1 DEF Reported, Rows
    <2>3. Lifecycle!Hear(j)
      <3>1. CASE to = "beat"
        BY <2>1, <2>2, <3>1, SameStages, Columns DEF Lifecycle!Hear
      <3>2. CASE to # "beat"
        <4>1. /\ to = "Failed" \/ Lifecycle!Following(job[j].status, to)
              /\ to \in {"Failed"} \cup Lifecycle!Owned \cup {"Done"}
          BY <2>1, <3>2, SameStages
        <4>2. /\ status' = [status EXCEPT ![j] = to] /\ heard' = [heard EXCEPT ![j] = TRUE]
              /\ UNCHANGED <<owner, attempts>>
          BY <2>2, <3>2, Columns
        <4>3. status[j] = job[j].status /\ status[j] \in Lifecycle!Owned
          BY <2>1, SameStages
        <4> HIDE DEF status, owner, attempts, heard
        <4>4. \E next \in {"Failed"} \cup Lifecycle!Owned \cup {"Done"} :
                /\ next = "Failed" \/ Lifecycle!Following(status[j], next)
                /\ status' = [status EXCEPT ![j] = next]
          BY <4>1, <4>2, <4>3
        <4> USE DEF status, owner, attempts, heard
        <4> QED BY <4>2, <4>3, <4>4 DEF Lifecycle!Hear
      <3> QED BY <3>1, <3>2
    <2> QED BY <2>3 DEF Lifecycle!Next
  <1>5. CASE FallsSilent
    <2>1. PICK j \in Jobs : job[j].status \in Active /\ job[j].fresh /\ job' = [job EXCEPT ![j].fresh = FALSE]
      BY <1>5 DEF FallsSilent
    <2>2. /\ job'[j].status = job[j].status /\ job'[j].owner = job[j].owner
          /\ job'[j].attempts = job[j].attempts /\ job'[j].fresh = FALSE
          /\ \A k \in Jobs : k # j => job'[k] = job[k]
      BY <1>a, <2>1 DEF Rows
    <2>3. Lifecycle!FallSilent(j)
      BY <2>1, <2>2, SameStages, Columns DEF Lifecycle!FallSilent
    <2> QED BY <2>3 DEF Lifecycle!Next
  <1>6. CASE TakesBack
    <2>1. PICK S \in SUBSET StaleRows :
            /\ S # {}
            /\ job' = [j \in Jobs |-> IF j \in S THEN Swept(j, {k \in S : job[k].attempts >= MaxAttempts}) ELSE job[j]]
      BY <1>6 DEF TakesBack
    <2>2. \A j \in S : j \in Jobs /\ job[j].status \in Active /\ ~job[j].fresh
      BY <2>1 DEF StaleRows
    <2>3. ASSUME NEW j \in Jobs
          PROVE  /\ job'[j].owner = IF j \in S THEN Nobody ELSE job[j].owner
                 /\ job'[j].status = IF j \notin S THEN job[j].status
                                     ELSE IF job[j].attempts < MaxAttempts THEN "Queued" ELSE "Failed"
                 /\ job'[j].attempts = job[j].attempts /\ job'[j].fresh = job[j].fresh
      <3>1. CASE j \notin S
        BY <2>1, <3>1
      <3>2. CASE j \in S
        <4>1. job'[j] = [job[j] EXCEPT !.owner = Nobody,
                           !.status = IF j \in {k \in S : job[k].attempts >= MaxAttempts} THEN "Failed" ELSE "Queued"]
          BY <2>1, <3>2 DEF Swept
        <4>2. job[j].attempts >= MaxAttempts <=> ~(job[j].attempts < MaxAttempts)
          BY <1>a, BoundsAssumption DEF Rows
        <4> QED BY <1>a, <3>2, <4>1, <4>2 DEF Rows
      <3> QED BY <3>1, <3>2
    <2>4. S \in SUBSET {j \in Jobs : status[j] \in Lifecycle!Owned /\ ~heard[j]}
      BY <2>2, SameStages
    <2>5. Lifecycle!TakeBack
      BY <2>1, <2>2, <2>3, <2>4 DEF Lifecycle!TakeBack
    <2> QED BY <2>5 DEF Lifecycle!Next
  <1> QED
    BY <1>1, <1>2, <1>3, <1>4, <1>5, <1>6, RowStep

\* One handler at a time, the table, the requests and the watchers together do
\* what the atomic queue does and nothing else.
THEOREM QueueImplementsLifecycle ==
  ASSUME ~Overlap
  PROVE  Spec => ImplementsLifecycle
  <1>1. Init => Lifecycle!Init
    BY DEF Init, Absent, Lifecycle!Init
  <1>2. SerialInv /\ [Next]_vars => [Lifecycle!Next]_(Lifecycle!lvars)
    BY LifecycleStep
  <1> QED
    BY <1>1, <1>2, SerialInvariance, PTL DEF Spec, ImplementsLifecycle, Lifecycle!Spec

-----------------------------------------------------------------------------
(* Sweeps that overlap.  What a sweep in flight will still put back into the   *)
(* queue is counted with what is there already: once a job has no attempts     *)
(* left nothing adds to the two, and each hand-out takes one from them.        *)

\* The sweeps in flight that will queue j again when they save,
Requeuing(s, j) == call[s].at = "sweep" /\ j \in call[s].stale /\ j \notin call[s].spent
Pending(j) == {s \in Sweepers : Requeuing(s, j)}

\* and the hand-outs that j waits for in the table.
Waits(j) == IF job[j].status = "Queued" THEN 1 ELSE 0

Bounded(j) == job[j].attempts >= MaxAttempts =>
  job[j].attempts + Waits(j) + Cardinality(Pending(j)) < MaxAttempts + Cardinality(Sweepers)

\* A heartbeat's slot never carries a claim.
Placed == \A s \in Slots : call[s].at # "free" /\ call[s].kind = "claim" => s \in Sweepers

HandOutInv == TypeOK /\ WellFormed /\ Placed /\ \A j \in Jobs : Bounded(j)

\* There are finitely many requests to count.
LEMMA SweepersFinite ==
  /\ IsFiniteSet(Sweepers) /\ Cardinality(Sweepers) \in Nat
  /\ \A s \in Sweepers : s \in Slots
  <1>1. IsFiniteSet({"main"}) /\ {"main", "late"} = {"main"} \cup {"late"}
    BY FS_Singleton
  <1>2. IsFiniteSet({"main", "late"})
    BY <1>1, FS_AddElement
  <1>3. IsFiniteSet(Sweepers)
    BY <1>2, WatchersAssumption, FS_Product DEF Sweepers
  <1> QED BY <1>3, FS_CardinalityType DEF Sweepers, Slots

\* So are those that will queue j again.
LEMMA PendingFinite ==
  ASSUME NEW j \in Jobs
  PROVE  /\ IsFiniteSet(Pending(j)) /\ Cardinality(Pending(j)) \in Nat
         /\ Cardinality(Pending(j)) <= Cardinality(Sweepers)
         /\ IsFiniteSet(Pending(j)') /\ Cardinality(Pending(j)') \in Nat
         /\ Cardinality(Pending(j)') <= Cardinality(Sweepers)
  <1>1. Pending(j) \in SUBSET Sweepers /\ Pending(j)' \in SUBSET Sweepers
    BY DEF Pending
  <1> QED BY <1>1, SweepersFinite, FS_Subset, FS_CardinalityType

\* What keeps the bound when a job is not handed out.
LEMMA BoundKept ==
  ASSUME NEW j \in Jobs, Bounded(j), job[j].attempts \in Nat, job'[j].attempts = job[j].attempts,
         Waits(j)' + Cardinality(Pending(j)') <= Waits(j) + Cardinality(Pending(j))
  PROVE  Bounded(j)'
  <1>1. Waits(j) \in Nat /\ Waits(j)' \in Nat
    BY DEF Waits
  <1> QED BY <1>1, PendingFinite, SweepersFinite, BoundsAssumption DEF Bounded

LEMMA FewerKept ==
  ASSUME NEW j \in Jobs, Bounded(j), job[j].attempts \in Nat, job'[j].attempts = job[j].attempts,
         job'[j].status = "Queued" => job[j].status = "Queued",
         \A s \in Sweepers : Requeuing(s, j)' => Requeuing(s, j)
  PROVE  Bounded(j)'
  <1>1. Waits(j) \in Nat /\ Waits(j)' \in Nat /\ Waits(j)' <= Waits(j)
    BY DEF Waits
  <1>2. Pending(j)' \in SUBSET Pending(j)
    BY DEF Pending
  <1>3. Cardinality(Pending(j)') <= Cardinality(Pending(j))
    BY <1>2, PendingFinite, FS_Subset
  <1> QED BY <1>1, <1>3, PendingFinite, BoundKept

\* A handler changes its own slot only, and not what kind of request is in it.
LEMMA ServeSlot ==
  ASSUME TypeOK, WellFormed, NEW s \in Slots, Serve(s)
  PROVE  /\ \A t \in Slots : t # s => call'[t] = call[t]
         /\ call[s].at # "free"
         /\ call'[s].at # "free" => call'[s].kind = call[s].kind
         /\ UNCHANGED <<watcher, faults>>
  <1>a. call \in [Slots -> Calls] /\ call[s] \in Calls /\ Free.at = "free"
    BY ElementTypes DEF TypeOK, Free
  <1>1. CASE SweepRead(s)
    BY <1>1, <1>a DEF SweepRead, Arrived, Calls
  <1>2. CASE SweepSave(s)
    BY <1>2, <1>a DEF SweepSave, Calls
  <1>3. ASSUME NEW j, NEW n, call' = Answered(s, [call[s] EXCEPT !.job = j, !.turn = n])
        PROVE  /\ \A t \in Slots : t # s => call'[t] = call[t]
               /\ call'[s].at # "free" => call'[s].kind = call[s].kind
    BY <1>3, <1>a DEF Answered, Calls
  <1>4. ASSUME call' = Answered(s, call[s])
        PROVE  /\ \A t \in Slots : t # s => call'[t] = call[t]
               /\ call'[s].at # "free" => call'[s].kind = call[s].kind
    BY <1>4, <1>a DEF Answered, Calls
  <1>5. CASE ClaimNext(s)
    BY <1>3, <1>4, <1>5 DEF ClaimNext
  <1>6. CASE ReportRead(s)
    BY <1>4, <1>6, <1>a DEF ReportRead, Arrived, Calls
  <1>7. CASE ReportSave(s)
    BY <1>4, <1>7 DEF ReportSave
  <1>8. CASE SubmitRead(s)
    BY <1>8, <1>a DEF SubmitRead, Arrived, Calls
  <1>9. CASE SubmitSave(s)
    BY <1>9, <1>a DEF SubmitSave
  <1> QED BY <1>1, <1>2, <1>5, <1>6, <1>7, <1>8, <1>9 DEF Serve

\* The steps of the API.  A sweep that reads a spent job leaves it alone; a save
\* turns a sweep into a row that waits; the pop comes from a request that sweeps
\* no more, so that the last attempt leaves room for every other sweep.
LEMMA ServeBounded ==
  ASSUME HandOutInv, NEW s \in Slots, Serve(s), NEW j \in Jobs
  PROVE  Bounded(j)'
  <1> USE DEF HandOutInv
  <1>a. /\ call \in [Slots -> Calls] /\ call[s] \in Calls /\ Free.at = "free"
        /\ job \in [Jobs -> Rows] /\ \A k \in Jobs : job[k] \in Rows
    BY ElementTypes DEF TypeOK, Free
  <1>b. /\ job[j].attempts \in Nat /\ Bounded(j)
        /\ \A t \in Slots : t # s => call'[t] = call[t]
    BY <1>a, ServeSlot DEF Rows
  <1>c. \A t \in Sweepers : t # s => Requeuing(t, j)' = Requeuing(t, j)
    BY <1>b, SweepersFinite DEF Requeuing
  <1>1. CASE UNCHANGED job /\ call'[s].at # "sweep"
    <2>1. \A t \in Sweepers : Requeuing(t, j)' => Requeuing(t, j)
      BY <1>1, <1>c DEF Requeuing
    <2> QED BY <1>1, <1>b, <2>1, FewerKept
  <1>2. CASE SweepRead(s)
    <2>1. /\ call'[s].stale = StaleRows /\ call'[s].spent = SpentRows /\ UNCHANGED job
      BY <1>2, <1>a DEF SweepRead, Calls
    <2>2. CASE job[j].attempts >= MaxAttempts
      <3>1. ~Requeuing(s, j)'
        BY <2>1, <2>2 DEF Requeuing, SpentRows
      <3>2. \A t \in Sweepers : Requeuing(t, j)' => Requeuing(t, j)
        BY <1>c, <3>1
      <3> QED BY <2>1, <1>b, <3>2, FewerKept
    <2>3. CASE ~(job[j].attempts >= MaxAttempts)
      BY <2>1, <2>3 DEF Bounded
    <2> QED BY <2>2, <2>3
  <1>3. CASE SweepSave(s)
    <2>1. /\ call'[s].at = "pop" /\ call[s].at = "sweep" /\ s \in Sweepers
      BY <1>3, <1>a DEF SweepSave, Calls, WellFormed, Placed
    <2>2. job' = [k \in Jobs |-> IF k \in call[s].stale THEN Swept(k, call[s].spent) ELSE job[k]]
      BY <1>3 DEF SweepSave
    <2>3. job'[j].attempts = job[j].attempts
      BY <1>a, <2>2 DEF Swept, Rows
    <2>4. ~Requeuing(s, j)'
      BY <2>1 DEF Requeuing
    <2>5. CASE Requeuing(s, j)
      <3>1. Pending(j)' = Pending(j) \ {s} /\ s \in Pending(j)
        BY <1>c, <2>1, <2>4, <2>5 DEF Pending
      <3>2. Cardinality(Pending(j)') = Cardinality(Pending(j)) - 1
        BY <3>1, PendingFinite, FS_RemoveElement
      <3>3. Waits(j) \in Nat /\ Waits(j)' \in Nat /\ Waits(j)' <= Waits(j) + 1
        BY DEF Waits
      <3>4. Waits(j)' + Cardinality(Pending(j)') <= Waits(j) + Cardinality(Pending(j))
        BY <3>2, <3>3, PendingFinite
      <3> QED BY <1>b, <2>3, <3>4, BoundKept
    <2>6. CASE ~Requeuing(s, j)
      <3>1. job'[j].status = "Queued" => job[j].status = "Queued"
        BY <1>a, <2>1, <2>2, <2>6 DEF Swept, Rows, Requeuing
      <3>2. \A t \in Sweepers : Requeuing(t, j)' => Requeuing(t, j)
        BY <1>c, <2>4
      <3> QED BY <1>b, <2>3, <3>1, <3>2, FewerKept
    <2> QED BY <2>5, <2>6
  <1>4. CASE ClaimNext(s)
    <2>1. /\ call[s].at = "pop" /\ s \in Sweepers
      BY <1>4, <1>a DEF ClaimNext, WellFormed, Placed
    <2>2. call'[s].at # "sweep"
      <3>1. ASSUME NEW k, NEW n, call' = Answered(s, [call[s] EXCEPT !.job = k, !.turn = n])
            PROVE  call'[s].at # "sweep"
        BY <3>1, <1>a DEF Answered, Calls
      <3>2. CASE call' = Answered(s, call[s])
        BY <3>2, <1>a DEF Answered, Calls
      <3> QED BY <1>4, <3>1, <3>2 DEF ClaimNext
    <2>3. \A t \in Sweepers : Requeuing(t, j)' => Requeuing(t, j)
      BY <1>c, <2>2 DEF Requeuing
    <2>4. ASSUME NEW k \in QueuedRows, job' = [job EXCEPT ![k] = Claimed(k, s[1])]
          PROVE  Bounded(j)'
      <3>1. CASE j # k
        <4>1. job'[j] = job[j]
          BY <1>a, <2>4, <3>1
        <4> QED BY <1>b, <2>3, <4>1, FewerKept
      <3>2. CASE j = k
        <4>1. /\ job'[j].attempts = job[j].attempts + 1 /\ job'[j].status = "Claimed"
              /\ job[j].status = "Queued"
          BY <1>a, <2>4, <3>2 DEF Claimed, Rows, QueuedRows
        <4>2. Waits(j) = 1 /\ Waits(j)' = 0
          BY <4>1 DEF Waits
        <4>3. Pending(j)' \in SUBSET Pending(j) /\ s \notin Pending(j)
          BY <2>1, <2>3 DEF Pending, Requeuing
        <4>4. Cardinality(Pending(j)') <= Cardinality(Pending(j))
          BY <4>3, PendingFinite, FS_Subset
        <4>5. Cardinality(Pending(j)) < Cardinality(Sweepers)
          <5>1. Pending(j) \in SUBSET Sweepers /\ Pending(j) # Sweepers
            BY <2>1, <4>3 DEF Pending
          <5>2. Cardinality(Pending(j)) # Cardinality(Sweepers)
            BY <5>1, SweepersFinite, FS_Subset
          <5> QED BY <5>2, PendingFinite, SweepersFinite
        <4> QED
          BY <1>b, <4>1, <4>2, <4>4, <4>5, PendingFinite, SweepersFinite, BoundsAssumption DEF Bounded
      <3> QED BY <3>1, <3>2
    <2>5. CASE UNCHANGED job
      BY <1>b, <2>3, <2>5, FewerKept
    <2> QED BY <1>4, <2>4, <2>5 DEF ClaimNext
  <1>5. CASE ReportRead(s)
    <2>1. call'[s].at # "sweep"
      BY <1>5, <1>a DEF ReportRead, Answered, Calls
    <2> QED BY <1>1, <1>5, <2>1 DEF ReportRead
  <1>6. CASE ReportSave(s)
    <2>1. call'[s].at # "sweep"
      BY <1>6, <1>a DEF ReportSave, Answered, Calls
    <2>2. \A t \in Sweepers : Requeuing(t, j)' => Requeuing(t, j)
      BY <1>c, <2>1 DEF Requeuing
    <2>3. call[s].to # "Queued"
      BY <1>a DEF Calls, Active, Terminal
    <2>4. /\ job'[j].attempts = job[j].attempts
          /\ job'[j].status = "Queued" => job[j].status = "Queued"
      BY <1>6, <1>a, <2>3 DEF ReportSave, Reported, Rows
    <2> QED BY <1>b, <2>2, <2>4, FewerKept
  <1>7. CASE SubmitRead(s)
    <2>1. call'[s].at # "sweep"
      BY <1>7, <1>a DEF SubmitRead, Calls
    <2> QED BY <1>1, <1>7, <2>1 DEF SubmitRead
  <1>8. CASE SubmitSave(s)
    <2>1. call'[s].at # "sweep"
      BY <1>8, <1>a DEF SubmitSave
    <2>2. \A t \in Sweepers : Requeuing(t, j)' => Requeuing(t, j)
      BY <1>c, <2>1 DEF Requeuing
    <2>3. PICK k \in Jobs : job[k] = Absent /\ job' = [job EXCEPT ![k] = InsertedRow(call[s].sim)]
      BY <1>8 DEF SubmitSave
    <2>4. CASE j # k
      BY <1>a, <1>b, <2>2, <2>3, <2>4, FewerKept
    <2>5. CASE j = k
      <3>1. job'[j].attempts = 0
        BY <1>a, <2>3, <2>5 DEF InsertedRow, Absent
      <3> QED BY <3>1, BoundsAssumption DEF Bounded
    <2> QED BY <2>4, <2>5
  <1> QED BY <1>2, <1>3, <1>4, <1>5, <1>6, <1>7, <1>8 DEF Serve

\* A client moves a sweep to the slot of what it no longer waits for, and starts none.
LEMMA ClientPending ==
  ASSUME TypeOK, WellFormed, Next, ~ \E s \in Slots : Serve(s), NEW j \in Jobs
  PROVE  \/ \A s \in Sweepers : Requeuing(s, j)' => Requeuing(s, j)
         \/ \E w \in Watchers : Pending(j)' \in SUBSET ((Pending(j) \ {<<w, "main">>}) \cup {<<w, "late">>})
                                /\ <<w, "main">> \in Pending(j)
  <1> DEFINE Less == \A s \in Sweepers : Requeuing(s, j)' => Requeuing(s, j)
             Moved(w) == /\ Pending(j)' \in SUBSET ((Pending(j) \ {<<w, "main">>}) \cup {<<w, "late">>})
                         /\ <<w, "main">> \in Pending(j)
  <1>a. Free.at = "free" /\ call \in [Slots -> Calls]
    BY DEF Free, TypeOK
  <1>b. /\ \A w \in Watchers : /\ <<w, "main">> \in Slots /\ <<w, "late">> \in Slots /\ <<w, "beat">> \in Slots
                               /\ <<w, "main">> # <<w, "late">> /\ <<w, "main">> \in Sweepers
        /\ \A s \in Sweepers : s \in Slots
    BY ConstantTypes DEF Sweepers, Slots
  <1>1. ASSUME NEW t \in Slots, NEW c, c.at = "sent" \/ c.at = "free", call' = [call EXCEPT ![t] = c]
        PROVE  Less
    BY <1>a, <1>b, <1>1 DEF Requeuing
  <1>2. ASSUME NEW w \in Watchers, Poll(w) \/ Beat(w) \/ ReportStage(w) PROVE Less
    <2>1. \A to : Report(w, to).at = "sent"
      BY DEF Report, Free
    <2>2. [Free EXCEPT !.at = "sent"].at = "sent"
      BY DEF Free
    <2> QED BY <1>1, <1>2, <1>b, <2>1, <2>2 DEF Poll, Beat, ReportStage
  <1>3. ASSUME NEW w \in Watchers, Receive(w) \/ Lose(w) PROVE Less
    BY <1>1, <1>3, <1>a, <1>b DEF Receive, Lose
  <1>4. ASSUME NEW w \in Watchers, NEW kept \in {Free, call[<<w, "main">>], call[<<w, "late">>]},
               call' = [call EXCEPT ![<<w, "main">>] = Free, ![<<w, "late">>] = kept]
        PROVE  Less \/ Moved(w)
    <2>1. call'[<<w, "main">>] = Free /\ call'[<<w, "late">>] = kept
          /\ \A t \in Slots : t # <<w, "main">> /\ t # <<w, "late">> => call'[t] = call[t]
      BY <1>4, <1>a, <1>b
    <2>2. \A t \in Sweepers : t # <<w, "main">> /\ t # <<w, "late">> => Requeuing(t, j)' = Requeuing(t, j)
      BY <1>b, <2>1 DEF Requeuing
    <2>3. ~Requeuing(<<w, "main">>, j)'
      BY <1>a, <2>1 DEF Requeuing
    <2>4. CASE Requeuing(<<w, "late">>, j)' /\ ~Requeuing(<<w, "late">>, j)
      <3>1. Requeuing(<<w, "main">>, j)
        BY <1>4, <1>a, <2>1, <2>4 DEF Requeuing
      <3> QED BY <1>b, <2>2, <2>3, <3>1 DEF Pending
    <2>5. CASE Requeuing(<<w, "late">>, j)' => Requeuing(<<w, "late">>, j)
      BY <2>2, <2>3, <2>5
    <2> QED BY <2>4, <2>5
  <1>5. ASSUME NEW w \in Watchers, GiveUp(w) PROVE Less \/ Moved(w)
    BY <1>4, <1>5 DEF GiveUp
  <1>6. ASSUME NEW w \in Watchers, Crash(w) PROVE Less \/ Moved(w)
    <2>1. PICK kept \in {Free, call[<<w, "main">>]} :
            call' = [call EXCEPT ![<<w, "main">>] = Free,
                                 ![<<w, "late">>] = IF kept = Free THEN @ ELSE kept]
      BY <1>6 DEF Crash
    <2>2. call' = [call EXCEPT ![<<w, "main">>] = Free,
                     ![<<w, "late">>] = IF kept = Free THEN call[<<w, "late">>] ELSE kept]
      BY <1>a, <1>b, <2>1
    <2> QED BY <1>4, <2>1, <2>2
  <1>7. ASSUME NEW u \in Users, NEW sim \in Sims \cup {NoSim}, Submit(u, sim) PROVE Less
    <2>1. [Free EXCEPT !.at = "sent", !.kind = "submit", !.sim = sim].at = "sent"
      BY DEF Free
    <2> QED BY <1>1, <1>7, <2>1, ConstantTypes DEF Submit
  <1>8. CASE UNCHANGED call
    BY <1>8 DEF Requeuing
  <1> QED
    BY <1>2, <1>3, <1>5, <1>6, <1>7, <1>8
    DEF Next, Work, Fault, PioFailsToStart, Restart, AgeOut

\* Neither the clients nor time hand a job out or queue it again.
LEMMA ClientBounded ==
  ASSUME HandOutInv, Next, ~ \E s \in Slots : Serve(s), NEW j \in Jobs
  PROVE  Bounded(j)'
  <1> USE DEF HandOutInv
  <1>a. job[j] \in Rows /\ job[j].attempts \in Nat /\ Bounded(j)
    BY ElementTypes DEF Rows
  <1>1. job'[j].attempts = job[j].attempts /\ job'[j].status = job[j].status
    BY <1>a, ClientRows DEF Rows
  <1>2. CASE \A s \in Sweepers : Requeuing(s, j)' => Requeuing(s, j)
    BY <1>1, <1>2, <1>a, FewerKept
  <1>3. ASSUME NEW w \in Watchers, <<w, "main">> \in Pending(j),
               Pending(j)' \in SUBSET ((Pending(j) \ {<<w, "main">>}) \cup {<<w, "late">>})
        PROVE  Bounded(j)'
    <2> DEFINE late == <<w, "late">>
               rest == Pending(j) \ {<<w, "main">>}
    <2>1. /\ IsFiniteSet(rest) /\ Cardinality(rest) = Cardinality(Pending(j)) - 1
          /\ Pending(j)' \in SUBSET (rest \cup {late})
      BY <1>3, PendingFinite, FS_RemoveElement
    <2> HIDE DEF rest, late
    <2>2. /\ IsFiniteSet(rest \cup {late})
          /\ Cardinality(rest \cup {late}) = IF late \in rest THEN Cardinality(rest) ELSE Cardinality(rest) + 1
      BY ONLY <2>1, FS_AddElement
    <2>3. Cardinality(Pending(j)') <= Cardinality(rest \cup {late})
      BY ONLY <2>1, <2>2, FS_Subset
    <2>5. Cardinality(Pending(j)') <= Cardinality(Pending(j))
      BY <2>1, <2>2, <2>3, PendingFinite
    <2>6. Waits(j)' = Waits(j) /\ Waits(j) \in Nat
      BY <1>1 DEF Waits
    <2>7. Waits(j)' + Cardinality(Pending(j)') <= Waits(j) + Cardinality(Pending(j))
      BY <2>5, <2>6, PendingFinite
    <2> QED BY <1>1, <1>a, <2>7, BoundKept
  <1> QED BY <1>2, <1>3, ClientPending

\* Every step keeps claims out of the heartbeat's slot.
LEMMA PlacedInductive ==
  ASSUME TypeOK, WellFormed, Placed, Next
  PROVE  Placed'
  <1>a. Free.at = "free" /\ call \in [Slots -> Calls] /\ \A s \in Slots : call[s] \in Calls
    BY ElementTypes DEF Free, TypeOK
  <1>b. \A w \in Watchers : /\ <<w, "main">> \in Sweepers /\ <<w, "late">> \in Sweepers
                            /\ <<w, "main">> \in Slots /\ <<w, "late">> \in Slots /\ <<w, "beat">> \in Slots
    BY ConstantTypes DEF Sweepers
  <1>1. ASSUME NEW s \in Slots, Serve(s) PROVE Placed'
    BY <1>1, ServeSlot DEF Placed
  <1>2. ASSUME NEW w \in Watchers, NEW c, call' = [call EXCEPT ![<<w, "main">>] = c] PROVE Placed'
    BY <1>2, <1>a, <1>b DEF Placed
  <1>3. ASSUME NEW w \in Watchers, NEW b, NEW c,
               call' = [call EXCEPT ![<<w, "main">>] = b, ![<<w, "late">>] = c] PROVE Placed'
    BY <1>3, <1>a, <1>b DEF Placed
  <1>4. ASSUME NEW w \in Watchers, Beat(w) PROVE Placed'
    <2>1. Report(w, "beat").kind = "report"
      BY DEF Report, Free
    <2> QED BY <1>4, <1>a, <1>b, <2>1 DEF Beat, Placed
  <1>5. ASSUME NEW u \in Users, NEW sim \in Sims \cup {NoSim}, Submit(u, sim) PROVE Placed'
    <2>1. [Free EXCEPT !.at = "sent", !.kind = "submit", !.sim = sim].kind = "submit"
      BY DEF Free
    <2> QED BY <1>5, <1>a, <2>1, ConstantTypes DEF Submit, Placed
  <1>6. ASSUME NEW w \in Watchers, Poll(w) \/ ReportStage(w) \/ Receive(w) \/ Lose(w) PROVE Placed'
    BY <1>2, <1>6 DEF Poll, ReportStage, Receive, Lose
  <1>7. ASSUME NEW w \in Watchers, GiveUp(w) PROVE Placed'
    BY <1>3, <1>7 DEF GiveUp
  <1>8. ASSUME NEW w \in Watchers, Crash(w) PROVE Placed'
    <2>1. PICK kept \in {Free, call[<<w, "main">>]} :
            call' = [call EXCEPT ![<<w, "main">>] = Free,
                                 ![<<w, "late">>] = IF kept = Free THEN @ ELSE kept]
      BY <1>8 DEF Crash
    <2>2. call' = [call EXCEPT ![<<w, "main">>] = Free,
                     ![<<w, "late">>] = IF kept = Free THEN call[<<w, "late">>] ELSE kept]
      BY <1>a, <1>b, <2>1, ConstantTypes
    <2> QED BY <1>3, <2>2
  <1>9. CASE UNCHANGED call
    BY <1>9 DEF Placed
  <1> QED
    BY <1>1, <1>4, <1>5, <1>6, <1>7, <1>8, <1>9
    DEF Next, Work, Fault, PioFailsToStart, Restart, AgeOut

\* However sweeps overlap, a job is handed out less than MaxAttempts times plus once
\* for every claim request that can be in flight, for any number of watchers, jobs
\* and faults: the cost of the sweep's unprotected read and save is bounded.
THEOREM HandOutsAreBounded == Spec => []HandOutsBounded
  <1>1. Init => HandOutInv
    <2> SUFFICES ASSUME Init PROVE HandOutInv
      OBVIOUS
    <2>1. TypeOK /\ WellFormed
      BY InitInv DEF Inv
    <2>2. Placed
      BY DEF Init, Placed, Free
    <2>3. \A j \in Jobs : Bounded(j)
      BY BoundsAssumption DEF Init, Bounded, Absent
    <2> QED BY <2>1, <2>2, <2>3 DEF HandOutInv
  <1>2. HandOutInv /\ [Next]_vars => HandOutInv'
    <2> SUFFICES ASSUME HandOutInv, [Next]_vars PROVE HandOutInv'
      OBVIOUS
    <2>1. TypeOK' /\ WellFormed'
      BY FormInductive DEF HandOutInv
    <2>2. CASE UNCHANGED vars
      <3>1. \A j \in Jobs : Pending(j)' = Pending(j)
        BY <2>2 DEF vars, Pending, Requeuing
      <3> QED BY <2>1, <2>2, <3>1 DEF vars, HandOutInv, Placed, Bounded, Waits
    <2>3. CASE Next
      <3>1. Placed'
        BY <2>3, PlacedInductive DEF HandOutInv
      <3>2. \A j \in Jobs : Bounded(j)'
        BY <2>3, ServeBounded, ClientBounded
      <3> QED BY <2>1, <3>1, <3>2 DEF HandOutInv
    <2> QED BY <2>2, <2>3
  <1>3. HandOutInv => HandOutsBounded
    <2> SUFFICES ASSUME HandOutInv, NEW j \in Jobs
                 PROVE  job[j].attempts < MaxAttempts + Cardinality(Sweepers)
      BY DEF HandOutsBounded
    <2>1. job[j].attempts \in Nat /\ Waits(j) \in Nat /\ Bounded(j)
      BY ElementTypes DEF HandOutInv, Rows, Waits
    <2> QED BY <2>1, PendingFinite, SweepersFinite, BoundsAssumption DEF Bounded
  <1> QED BY <1>1, <1>2, <1>3, PTL DEF Spec

=============================================================================
