---------------------------- MODULE JobLifecycle ----------------------------
(* What the SolveJobs queue promises, with no request, handler or process in   *)
(* sight: a job is handed out oldest first, walks its stages under one owner,  *)
(* and is taken back only from an owner that fell silent, to be handed out     *)
(* again while attempts remain.  Every operation is atomic.                    *)
EXTENDS Integers

CONSTANTS Jobs, Watchers, Nobody, MaxAttempts

VARIABLES status, owner, attempts, heard  \* heard: the owner is within its timeout

lvars == <<status, owner, attempts, heard>>

Stages == <<"Claimed", "Solving", "Extracting", "Uploading", "Done">>
Owned == {Stages[i] : i \in 1..4}
Following(current, next) == \E i \in 1..4 : Stages[i] = current /\ Stages[i + 1] = next

Init == /\ status = [j \in Jobs |-> "absent"]
        /\ owner = [j \in Jobs |-> Nobody]
        /\ attempts = [j \in Jobs |-> 0]
        /\ heard = [j \in Jobs |-> FALSE]

Insert(j) == /\ status[j] = "absent"
             /\ status' = [status EXCEPT ![j] = "Queued"]
             /\ UNCHANGED <<owner, attempts, heard>>

HandOut(j, w) == /\ status[j] = "Queued"
                 /\ \A k \in Jobs : status[k] = "Queued" => j <= k
                 /\ attempts[j] < MaxAttempts
                 /\ status' = [status EXCEPT ![j] = "Claimed"]
                 /\ owner' = [owner EXCEPT ![j] = w]
                 /\ attempts' = [attempts EXCEPT ![j] = @ + 1]
                 /\ heard' = [heard EXCEPT ![j] = TRUE]

\* The owner is heard of: a keepalive, its next stage, or its failure.
Hear(j) == /\ status[j] \in Owned
           /\ heard' = [heard EXCEPT ![j] = TRUE]
           /\ \/ UNCHANGED status
              \/ \E next \in {"Failed"} \cup Owned \cup {"Done"} :
                   /\ next = "Failed" \/ Following(status[j], next)
                   /\ status' = [status EXCEPT ![j] = next]
           /\ UNCHANGED <<owner, attempts>>

FallSilent(j) == /\ status[j] \in Owned /\ heard[j]
                 /\ heard' = [heard EXCEPT ![j] = FALSE]
                 /\ UNCHANGED <<status, owner, attempts>>

\* Silent claims are taken back, several at once.
TakeBack == \E S \in SUBSET {j \in Jobs : status[j] \in Owned /\ ~heard[j]} :
  /\ S # {}
  /\ owner' = [j \in Jobs |-> IF j \in S THEN Nobody ELSE owner[j]]
  /\ status' = [j \in Jobs |-> IF j \notin S THEN status[j]
                               ELSE IF attempts[j] < MaxAttempts THEN "Queued" ELSE "Failed"]
  /\ UNCHANGED <<attempts, heard>>

Next == \/ \E j \in Jobs : Insert(j) \/ Hear(j) \/ FallSilent(j)
        \/ \E j \in Jobs, w \in Watchers : HandOut(j, w)
        \/ TakeBack

Spec == Init /\ [][Next]_lvars
=============================================================================
