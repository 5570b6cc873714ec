---------------------------- MODULE MCStoredFiles ----------------------------
(* StoredFiles for TLC: three boards, of which the disk has room for two of    *)
(* the small one or one of the others.  Streets are interchangeable, so that   *)
(* the first request is for any one of them.                                   *)
EXTENDS StoredFiles

MCBoardBytes == [b \in Boards |-> IF b = Max(Boards) THEN 1 ELSE 2]

MCStoredInit ==
  /\ StoredInit
  /\ LET i == CHOOSE r \in Requests : TRUE IN request[i].street = CHOOSE s \in Streets : TRUE

MCStoredSpec == MCStoredInit /\ [][StoredNext]_storedVars /\ StoredFairness
=============================================================================
