--------------------------- MODULE MCCompareQueue ---------------------------
(* CompareQueue for TLC.                                                       *)
EXTENDS CompareQueue
=============================================================================
