---------------------------- MODULE MCAsyncLogger ----------------------------
(* The logger after no earlier process of the day, or after one that left  *)
(* two files, both too long.                                               *)
EXTENDS AsyncLogger

MCEarlier ==
  {[c \in Channel |-> [n \in 0 .. MaxLogs |-> IF c = "app" /\ n < left THEN 1 ELSE 0]] :
     left \in {0, 2}}
=============================================================================
