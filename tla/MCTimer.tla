------------------------------- MODULE MCTimer -------------------------------
(***************************************************************************)
(* Instances of Timer for TLC: two one-shot events, the later of which may *)
(* be added first, and a repeated one.                                     *)
(***************************************************************************)
EXTENDS Timer

CONSTANTS short, long, again

MCInterval == [e \in TimerEvent |-> CASE e = short -> 1 [] e = long -> 3 [] e = again -> 2]
=============================================================================
