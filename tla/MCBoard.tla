------------------------------- MODULE MCBoard -------------------------------
(***************************************************************************)
(* Board for TLC, with one click for a reset and two for debug mode (the   *)
(* code has 3 and 5): with three clicks both can be asked for, in either   *)
(* order, or three resets; the evaluation of too few clicks is the one     *)
(* that finds none left.  Two timer threads are two jobs at once, or a job *)
(* and a timer that waits; the reader waits for a free one.                *)
(***************************************************************************)
EXTENDS Board
===============================================================================
