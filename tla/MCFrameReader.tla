----------------------------- MODULE MCFrameReader -----------------------------
(***************************************************************************)
(* FrameReader for TLC.  Lengths of one and of two digits in base 16, and  *)
(* around a buffer of 24 bytes: 20 fits exactly, 21 does not, and as first *)
(* frames 16 fits and 20 does not.  Flags: 1 first, 9 first and another    *)
(* bit, 3 first and last at once.                                          *)
(***************************************************************************)
EXTENDS FrameReader

MCFlags == {1, 3, 9}
MCSizes == {0, 1, 16, 20, 21}
===============================================================================
