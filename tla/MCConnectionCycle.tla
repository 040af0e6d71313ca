--------------------------- MODULE MCConnectionCycle ---------------------------
(***************************************************************************)
(* ConnectionCycle for TLC.  Five descriptors let several sessions leak    *)
(* one or two before accept or open finds none left; PassiveCycles is the  *)
(* number in the source.                                                   *)
(***************************************************************************)
EXTENDS ConnectionCycle
===============================================================================
