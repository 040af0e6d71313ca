---------------------------- MODULE MCGadgetSwitch ----------------------------
(***************************************************************************)
(* GadgetSwitch for TLC.  Three handlers are two abandoned ones and the    *)
(* live one, the shortest list on which the loop both skips a handler and  *)
(* comes round to the start; two uevents are a START with one before it.   *)
(***************************************************************************)
EXTENDS GadgetSwitch
===============================================================================
