----------------------------- MODULE MCForwarding -----------------------------
(***************************************************************************)
(* Forwarding for TLC.  Two units tell a short write from a full one; one  *)
(* part is a frame whose header and body come in two reads.                *)
(***************************************************************************)
EXTENDS Forwarding
===============================================================================
