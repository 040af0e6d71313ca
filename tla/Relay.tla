-------------------------------- MODULE Relay --------------------------------
(***************************************************************************)
(* What forwarding from the phone to the car promises: the car receives    *)
(* whole frames, those the phone sent and in that order.  Only the last    *)
(* one may be cut off, and nothing follows it.                             *)
(***************************************************************************)
EXTENDS Naturals, Sequences

VARIABLES
    sent,       \* the frames of the phone, each with its bytes
    delivered,  \* what the car has received of each
    over        \* the relay has ended

vars == <<sent, delivered, over>>

Init == delivered = <<>> /\ over = FALSE

\* The frame whose turn it is.
Turn == sent[Len(delivered) + 1]

\* A frame is delivered, perhaps the last.
Deliver ==
    /\ ~over /\ Len(delivered) < Len(sent)
    /\ delivered' = Append(delivered, Turn)
    /\ over' \in BOOLEAN
    /\ UNCHANGED sent

\* A frame is cut off.
Cut ==
    /\ ~over /\ Len(delivered) < Len(sent)
    /\ \E k \in 1 .. Len(Turn) - 1 : delivered' = Append(delivered, SubSeq(Turn, 1, k))
    /\ over' = TRUE
    /\ UNCHANGED sent

End ==
    /\ ~over
    /\ over' = TRUE
    /\ UNCHANGED <<sent, delivered>>

Spec == Init /\ [][Deliver \/ Cut \/ End]_vars
==============================================================================
