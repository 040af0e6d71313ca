------------------------------- MODULE Session -------------------------------
(***************************************************************************)
(* What the two directions of a session promise each other: they write to  *)
(* their ends until one of them stops; from then on each writes at most    *)
(* once more, and the session is over, its descriptors given back, when    *)
(* neither will.  Stopping may kill the process; then nothing is written   *)
(* either, until the next session.                                         *)
(***************************************************************************)
CONSTANT Direction

VARIABLES
    phase,      \* "open", "stopping", "over" or "dead"
    writes      \* writes[d]: direction d may still write

vars == <<phase, writes>>

Init == phase = "open" /\ writes = [d \in Direction |-> TRUE]

\* One direction stops; whoever is on its way to a write still makes it.
Stop ==
    /\ phase = "open"
    /\ phase' = "stopping"
    /\ writes' \in [Direction -> BOOLEAN]

LastWrite(d) ==
    /\ phase = "stopping" /\ writes[d]
    /\ writes' = [writes EXCEPT ![d] = FALSE]
    /\ UNCHANGED phase

End ==
    /\ phase = "stopping" /\ \A d \in Direction : ~writes[d]
    /\ phase' = "over"
    /\ UNCHANGED writes

Die ==
    /\ phase = "stopping"
    /\ phase' = "dead"
    /\ UNCHANGED writes

Open ==
    /\ phase \in {"over", "dead"}
    /\ phase' = "open"
    /\ writes' = [d \in Direction |-> TRUE]

Next == Stop \/ (\E d \in Direction : LastWrite(d)) \/ End \/ Die \/ Open

Spec == Init /\ [][Next]_vars
==============================================================================
