------------------------------ MODULE FifoLane ------------------------------
(***************************************************************************)
(* What a reliable lane promises: packets come out in the order they went  *)
(* in, each once.  The packets of a lane are named by their place in the   *)
(* order of submission, from 0.  Connection implements it twice, once in   *)
(* each direction.                                                         *)
(***************************************************************************)
EXTENDS Naturals, Sequences

VARIABLES
    submitted,   \* how many packets the sender has queued so far
    delivered    \* the packets the receiver has processed, in order

vars == <<submitted, delivered>>

Init == submitted = 0 /\ delivered = << >>

Submit  == submitted' = submitted + 1 /\ UNCHANGED delivered
Deliver ==
    /\ Len(delivered) < submitted
    /\ delivered' = Append(delivered, Len(delivered))
    /\ UNCHANGED submitted

Spec == Init /\ [][Submit \/ Deliver]_vars
=============================================================================
