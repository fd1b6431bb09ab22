----------------------------- MODULE MCSlabRace ----------------------------
(* An instance of SlabRace for model checking: the two threads of a port. *)
EXTENDS SlabRace

CONSTANTS rx, tx

\* v8-delay: both threads on one half, buffers taken by the receive thread
SharedHalf == [t \in {rx, tx} |-> 0]
=============================================================================
