----------------------------- MODULE MCSpscRing ----------------------------
(* An instance of SpscRing for model checking. *)
EXTENDS SpscRing
=============================================================================
