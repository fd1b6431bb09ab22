---------------------------- MODULE MCBufferPool ---------------------------
(* Instances of BufferPool for model checking. *)
EXTENDS BufferPool
=============================================================================
