---------------------------- MODULE MCSplitPort ----------------------------
(* Instances of SplitPort for model checking. *)
EXTENDS SplitPort
=============================================================================
