---------------------------- MODULE BoundedFifo ----------------------------
(***************************************************************************)
(* What a packet queue between two worker threads promises: a FIFO of at   *)
(* most Capacity descriptors.  An accepted descriptor is handed to exactly *)
(* one consumer, in the order of acceptance.  A refused push and a pull    *)
(* that finds nothing change nothing.  MpmcQueue, SpscRing and MpscQueue   *)
(* implement this module.                                                  *)
(***************************************************************************)
EXTENDS Naturals, Sequences

CONSTANTS
  Values,     \* descriptors that may be queued (pointers to struct burst_tx)
  Consumers,  \* threads that take descriptors out
  Capacity,   \* most descriptors held at a time
  NoValue     \* what a consumer holds before its first successful pull

VARIABLES
  items,      \* accepted and not yet taken, oldest first
  got         \* the descriptor each consumer took last

vars == <<items, got>>

Init ==
  /\ items = << >>
  /\ got = [c \in Consumers |-> NoValue]

Enqueue(v) ==
  /\ Len(items) < Capacity
  /\ items' = Append(items, v)
  /\ UNCHANGED got

Dequeue(c) ==
  /\ items # << >>
  /\ got' = [got EXCEPT ![c] = Head(items)]
  /\ items' = Tail(items)

Next ==
  \/ \E v \in Values : Enqueue(v)
  \/ \E c \in Consumers : Dequeue(c)

Spec == Init /\ [][Next]_vars
=============================================================================
