------------------------------ MODULE SpscRing ------------------------------
(***************************************************************************)
(* ringbuffer.h of opera-v4 and v5-mpsc: the ring of pointers from a       *)
(* receive thread to a transmit thread.  The threads share no atomic       *)
(* operation, only the order of their loads and stores: each access to a   *)
(* field the other thread uses is an action of its own.  The ring is made  *)
(* for one producer, as opera-v4 uses it; v5-mpsc gives one ring to all    *)
(* receive threads of the virtual interfaces.                              *)
(*                                                                         *)
(* Both threads look before they call: the producer enqueues only if       *)
(* ringbuf_is_full said no, the consumer dequeues only if ringbuf_is_empty *)
(* said no, and neither looks at what the call then returns.  A packet     *)
(* that finds the ring full is not queued, which changes nothing here.     *)
(***************************************************************************)
EXTENDS Naturals, Integers, Sequences

CONSTANTS
  Producers,  \* threads that enqueue
  Values,     \* descriptors (pointers to struct burst_tx)
  Size,       \* prod.size = cons.size; it holds Size - 1 descriptors
  UInt32,     \* number of values of the uint32_t positions
  NoValue     \* content of a cell never written

\* What the operators below are meant for; MCSharedAccess assumes it of its instance.
RingParameters ==
  /\ Size \in Nat /\ Size >= 2 /\ UInt32 \in Nat
  /\ UInt32 % Size = 0 /\ UInt32 > Size
  /\ NoValue \notin Values

VARIABLES
  prodHead, prodTail,  \* r->prod
  consHead, consTail,  \* r->cons
  ring,                \* r->ring
  prodPc, consPc,      \* where each producer and the consumer are
  prodAt,              \* each producer's local prod_head
  obj,                 \* each producer's pointer to queue
  objP                 \* consumer: what its last dequeue stored

vars == <<prodHead, prodTail, consHead, consTail, ring, prodPc, consPc, prodAt, obj, objP>>

Mask(p) == p % Size

(* Faulty: the positions are not reduced to 32 bits. *)
PlusUnbounded(a, n) == a + n

Plus(a, n) == (a + n) % UInt32

Init ==
  /\ prodHead = 0 /\ prodTail = 0
  /\ consHead = 0 /\ consTail = 0
  /\ ring = [i \in 0..(Size - 1) |-> NoValue]
  /\ prodPc = [p \in Producers |-> "idle"] /\ consPc = "idle"
  /\ prodAt = [p \in Producers |-> 0]
  /\ obj = [p \in Producers |-> NoValue] /\ objP = NoValue

-----------------------------------------------------------------------------
(* Faulty: uses the cell that tells a full ring from an empty one. *)
IsFullLastCell == Mask(consTail - prodTail) = 0 /\ prodTail # consTail

IsFull == Mask(consTail - prodTail - 1) = 0

\* Room for a producer whose prod_head is h
FreeEntries(h) == (Size - 1 + consTail - h) % UInt32

Goto(p, from, to) == prodPc[p] = from /\ prodPc' = [prodPc EXCEPT ![p] = to]

CheckRoom(p, v) ==
  /\ ~IsFull
  /\ Goto(p, "idle", "enqueue")
  /\ obj' = [obj EXCEPT ![p] = v]
  /\ UNCHANGED <<prodHead, prodTail, consHead, consTail, ring, consPc, prodAt, objP>>

\* ringbuffer_sp_do_enqueue: loads both positions; without room it returns -ENOBUFS
Enqueue(p) ==
  /\ Goto(p, "enqueue", IF FreeEntries(prodHead) < 1 THEN "idle" ELSE "claim")
  /\ prodAt' = [prodAt EXCEPT ![p] = prodHead]
  /\ UNCHANGED <<prodHead, prodTail, consHead, consTail, ring, consPc, obj, objP>>

(* Faulty: shows the new tail before the pointer is in the ring. *)
EnqueueClaimPublishes(p) ==
  /\ Goto(p, "claim", "write")
  /\ prodHead' = Plus(prodAt[p], 1)
  /\ prodTail' = Plus(prodAt[p], 1)
  /\ UNCHANGED <<consHead, consTail, ring, consPc, prodAt, obj, objP>>

EnqueueClaim(p) ==
  /\ Goto(p, "claim", "write")
  /\ prodHead' = Plus(prodAt[p], 1)
  /\ UNCHANGED <<prodTail, consHead, consTail, ring, consPc, prodAt, obj, objP>>

EnqueueWrite(p) ==
  /\ Goto(p, "write", "publish")
  /\ ring' = [ring EXCEPT ![Mask(prodAt[p])] = obj[p]]
  /\ UNCHANGED <<prodHead, prodTail, consHead, consTail, consPc, prodAt, obj, objP>>

EnqueuePublish(p) ==
  /\ Goto(p, "publish", "idle")
  /\ prodTail' = Plus(prodAt[p], 1)
  /\ UNCHANGED <<prodHead, consHead, consTail, ring, consPc, prodAt, obj, objP>>

-----------------------------------------------------------------------------
Entries == (prodTail - consHead) % UInt32

CheckEntry ==
  /\ consPc = "idle" /\ consTail # prodTail
  /\ consPc' = "dequeue"
  /\ UNCHANGED <<prodHead, prodTail, consHead, consTail, ring, prodPc, prodAt, obj, objP>>

\* ringbuffer_sc_do_dequeue up to the new head; without an entry it returns -ENOENT
Dequeue ==
  /\ consPc = "dequeue"
  /\ IF Entries < 1
     THEN consPc' = "idle" /\ UNCHANGED consHead
     ELSE consPc' = "read" /\ consHead' = Plus(consHead, 1)
  /\ UNCHANGED <<prodHead, prodTail, consTail, ring, prodPc, prodAt, obj, objP>>

DequeueRead ==
  /\ consPc = "read"
  /\ consPc' = "release"
  /\ objP' = ring[Mask(consHead - 1)]
  /\ UNCHANGED <<prodHead, prodTail, consHead, consTail, ring, prodPc, prodAt, obj>>

DequeueRelease ==
  /\ consPc = "release"
  /\ consPc' = "idle"
  /\ consTail' = consHead
  /\ UNCHANGED <<prodHead, prodTail, consHead, ring, prodPc, prodAt, obj, objP>>

Next ==
  \/ \E p \in Producers :
       \/ \E v \in Values : CheckRoom(p, v)
       \/ Enqueue(p) \/ EnqueueClaim(p) \/ EnqueueWrite(p) \/ EnqueuePublish(p)
  \/ CheckEntry \/ Dequeue \/ DequeueRead \/ DequeueRelease

Spec == Init /\ [][Next]_vars

-----------------------------------------------------------------------------
Positions == 0..(UInt32 - 1)

(* The positions stay uint32_t, and the threads inside the code. *)
TypeOK ==
  /\ prodHead \in Positions /\ prodTail \in Positions
  /\ consHead \in Positions /\ consTail \in Positions
  /\ ring \in [0..(Size - 1) -> Values \cup {NoValue}]
  /\ prodPc \in [Producers -> {"idle", "enqueue", "claim", "write", "publish"}]
  /\ prodAt \in [Producers -> Positions]
  /\ obj \in [Producers -> Values \cup {NoValue}]
  /\ consPc \in {"idle", "dequeue", "read", "release"}
  /\ objP \in Values \cup {NoValue}

(* The answer of ringbuf_is_full and ringbuf_is_empty is still good when the  *)
(* call is made, whatever the other thread did in between: the threads       *)
(* ignore a refusal, so a refused packet would be lost with its descriptor    *)
(* and a refused dequeue would leave an uninitialised pointer to be used.    *)
RingChecksHold ==
  /\ \A p \in Producers : prodPc[p] = "enqueue" => FreeEntries(prodHead) >= 1
  /\ consPc = "dequeue" => Entries >= 1

Queued == [i \in 1..Entries |-> ring[Mask(consHead + i - 1)]]

Fifo == INSTANCE BoundedFifo
          WITH Consumers <- {"consumer"}, Capacity <- Size - 1, items <- Queued,
               got <- [c \in {"consumer"} |->
                         IF consPc = "read" THEN ring[Mask(consHead - 1)] ELSE objP]

(* With one producer and one consumer the ring is a bounded FIFO of Size - 1 *)
(* descriptors: one becomes visible when prod.tail is stored, and its cell   *)
(* is not written again before the consumer has read it.                     *)
RingImplementsFifo == Fifo!Spec

(* ringbuffer.h says of the enqueue "0: Success; objects enqueue": when it   *)
(* returns, its pointer is in the ring at the position the call took.        *)
SuccessMeansQueued ==
  [][\A p \in Producers :
       prodPc[p] = "publish" /\ prodPc'[p] = "idle" => ring[Mask(prodAt[p])] = obj[p]]_vars
=============================================================================
