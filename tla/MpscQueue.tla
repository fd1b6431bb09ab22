----------------------------- MODULE MpscQueue -----------------------------
(***************************************************************************)
(* v5-mpsc/mpsc.c: a queue of pointers with many producers and one         *)
(* consumer.  A producer first reserves room in count, then claims a cell  *)
(* by advancing head, then stores its pointer; the consumer takes the      *)
(* pointer out of the cell at tail, moves on, and only then gives the room *)
(* back.  Each atomic access is an action of its own.                      *)
(*                                                                         *)
(* head is used only modulo max and is kept so; that size_t itself wraps   *)
(* after 2^64 calls is left out.                                           *)
(***************************************************************************)
EXTENDS Naturals, Integers, Sequences, FiniteSets

CONSTANTS
  Producers,  \* threads that enqueue
  Values,     \* pointers they may enqueue
  Max,        \* q->max, the capacity
  Null        \* an empty cell

\* What mpsc.c requires of max; MCSharedAccess assumes it of its instance.
MpscParameters == Max \in Nat /\ Max >= 2 /\ Null \notin Values

VARIABLES
  count,      \* q->count: room reserved
  head,       \* q->head modulo max: next cell to claim
  tail,       \* q->tail: next cell to take from
  buffer,     \* q->buffer
  prodPc,     \* where each producer is
  claimed,    \* each producer's local head
  obj,        \* each producer's argument
  consPc,     \* where the consumer is
  ret         \* what the consumer's last successful call returned

vars == <<count, head, tail, buffer, prodPc, claimed, obj, consPc, ret>>

Cells == 0..(Max - 1)

Init ==
  /\ count = 0 /\ head = 0 /\ tail = 0
  /\ buffer = [i \in Cells |-> Null]
  /\ prodPc = [p \in Producers |-> "idle"]
  /\ claimed = [p \in Producers |-> 0]
  /\ obj = [p \in Producers |-> Null]
  /\ consPc = "idle" /\ ret = Null

-----------------------------------------------------------------------------
Goto(p, from, to) == prodPc[p] = from /\ prodPc' = [prodPc EXCEPT ![p] = to]

(* Faulty: lets one producer too many in. *)
ReserveOneTooMany(p, v) ==
  /\ Goto(p, "idle", IF count > Max THEN "backOff" ELSE "claim")
  /\ count' = count + 1
  /\ obj' = [obj EXCEPT ![p] = v]
  /\ UNCHANGED <<head, tail, buffer, claimed, consPc, ret>>

Reserve(p, v) ==
  /\ Goto(p, "idle", IF count >= Max THEN "backOff" ELSE "claim")
  /\ count' = count + 1
  /\ obj' = [obj EXCEPT ![p] = v]
  /\ UNCHANGED <<head, tail, buffer, claimed, consPc, ret>>

\* the queue is full: return false
BackOff(p) ==
  /\ Goto(p, "backOff", "idle")
  /\ count' = count - 1
  /\ UNCHANGED <<head, tail, buffer, claimed, obj, consPc, ret>>

Claim(p) ==
  /\ Goto(p, "claim", "assertEmpty")
  /\ claimed' = [claimed EXCEPT ![p] = head]
  /\ head' = (head + 1) % Max
  /\ UNCHANGED <<count, tail, buffer, obj, consPc, ret>>

\* assert(q->buffer[head % q->max] == 0): a failed assertion ends the program
AssertEmpty(p) ==
  /\ buffer[claimed[p]] = Null
  /\ Goto(p, "assertEmpty", "store")
  /\ UNCHANGED <<count, head, tail, buffer, claimed, obj, consPc, ret>>

\* the exchange; the pointer it returns is asserted to be NULL
Store(p) ==
  /\ Goto(p, "store", "idle")
  /\ buffer' = [buffer EXCEPT ![claimed[p]] = obj[p]]
  /\ UNCHANGED <<count, head, tail, claimed, obj, consPc, ret>>

-----------------------------------------------------------------------------
(* Faulty: reads the cell and leaves the pointer in it. *)
TakeLeavesPointer ==
  /\ consPc = "idle" /\ buffer[tail] # Null
  /\ consPc' = "advance"
  /\ ret' = buffer[tail]
  /\ UNCHANGED <<count, head, tail, buffer, prodPc, claimed, obj>>

\* the exchange with NULL; a cell that is empty, or claimed and not yet
\* stored to, makes the call return NULL and changes nothing
Take ==
  /\ consPc = "idle" /\ buffer[tail] # Null
  /\ consPc' = "advance"
  /\ ret' = buffer[tail]
  /\ buffer' = [buffer EXCEPT ![tail] = Null]
  /\ UNCHANGED <<count, head, tail, prodPc, claimed, obj>>

Advance ==
  /\ consPc = "advance"
  /\ consPc' = "giveBack"
  /\ tail' = IF tail + 1 >= Max THEN 0 ELSE tail + 1
  /\ UNCHANGED <<count, head, buffer, prodPc, claimed, obj, ret>>

\* the count before the subtraction is asserted to be positive
GiveBack ==
  /\ consPc = "giveBack"
  /\ consPc' = "idle"
  /\ count' = count - 1
  /\ UNCHANGED <<head, tail, buffer, prodPc, claimed, obj, ret>>

Next ==
  \/ \E p \in Producers :
       \/ \E v \in Values : Reserve(p, v)
       \/ BackOff(p) \/ Claim(p) \/ AssertEmpty(p) \/ Store(p)
  \/ Take \/ Advance \/ GiveBack

Spec == Init /\ [][Next]_vars

-----------------------------------------------------------------------------
Pending == {p \in Producers : prodPc[p] \in {"assertEmpty", "store"}}

(* The asserts of mpsc.c (l. 47, 49 and 68) never fail: from its claim to    *)
(* its store a producer's cell is empty, and room that is given back was     *)
(* reserved.                                                                 *)
AssertsHold ==
  /\ \A p \in Pending : buffer[claimed[p]] = Null
  /\ consPc = "giveBack" => count > 0

\* The queue holds the stored and the claimed cells, from the first one the
\* consumer has not taken.
First == IF consPc = "advance" THEN (tail + 1) % Max ELSE tail
Length == Cardinality({i \in Cells : buffer[i] # Null}) + Cardinality(Pending)

ValueAt(i) ==
  LET late == {p \in Pending : claimed[p] = i}
  IN  IF late # {} THEN obj[CHOOSE p \in late : TRUE] ELSE buffer[i]

Fifo == INSTANCE BoundedFifo
          WITH Consumers <- {"consumer"}, Capacity <- Max, NoValue <- Null,
               items <- [i \in 1..Length |-> ValueAt((First + i - 1) % Max)],
               got <- [c \in {"consumer"} |-> ret]

(* The queue is a bounded FIFO of max pointers: an enqueue takes effect when *)
(* it advances head, a dequeue when it empties the cell, and although the    *)
(* room is given back after that no claim meets a cell still in use.         *)
ImplementsFifo == Fifo!Spec
=============================================================================
