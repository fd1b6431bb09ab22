----------------------------- MODULE MpmcQueue -----------------------------
(***************************************************************************)
(* mpmc_queue.c: the lock-free bounded queue that carries packet           *)
(* descriptors between the worker threads.  Every atomic load, store and   *)
(* compare-and-swap of a push, a pull and a poll of the queue's usage is   *)
(* an action of its own, so the steps of any number of producers and       *)
(* consumers interleave.  Atomics are sequentially consistent; a weak      *)
(* compare-and-swap may fail although the value is the expected one.       *)
(*                                                                         *)
(* Positions are size_t counters: arithmetic is modulo SizeT.  A behaviour *)
(* starts at an empty queue that has already passed Start descriptors      *)
(* (Start = 0 is the state mpmc_queue_init leaves), so that a short run    *)
(* can cross the point where the counters wrap.                            *)
(***************************************************************************)
EXTENDS Integers, Sequences, FiniteSets

CONSTANTS
  Producers,  \* threads that push
  Consumers,  \* threads that pull
  Size,       \* number of cells, buffer_mask + 1
  SizeT,      \* number of values of a size_t
  Start,      \* position both counters have reached at the beginning
  MaxPush,    \* bound: pushes each producer attempts
  NoValue     \* content of a cell never written

ASSUME QueueAssumption ==
  /\ Producers \cap Consumers = {} /\ IsFiniteSet(Producers)
  /\ Size \in Nat /\ Size >= 2
  /\ SizeT \in Nat /\ SizeT % Size = 0
  /\ Start \in 0..(SizeT - 1)
  /\ MaxPush \in Nat
  /\ Cardinality(Producers) * MaxPush + 2 * Size < SizeT \div 2

VARIABLES
  tail,       \* q->tail: next position to push at
  head,       \* q->head: next position to pull from
  sequence,   \* cell->sequence
  data,       \* cell->data
  pc,         \* where each thread is
  pos,        \* each thread's local pos
  arg,        \* producer: the pointer it pushes
  taken,      \* consumer: *ptr of its last successful pull
  pushes      \* number of push calls a producer has made

vars == <<tail, head, sequence, data, pc, pos, arg, taken, pushes>>

Threads == Producers \cup Consumers
Cells == 0..(Size - 1)
Positions == 0..(SizeT - 1)
Values == Producers \X (1..MaxPush)

(* Faulty: the counters are not reduced to the width of a size_t. *)
PlusUnbounded(a, n) == a + n

\* size_t arithmetic, and the signed difference (intptr_t) a - (intptr_t) b
Plus(a, n) == (a + n) % SizeT
Minus(a, b) == (a - b) % SizeT
Diff(a, b) == IF Minus(a, b) < SizeT \div 2 THEN Minus(a, b) ELSE Minus(a, b) - SizeT

Cell(p) == p % Size

-----------------------------------------------------------------------------
Init ==
  /\ tail = Start
  /\ head = Start
  /\ sequence = [i \in Cells |-> Plus(Start, (i - Start) % Size)]
  /\ data = [i \in Cells |-> NoValue]
  /\ pc = [t \in Threads |-> "idle"]
  /\ pos = [t \in Threads |-> Start]
  /\ arg = [p \in Producers |-> NoValue]
  /\ taken = [c \in Consumers |-> NoValue]
  /\ pushes = [p \in Producers |-> 0]

Goto(t, from, to) == pc[t] = from /\ pc' = [pc EXCEPT ![t] = to]

\* mpmc_queue_push: pos = load(q->tail)
PushStart(p) ==
  /\ pushes[p] < MaxPush
  /\ Goto(p, "idle", "pushSeq")
  /\ pushes' = [pushes EXCEPT ![p] = @ + 1]
  /\ arg' = [arg EXCEPT ![p] = <<p, pushes[p] + 1>>]
  /\ pos' = [pos EXCEPT ![p] = tail]
  /\ UNCHANGED <<tail, head, sequence, data, taken>>

PushDiff(p) == Diff(sequence[Cell(pos[p])], pos[p])

(* Faulty: takes a cell of the previous lap for a free one. *)
PushFreeWhenFull(p) ==
  /\ PushDiff(p) <= 0
  /\ Goto(p, "pushSeq", "pushCas")
  /\ UNCHANGED <<tail, head, sequence, data, pos, arg, taken, pushes>>

\* The cell is free for this position: go and claim the position.
PushFree(p) ==
  /\ PushDiff(p) = 0
  /\ Goto(p, "pushSeq", "pushCas")
  /\ UNCHANGED <<tail, head, sequence, data, pos, arg, taken, pushes>>

(* Faulty: gives up when another producer was merely faster. *)
PushFullWhenBehind(p) ==
  /\ PushDiff(p) # 0
  /\ Goto(p, "pushSeq", "idle")
  /\ UNCHANGED <<tail, head, sequence, data, pos, arg, taken, pushes>>

\* The cell still belongs to the previous lap: return 0.
PushFull(p) ==
  /\ PushDiff(p) < 0
  /\ Goto(p, "pushSeq", "idle")
  /\ UNCHANGED <<tail, head, sequence, data, pos, arg, taken, pushes>>

\* Another producer was faster: pos = load(q->tail), in a step of its own.
PushBehind(p) ==
  /\ PushDiff(p) > 0
  /\ Goto(p, "pushSeq", "pushReload")
  /\ UNCHANGED <<tail, head, sequence, data, pos, arg, taken, pushes>>

(* Faulty: retries with the position it already has. *)
PushReloadForgotten(p) ==
  /\ Goto(p, "pushReload", "pushSeq")
  /\ UNCHANGED <<tail, head, sequence, data, pos, arg, taken, pushes>>

PushReload(p) ==
  /\ Goto(p, "pushReload", "pushSeq")
  /\ pos' = [pos EXCEPT ![p] = tail]
  /\ UNCHANGED <<tail, head, sequence, data, arg, taken, pushes>>

(* Faulty: stores the new tail instead of comparing and swapping it. *)
PushClaimPlainStore(p) ==
  /\ Goto(p, "pushCas", "pushWrite")
  /\ tail' = Plus(pos[p], 1)
  /\ UNCHANGED <<head, sequence, data, pos, arg, taken, pushes>>

PushClaim(p) ==
  /\ tail = pos[p]
  /\ Goto(p, "pushCas", "pushWrite")
  /\ tail' = Plus(tail, 1)
  /\ UNCHANGED <<head, sequence, data, pos, arg, taken, pushes>>

\* A failed compare-and-swap stores the current tail in pos.
PushClaimFailed(p) ==
  /\ Goto(p, "pushCas", "pushSeq")
  /\ pos' = [pos EXCEPT ![p] = tail]
  /\ UNCHANGED <<tail, head, sequence, data, arg, taken, pushes>>

PushWrite(p) ==
  /\ Goto(p, "pushWrite", "pushPublish")
  /\ data' = [data EXCEPT ![Cell(pos[p])] = arg[p]]
  /\ UNCHANGED <<tail, head, sequence, pos, arg, taken, pushes>>

(* Faulty: stores pos instead of pos + 1. *)
PushPublishOffByOne(p) ==
  /\ Goto(p, "pushPublish", "idle")
  /\ sequence' = [sequence EXCEPT ![Cell(pos[p])] = pos[p]]
  /\ UNCHANGED <<tail, head, data, pos, arg, taken, pushes>>

PushPublish(p) ==
  /\ Goto(p, "pushPublish", "idle")
  /\ sequence' = [sequence EXCEPT ![Cell(pos[p])] = Plus(pos[p], 1)]
  /\ UNCHANGED <<tail, head, data, pos, arg, taken, pushes>>

-----------------------------------------------------------------------------
(***************************************************************************)
(* A consumer either pulls at once or, as the transmit threads do, polls   *)
(* mpmc_queue_available first and pulls only if the estimate is not zero.  *)
(* C does not fix the order of the two loads of the estimate.              *)
(***************************************************************************)
AvailableFirst(c) ==
  /\ \/ Goto(c, "idle", "availHead") /\ pos' = [pos EXCEPT ![c] = tail]
     \/ Goto(c, "idle", "availTail") /\ pos' = [pos EXCEPT ![c] = head]
  /\ UNCHANGED <<tail, head, sequence, data, arg, taken, pushes>>

Estimate(c) ==
  IF pc[c] = "availHead" THEN Minus(pos[c], head) ELSE Minus(tail, pos[c])

AvailableSecond(c) ==
  /\ pc[c] \in {"availHead", "availTail"}
  /\ pc' = [pc EXCEPT ![c] = IF Estimate(c) = 0 THEN "idle" ELSE "pullStart"]
  /\ UNCHANGED <<tail, head, sequence, data, pos, arg, taken, pushes>>

\* mpmc_queue_pull: pos = load(q->head)
PullStart(c) ==
  /\ pc[c] \in {"idle", "pullStart"}
  /\ pc' = [pc EXCEPT ![c] = "pullSeq"]
  /\ pos' = [pos EXCEPT ![c] = head]
  /\ UNCHANGED <<tail, head, sequence, data, arg, taken, pushes>>

PullDiff(c) == Diff(sequence[Cell(pos[c])], Plus(pos[c], 1))

PullReady(c) ==
  /\ PullDiff(c) = 0
  /\ Goto(c, "pullSeq", "pullCas")
  /\ UNCHANGED <<tail, head, sequence, data, pos, arg, taken, pushes>>

(* Faulty: reports an empty queue when another consumer was faster. *)
PullEmptyWhenBehind(c) ==
  /\ PullDiff(c) # 0
  /\ Goto(c, "pullSeq", "idle")
  /\ UNCHANGED <<tail, head, sequence, data, pos, arg, taken, pushes>>

PullEmpty(c) ==
  /\ PullDiff(c) < 0
  /\ Goto(c, "pullSeq", "idle")
  /\ UNCHANGED <<tail, head, sequence, data, pos, arg, taken, pushes>>

PullBehind(c) ==
  /\ PullDiff(c) > 0
  /\ Goto(c, "pullSeq", "pullReload")
  /\ UNCHANGED <<tail, head, sequence, data, pos, arg, taken, pushes>>

PullReload(c) ==
  /\ Goto(c, "pullReload", "pullSeq")
  /\ pos' = [pos EXCEPT ![c] = head]
  /\ UNCHANGED <<tail, head, sequence, data, arg, taken, pushes>>

PullClaim(c) ==
  /\ head = pos[c]
  /\ Goto(c, "pullCas", "pullRead")
  /\ head' = Plus(head, 1)
  /\ UNCHANGED <<tail, sequence, data, pos, arg, taken, pushes>>

PullClaimFailed(c) ==
  /\ Goto(c, "pullCas", "pullSeq")
  /\ pos' = [pos EXCEPT ![c] = head]
  /\ UNCHANGED <<tail, head, sequence, data, arg, taken, pushes>>

PullRead(c) ==
  /\ Goto(c, "pullRead", "pullRelease")
  /\ taken' = [taken EXCEPT ![c] = data[Cell(pos[c])]]
  /\ UNCHANGED <<tail, head, sequence, data, pos, arg, pushes>>

\* store(cell->sequence, pos + buffer_mask + 1): the cell is free for the next lap
PullRelease(c) ==
  /\ Goto(c, "pullRelease", "idle")
  /\ sequence' = [sequence EXCEPT ![Cell(pos[c])] = Plus(pos[c], Size)]
  /\ UNCHANGED <<tail, head, data, pos, arg, taken, pushes>>

-----------------------------------------------------------------------------
PushProgress(p) ==
  \/ PushFree(p) \/ PushFull(p) \/ PushBehind(p) \/ PushReload(p)
  \/ PushWrite(p) \/ PushPublish(p)
  \/ tail # pos[p] /\ PushClaimFailed(p)

PullProgress(c) ==
  \/ AvailableFirst(c) \/ AvailableSecond(c) \/ PullStart(c)
  \/ PullReady(c) \/ PullEmpty(c) \/ PullBehind(c) \/ PullReload(c)
  \/ PullRead(c) \/ PullRelease(c)
  \/ head # pos[c] /\ PullClaimFailed(c)

Next ==
  \/ \E p \in Producers :
       \/ PushStart(p) \/ PushFree(p) \/ PushFull(p) \/ PushBehind(p)
       \/ PushReload(p) \/ PushClaim(p) \/ PushClaimFailed(p)
       \/ PushWrite(p) \/ PushPublish(p)
  \/ \E c \in Consumers :
       \/ AvailableFirst(c) \/ AvailableSecond(c) \/ PullStart(c)
       \/ PullReady(c) \/ PullEmpty(c) \/ PullBehind(c) \/ PullReload(c)
       \/ PullClaim(c) \/ PullClaimFailed(c) \/ PullRead(c) \/ PullRelease(c)

(***************************************************************************)
(* A thread that runs keeps taking steps (weak fairness); a weak           *)
(* compare-and-swap does not fail spuriously for ever (strong fairness).   *)
(* The transmit threads poll in an endless loop, so consumers keep         *)
(* starting; nothing obliges a producer to push.                           *)
(***************************************************************************)
Fairness ==
  /\ \A p \in Producers : WF_vars(PushProgress(p)) /\ SF_vars(PushClaim(p))
  /\ \A c \in Consumers : WF_vars(PullProgress(c)) /\ SF_vars(PullClaim(c))

Spec == Init /\ [][Next]_vars
FairSpec == Spec /\ Fairness

-----------------------------------------------------------------------------
(* Every variable stays within its C type and every thread within the code. *)
TypeOK ==
  /\ tail \in Positions /\ head \in Positions
  /\ sequence \in [Cells -> Positions]
  /\ data \in [Cells -> Values \cup {NoValue}]
  /\ pos \in [Threads -> Positions]
  /\ arg \in [Producers -> Values \cup {NoValue}]
  /\ taken \in [Consumers -> Values \cup {NoValue}]
  /\ pushes \in [Producers -> 0..MaxPush]
  /\ pc \in [Threads -> {"idle", "pushSeq", "pushReload", "pushCas", "pushWrite",
                         "pushPublish", "availHead", "availTail", "pullStart", "pullSeq",
                         "pullReload", "pullCas", "pullRead", "pullRelease"}]

\* Threads between their claim of a position and the store that hands the cell on
Owners == {t \in Threads : pc[t] \in {"pushWrite", "pushPublish", "pullRead", "pullRelease"}}

(* cell->data is a plain field: at no time may two threads be between their  *)
(* claim of a position and the release of its cell on the same cell (push   *)
(* writes it at mpmc_queue.c:96, pull reads it at 125), or data would race. *)
CellExclusive ==
  \A s, t \in Owners : Cell(pos[s]) = Cell(pos[t]) => s = t

(* A push that returns 0 (full) does so only when, at its load of the cell's *)
(* sequence, the queue holds Size descriptors or the consumer that took the  *)
(* descriptor one lap before the tail has not released its cell.             *)
RefusedOnlyWhenFull ==
  [][\A p \in Producers :
       pc[p] = "pushSeq" /\ pc'[p] = "idle" =>
         /\ pos[p] = tail
         /\ \/ Minus(tail, head) = Size
            \/ \E c \in Consumers : c \in Owners /\ pos[c] = Minus(tail, Size)]_vars

(* A pull that returns 0 (empty) does so only when the queue is empty or     *)
(* the oldest position is claimed by a producer that has not published it.  *)
EmptyOnlyWhenNothingReady ==
  [][\A c \in Consumers :
       pc[c] = "pullSeq" /\ pc'[c] = "idle" =>
         /\ pos[c] = head
         /\ \/ tail = head
            \/ \E p \in Producers : p \in Owners /\ pos[p] = head]_vars

-----------------------------------------------------------------------------
\* The descriptor queued at a position: in its cell once published, until
\* then in the hands of the producer that claimed the position.
ValueAt(x) ==
  LET late == {p \in Producers : p \in Owners /\ pos[p] = x}
  IN  IF late # {} THEN arg[CHOOSE p \in late : TRUE] ELSE data[Cell(x)]

Queued == [i \in 1..Minus(tail, head) |-> ValueAt(Plus(head, i - 1))]

Got == [c \in Consumers |->
          IF pc[c] = "pullRead" THEN data[Cell(pos[c])] ELSE taken[c]]

Fifo == INSTANCE BoundedFifo
          WITH Capacity <- Size, items <- Queued, got <- Got

(* The queue implements a bounded FIFO: a push takes effect at its           *)
(* compare-and-swap on tail, a pull at its compare-and-swap on head, each    *)
(* accepted descriptor is delivered once, unaltered and in claim order.      *)
ImplementsFifo == Fifo!Spec

(* No call hangs: a started push, poll or pull returns although the other    *)
(* threads go on (the bound MaxPush makes contention finite).                *)
EveryCallReturns ==
  \A t \in Threads : pc[t] # "idle" ~> pc[t] = "idle"

(* Nothing is stuck in the queue: consumers that keep polling with           *)
(* mpmc_queue_available empty it once the producers pause.                   *)
EventuallyDrained == <>[](tail = head)
=============================================================================
