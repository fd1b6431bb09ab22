---------------------------- MODULE TransitTokens ---------------------------
(***************************************************************************)
(* The tokens of one destination of v6-multi-pool.                         *)
(*                                                                         *)
(* The transit queue of a destination holds an address for each packet     *)
(* that may wait for it.  The receive threads of several ports take one    *)
(* before they queue a packet, and the transmit thread puts one back when  *)
(* it has copied the packet.  Both are queues of MpmcQueue.  main fills    *)
(* the transit queue to the last cell, so the cell a token comes back to   *)
(* is one that a receive thread has taken a token from.  If that thread    *)
(* has moved head on and is not yet through with the cell, mpmc_queue_push *)
(* takes the queue for full, and the transmit thread ignores the result.   *)
(***************************************************************************)
EXTENDS Integers, FiniteSets

CONSTANTS
  Sources,       \* receive threads that send to this destination
  Tokens,        \* MAX_BURST_TX_OBJS: the cells of each queue
  MaxBurstTx

TokenParameters ==
  /\ IsFiniteSet(Sources)
  /\ {Tokens, MaxBurstTx} \subseteq Nat \ {0}

VARIABLES
  rxPc,          \* receive threads
  age,           \* cells taken since, and including, the one a thread holds
  transit,       \* tokens in the transit queue: tail - head
  queued,        \* packets in the packet queue: tail - head
  txPc,          \* transmit thread
  collected      \* packets it has taken from the packet queue

vars == <<rxPc, age, transit, queued, txPc, collected>>

Init ==
  /\ rxPc = [s \in Sources |-> "idle"] /\ age = [s \in Sources |-> 0]
  /\ transit = Tokens /\ queued = 0
  /\ txPc = "pull" /\ collected = 0

Holders == {s \in Sources : rxPc[s] = "hold"}
Pushers == {s \in Sources : rxPc[s] = "push"}

-----------------------------------------------------------------------------
(* Receive threads *)

\* mpmc_queue_pull on the transit queue up to the CAS that moves head on
Claim(s) ==
  /\ rxPc[s] = "idle" /\ rxPc' = [rxPc EXCEPT ![s] = "hold"]
  /\ transit > 0 /\ transit' = transit - 1
  /\ age' = [q \in Sources |->
              IF q = s THEN 1 ELSE IF q \in Holders THEN age[q] + 1 ELSE age[q]]
  /\ UNCHANGED <<queued, txPc, collected>>

\* The store of the sequence that gives the cell free
Release(s) ==
  /\ rxPc[s] = "hold" /\ rxPc' = [rxPc EXCEPT ![s] = "push"]
  /\ age' = [age EXCEPT ![s] = 0]
  /\ UNCHANGED <<transit, queued, txPc, collected>>

\* The cell at the packet queue's tail is still the transmit thread's.
PacketCellHeld == txPc = "release" /\ queued + 1 = Tokens

\* A refused push leaves the token with the thread, which forgets it.
Push(s) ==
  /\ rxPc[s] = "push" /\ rxPc' = [rxPc EXCEPT ![s] = "idle"]
  /\ queued' = IF queued = Tokens \/ PacketCellHeld THEN queued ELSE queued + 1
  /\ UNCHANGED <<age, transit, txPc, collected>>

-----------------------------------------------------------------------------
(* The transmit thread *)

(* Faulty: the token goes back before the packet is copied. *)
TxClaimEarlyToken ==
  /\ txPc = "pull" /\ txPc' = "release"
  /\ queued > 0 /\ collected < MaxBurstTx
  /\ queued' = queued - 1 /\ collected' = collected + 1
  /\ transit' = transit + 1
  /\ UNCHANGED <<rxPc, age>>

\* mpmc_queue_pull on the packet queue up to the CAS that moves head on
TxClaim ==
  /\ txPc = "pull" /\ txPc' = "release"
  /\ queued > 0 /\ collected < MaxBurstTx
  /\ queued' = queued - 1 /\ collected' = collected + 1
  /\ UNCHANGED <<rxPc, age, transit>>

TxRelease ==
  /\ txPc = "release" /\ txPc' = "pull"
  /\ UNCHANGED <<rxPc, age, transit, queued, collected>>

TxStart ==
  /\ txPc = "pull" /\ txPc' = "copy"
  /\ collected > 0
  /\ UNCHANGED <<rxPc, age, transit, queued, collected>>

\* The cell at the transit queue's tail is still a receive thread's.
TransitCellHeld == \E s \in Holders : age[s] + transit = Tokens

(* Faulty: takes an empty queue for a full one. *)
TxCopyUnlessEmpty ==
  /\ txPc = "copy"
  /\ txPc' = IF collected = 1 THEN "pull" ELSE "copy"
  /\ collected' = collected - 1
  /\ transit' = IF transit = 0 \/ TransitCellHeld THEN transit ELSE transit + 1
  /\ UNCHANGED <<rxPc, age, queued>>

\* The packet is copied, and b->addr[i] goes to the transit queue, if it can.
TxCopy ==
  /\ txPc = "copy"
  /\ txPc' = IF collected = 1 THEN "pull" ELSE "copy"
  /\ collected' = collected - 1
  /\ transit' = IF transit = Tokens \/ TransitCellHeld THEN transit ELSE transit + 1
  /\ UNCHANGED <<rxPc, age, queued>>

-----------------------------------------------------------------------------
Next ==
  \/ \E s \in Sources : Claim(s) \/ Release(s) \/ Push(s)
  \/ TxClaim \/ TxRelease \/ TxStart \/ TxCopy

Spec == Init /\ [][Next]_vars

-----------------------------------------------------------------------------
\* Tokens in the transit queue, with a thread, or standing for a packet
TokensLeft ==
  transit + Cardinality(Holders \cup Pushers) + queued + collected

(* Tokens can be lost: while a receive thread is stalled between head and   *)
(* cell, every token that comes back to its cell is.  But the token it      *)
(* holds is not among them, so the destination keeps at least one and does  *)
(* not fall silent for good.                                                *)
SomeTokenLeft == TokensLeft > 0

(* A packet with a token finds room in the packet queue, also while the     *)
(* transmit thread is between head and cell: a packet that was taken and    *)
(* not copied has its token with it.  A refused push would lose both.       *)
PushFits ==
  \A s \in Pushers : queued < Tokens /\ ~PacketCellHeld
=============================================================================
