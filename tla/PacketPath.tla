----------------------------- MODULE PacketPath ----------------------------
(***************************************************************************)
(* The whole path of a packet through the emulator, counted in buffers.    *)
(*                                                                         *)
(* Every port has a receive thread (thread_func_veth, thread_func_nic) and *)
(* a transmit thread (thread_func_veth_to_nic_tx, _nic_to_veth_tx).  The   *)
(* receive thread moves buffers from the pool to the fill ring and passes  *)
(* those with packets to the queue of the transmit thread of the outgoing  *)
(* port; that one moves them to its transmit ring, and back to the pool    *)
(* when the kernel reports them in the completion ring.  It looks into the *)
(* completion ring only when it has packets to send.                       *)
(*                                                                         *)
(* Every part is a number of buffers: which buffer is where is the subject *)
(* of BufferPool, the inside of a queue that of MpmcQueue, and a call of a *)
(* bcache or queue function is one step.                                   *)
(***************************************************************************)
EXTENDS Integers, FiniteSetsExt

CONSTANTS
  Ports,      \* the ports: NIC queues and virtual interfaces
  Dest,       \* where the packets received on a port may go out
  Nic,        \* the NIC queues
  NonLocal,   \* those of them that also receive packets for other nodes, or
              \* for a virtual interface that has no queue
  NSlabs, SlabSize, FillSize, RxSize, MaxBurst,   \* as in BufferPool
  QueueSize,  \* MAX_BURST_TX_OBJS: capacity of a packet queue
  TxSize,     \* xsk_cfg.tx_size: capacity of a transmit ring
  CompSize,   \* umem_cfg.comp_size: capacity of a completion ring
  MaxBurstTx  \* MAX_BURST_TX

NPorts == Cardinality(Ports)
PoolSlots == NSlabs - 2 * NPorts

ASSUME PathAssumption ==
  /\ IsFiniteSet(Ports) /\ Dest \in [Ports -> SUBSET Ports]
  /\ NonLocal \subseteq Nic /\ Nic \subseteq Ports
  /\ {NSlabs, SlabSize, FillSize, RxSize, MaxBurst, QueueSize, TxSize, CompSize,
      MaxBurstTx} \subseteq Nat \ {0}
  /\ FillSize <= SlabSize /\ MaxBurst <= SlabSize /\ PoolSlots >= 0

\* What the ports keep in their consumer slabs after filling their fill rings is,
\* over all ports, at most one slab (the default sizes are equal).
ASSUME FillAssumption == NPorts * (SlabSize - FillSize) <= SlabSize

\* A burst fits into the transmit ring, and completes while the thread waits.
ASSUME BurstAssumption == MaxBurstTx <= TxSize /\ MaxBurstTx <= CompSize

VARIABLES
  full,             \* bp->n_slabs_available
  nCons, nProd,     \* buffers in the consumer and producer slab of each cache
  fq, rx,           \* buffers in the fill and the receive ring of each port
  rxPc, burst,      \* receive threads: where they are, packets left of the burst
  queue,            \* packets waiting for the transmit thread of each port
  txPc, collected,  \* transmit threads: where they are, packets collected
  peeked, returned, \* completions being processed, and how many are given back
  txq, cq,          \* buffers in the transmit and completion ring of each port
  lost              \* buffers that nothing points to any more

pool == <<full, nProd>>
rxSide == <<nCons, fq, rx, rxPc, burst>>
txSide == <<txPc, collected, peeked, returned, txq, cq>>
vars == <<pool, rxSide, queue, txSide, lost>>

AtMost(m, n) == IF m < n THEN m ELSE n
Zero == [p \in Ports |-> 0]

\* All ports are set up: each has a full consumer slab, the larger part of it
\* in the fill ring, and a producer slab whose buffers were forgotten.
Init ==
  /\ full = PoolSlots
  /\ nCons = [p \in Ports |-> SlabSize - FillSize] /\ nProd = Zero
  /\ fq = [p \in Ports |-> FillSize] /\ rx = Zero
  /\ rxPc = [p \in Ports |-> "check"] /\ burst = Zero
  /\ queue = Zero
  /\ txPc = [p \in Ports |-> "pull"] /\ collected = Zero
  /\ peeked = Zero /\ returned = Zero
  /\ txq = Zero /\ cq = Zero
  /\ lost = NPorts * SlabSize

-----------------------------------------------------------------------------
(* The kernel *)

KernelReceive(p) ==
  /\ fq[p] > 0 /\ rx[p] < RxSize
  /\ fq' = [fq EXCEPT ![p] = @ - 1]
  /\ rx' = [rx EXCEPT ![p] = @ + 1]
  /\ UNCHANGED <<pool, nCons, rxPc, burst, queue, txSide, lost>>

KernelTransmit(p) ==
  /\ txq[p] > 0 /\ cq[p] < CompSize
  /\ txq' = [txq EXCEPT ![p] = @ - 1]
  /\ cq' = [cq EXCEPT ![p] = @ + 1]
  /\ UNCHANGED <<pool, rxSide, queue, txPc, collected, peeked, returned, lost>>

-----------------------------------------------------------------------------
(* bcache_prod *)

BcacheProd(p) ==
  \/ /\ nProd[p] < SlabSize
     /\ nProd' = [nProd EXCEPT ![p] = @ + 1]
     /\ UNCHANGED full
  \/ /\ nProd[p] = SlabSize
     /\ nProd' = [nProd EXCEPT ![p] = 1]
     /\ full' = full + 1

-----------------------------------------------------------------------------
(* Receive threads *)

RxAt(p, from, to) == rxPc[p] = from /\ rxPc' = [rxPc EXCEPT ![p] = to]

\* bcache_cons_check, which may trade an empty consumer slab for a full one
RxCheck(p) ==
  /\ RxAt(p, "check", "peek")
  /\ \/ nCons[p] > 0 /\ UNCHANGED <<full, nCons>>
     \/ /\ nCons[p] = 0 /\ full > 0
        /\ full' = full - 1
        /\ nCons' = [nCons EXCEPT ![p] = SlabSize]
  /\ UNCHANGED <<nProd, fq, rx, burst, queue, txSide, lost>>

(* Faulty: takes packets without looking at the buffers left to refill with. *)
RxPeekUnlimited(p) ==
  LET n == AtMost(MaxBurst, rx[p])
  IN  /\ RxAt(p, "peek", IF n = 0 THEN "check" ELSE "refill")
      /\ burst' = [burst EXCEPT ![p] = n]
      /\ rx' = [rx EXCEPT ![p] = @ - n]
      /\ UNCHANGED <<pool, nCons, fq, queue, txSide, lost>>

(* Faulty: never takes the last buffer of a slab. *)
RxPeekKeepsOne(p) ==
  LET n == AtMost(AtMost(nCons[p] - 1, MaxBurst), rx[p])
  IN  /\ RxAt(p, "peek", IF n = 0 THEN "check" ELSE "refill")
      /\ burst' = [burst EXCEPT ![p] = n]
      /\ rx' = [rx EXCEPT ![p] = @ - n]
      /\ UNCHANGED <<pool, nCons, fq, queue, txSide, lost>>

RxPeek(p) ==
  LET n == AtMost(AtMost(nCons[p], MaxBurst), rx[p])
  IN  /\ RxAt(p, "peek", IF n = 0 THEN "check" ELSE "refill")
      /\ burst' = [burst EXCEPT ![p] = n]
      /\ rx' = [rx EXCEPT ![p] = @ - n]
      /\ UNCHANGED <<pool, nCons, fq, queue, txSide, lost>>

RxRefill(p) ==
  /\ fq[p] + burst[p] <= FillSize
  /\ RxAt(p, "refill", "process")
  /\ fq' = [fq EXCEPT ![p] = @ + burst[p]]
  /\ nCons' = [nCons EXCEPT ![p] = @ - burst[p]]
  /\ UNCHANGED <<pool, rx, burst, queue, txSide, lost>>

Processed(p) ==
  /\ RxAt(p, "process", IF burst[p] = 1 THEN "check" ELSE "process")
  /\ burst' = [burst EXCEPT ![p] = @ - 1]
  /\ UNCHANGED <<nCons, fq, rx, txSide>>

\* The queue is chosen for each packet: queue 0, or that of its which_veth.
RxForward(p) ==
  /\ Processed(p)
  /\ \E d \in Dest[p] :
       /\ queue[d] < QueueSize
       /\ queue' = [queue EXCEPT ![d] = @ + 1]
  /\ UNCHANGED <<pool, lost>>

(* Faulty: the buffer of a packet the queue refuses is forgotten. *)
RxQueueFullForgets(p) ==
  /\ Processed(p)
  /\ \E d \in Dest[p] : queue[d] = QueueSize
  /\ UNCHANGED <<pool, queue, lost>>

RxQueueFull(p) ==
  /\ Processed(p)
  /\ \E d \in Dest[p] : queue[d] = QueueSize
  /\ BcacheProd(p)
  /\ UNCHANGED <<queue, lost>>

\* process_rx_packet left new_len at 0: not an IP packet, and no earlier
\* packet of the burst set new_len.  The NIC side never looks.
RxReject(p) ==
  /\ p \notin Nic
  /\ Processed(p)
  /\ BcacheProd(p)
  /\ UNCHANGED <<queue, lost>>

\* "TODO: NON Local queues implement later", or, for a virtual interface,
\* "TODO: There is no veth_side_queue": the buffer is not given back.
RxNonLocal(p) ==
  /\ p \in NonLocal
  /\ Processed(p)
  /\ lost' = lost + 1
  /\ UNCHANGED <<pool, queue>>

RxStep(p) ==
  \/ RxCheck(p) \/ RxPeek(p) \/ RxRefill(p)
  \/ RxForward(p) \/ RxQueueFull(p) \/ RxReject(p) \/ RxNonLocal(p)

-----------------------------------------------------------------------------
(* Transmit threads *)

TxAt(p, from, to) == txPc[p] = from /\ txPc' = [txPc EXCEPT ![p] = to]

\* Collect packets of the queue until it is empty or the burst is full.
TxPull(p) ==
  /\ TxAt(p, "pull", "pull")
  /\ queue[p] > 0 /\ collected[p] < MaxBurstTx
  /\ queue' = [queue EXCEPT ![p] = @ - 1]
  /\ collected' = [collected EXCEPT ![p] = @ + 1]
  /\ UNCHANGED <<pool, rxSide, peeked, returned, txq, cq, lost>>

(* Faulty: does nothing when there are no completions. *)
TxPeekNeedsCompletions(p) ==
  /\ cq[p] > 0
  /\ collected[p] > 0 /\ (queue[p] = 0 \/ collected[p] = MaxBurstTx)
  /\ TxAt(p, "pull", "complete")
  /\ peeked' = [peeked EXCEPT ![p] = cq[p]]
  /\ UNCHANGED <<pool, rxSide, queue, collected, returned, txq, cq, lost>>

\* port_tx_burst_collector, with at least one packet: first the completions
TxPeek(p) ==
  /\ collected[p] > 0 /\ (queue[p] = 0 \/ collected[p] = MaxBurstTx)
  /\ TxAt(p, "pull", "complete")
  /\ peeked' = [peeked EXCEPT ![p] = cq[p]]
  /\ UNCHANGED <<pool, rxSide, queue, collected, returned, txq, cq, lost>>

(* Faulty: completed buffers do not go back to the pool. *)
TxCompleteForgets(p) ==
  /\ TxAt(p, "complete", "complete")
  /\ returned[p] < peeked[p]
  /\ returned' = [returned EXCEPT ![p] = @ + 1]
  /\ UNCHANGED <<pool, rxSide, queue, collected, peeked, txq, cq, lost>>

TxComplete(p) ==
  /\ TxAt(p, "complete", "complete")
  /\ returned[p] < peeked[p]
  /\ BcacheProd(p)
  /\ returned' = [returned EXCEPT ![p] = @ + 1]
  /\ UNCHANGED <<nCons, fq, rx, rxPc, burst, queue, collected, peeked, txq, cq, lost>>

(* Faulty: the completion ring keeps the entries. *)
TxReleaseForgotten(p) ==
  /\ returned[p] = peeked[p]
  /\ TxAt(p, "complete", "reserve")
  /\ peeked' = [peeked EXCEPT ![p] = 0]
  /\ returned' = [returned EXCEPT ![p] = 0]
  /\ UNCHANGED <<pool, rxSide, queue, collected, txq, cq, lost>>

\* xsk_ring_cons__release makes room in the completion ring.
TxRelease(p) ==
  /\ returned[p] = peeked[p]
  /\ TxAt(p, "complete", "reserve")
  /\ cq' = [cq EXCEPT ![p] = @ - peeked[p]]
  /\ peeked' = [peeked EXCEPT ![p] = 0]
  /\ returned' = [returned EXCEPT ![p] = 0]
  /\ UNCHANGED <<pool, rxSide, queue, collected, txq, lost>>

\* The thread spins, and wakes the kernel up, until the burst has room.
TxSubmit(p) ==
  /\ txq[p] + collected[p] <= TxSize
  /\ TxAt(p, "reserve", "pull")
  /\ txq' = [txq EXCEPT ![p] = @ + collected[p]]
  /\ collected' = [collected EXCEPT ![p] = 0]
  /\ UNCHANGED <<pool, rxSide, queue, peeked, returned, cq, lost>>

TxStep(p) ==
  TxPull(p) \/ TxPeek(p) \/ TxComplete(p) \/ TxRelease(p) \/ TxSubmit(p)

-----------------------------------------------------------------------------
Next ==
  \E p \in Ports :
    RxStep(p) \/ TxStep(p) \/ KernelReceive(p) \/ KernelTransmit(p)

(* Each thread runs on a core of its own, so it keeps running.  The kernel  *)
(* is relied on to transmit only while a thread spins and wakes it up.      *)
Fairness ==
  \A p \in Ports :
    /\ WF_vars(RxStep(p)) /\ WF_vars(TxStep(p))
    /\ WF_vars(txPc[p] = "reserve" /\ KernelTransmit(p))

Spec == Init /\ [][Next]_vars
FairSpec == Spec /\ Fairness

-----------------------------------------------------------------------------
Total(f) == FoldSet(LAMBDA p, sum : f[p] + sum, 0, Ports)

(* No count leaves the capacity of what it counts: slab, ring, queue, burst. *)
TypeOK ==
  /\ full \in 0..PoolSlots
  /\ nCons \in [Ports -> 0..SlabSize] /\ nProd \in [Ports -> 0..SlabSize]
  /\ fq \in [Ports -> 0..FillSize] /\ rx \in [Ports -> 0..RxSize]
  /\ rxPc \in [Ports -> {"check", "peek", "refill", "process"}]
  /\ burst \in [Ports -> 0..MaxBurst]
  /\ queue \in [Ports -> 0..QueueSize]
  /\ txPc \in [Ports -> {"pull", "complete", "reserve"}]
  /\ collected \in [Ports -> 0..MaxBurstTx]
  /\ cq \in [Ports -> 0..CompSize] /\ txq \in [Ports -> 0..TxSize]
  /\ peeked \in [Ports -> 0..CompSize] /\ returned \in [Ports -> 0..CompSize]
  /\ \A p \in Ports : returned[p] <= peeked[p] /\ peeked[p] <= cq[p]
  /\ lost \in 0..(NSlabs * SlabSize)

(* Every buffer of the pool is somewhere: whatever way a packet takes        *)
(* (forwarded, refused by a full queue, rejected, sent), its buffer comes    *)
(* back, except for the packets to other nodes, which the code leaks, and    *)
(* those the initialisation overwrites.                                      *)
BuffersAccountedFor ==
  full * SlabSize + lost
    + Total(nCons) + Total(nProd) + Total(fq) + Total(rx) + Total(burst)
    + Total(queue) + Total(collected) + Total(txq) + Total(cq) - Total(returned)
  = NSlabs * SlabSize

(* What the ports can hold back while they do nothing: a full producer slab  *)
(* nobody trades, a completion ring nobody reads, a transmit ring nobody     *)
(* kicks, and (any port but the one that starves) a full consumer slab.      *)
Idle == NPorts * (SlabSize + CompSize + TxSize) + (NPorts - 1) * SlabSize
EnoughBuffers == PoolSlots * SlabSize + NPorts * (SlabSize - FillSize) > Idle

(* With that many buffers, a receive thread that finds neither its consumer  *)
(* slab nor the pool filled can wait: some buffer is on its way through a    *)
(* thread and will come back.  Otherwise it could starve although nothing    *)
(* was lost, since a port without packets to send reads no completions.      *)
StarvedOnlyWhileBusy ==
  \A p \in Ports :
    EnoughBuffers /\ NonLocal = {} /\ full = 0 /\ nCons[p] = 0
      => Total(burst) + Total(queue) + Total(collected) > 0

(* The loop around xsk_ring_prod__reserve ends: completions were read just   *)
(* before, so the kernel can complete as much as the burst needs.            *)
TxSpinEnds == \A p \in Ports : txPc[p] = "reserve" ~> txPc[p] = "pull"

(* A full queue gets room again, so that it does not refuse packets forever. *)
QueueDrains == \A p \in Ports : queue[p] = QueueSize ~> queue[p] < QueueSize

(* A packet in the receive ring is fetched in the end, whatever the other    *)
(* ports do or stop doing.  This takes more than EnoughBuffers: the buffers  *)
(* on their way must not empty the pool either, or the other receive threads *)
(* can take every slab that comes back before this one looks.                *)
ReceiverServed == \A p \in Ports : rx[p] > 0 ~> rxPc[p] = "process"
=============================================================================
