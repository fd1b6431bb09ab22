------------------------------ MODULE SplitPort -----------------------------
(***************************************************************************)
(* A port of v6-multi-pool.  Every port has a buffer pool of its own, and  *)
(* its cache has two pairs of slabs: the receive thread works on one, the  *)
(* transmit thread on the other.  A packet is copied from a buffer of one  *)
(* pool to a buffer of another, so buffers never leave their pool:         *)
(*                                                                         *)
(*   pool -> slab_cons    -> fill ring     -> receive ring    -> slab_prod *)
(*   pool -> slab_cons_tx -> transmit ring -> completion ring              *)
(*                                                        -> slab_prod_tx  *)
(*                                                                         *)
(* and full producer slabs go back to the pool.  The module counts the     *)
(* buffers in each place.  Which packets there are to send is left open.   *)
(***************************************************************************)
EXTENDS Integers

CONSTANTS
  NSlabs,                       \* bp->n_slabs
  SlabSize,                     \* n_buffers_per_slab
  FillSize, CompSize,           \* umem_cfg.fill_size, umem_cfg.comp_size
  RxSize, TxSize,               \* xsk_cfg.rx_size, xsk_cfg.tx_size
  MaxBurstRx, MaxBurstTx        \* MAX_BURST_RX, MAX_BURST_TX

\* bcache_cons_check asks for bursts no larger than a slab: it promises as
\* many buffers as it is asked for once it has traded for a slab.
ASSUME SplitPortAssumption ==
  /\ NSlabs \in Nat /\ NSlabs >= 4
  /\ SlabSize \in Nat \ {0} /\ FillSize \in 1..SlabSize
  /\ CompSize \in Nat \ {0} /\ RxSize \in Nat \ {0} /\ TxSize \in Nat \ {0}
  /\ MaxBurstRx \in 1..SlabSize /\ MaxBurstTx \in 1..SlabSize

VARIABLES
  nSlabsAvailable,              \* bp->n_slabs_available: full slabs in the pool
  nCons, nProd,                 \* bc->n_buffers_cons, bc->n_buffers_prod
  nConsTx, nProdTx,             \* bc->n_buffers_cons_tx, bc->n_buffers_prod_tx
  fq, rx,                       \* buffers in the fill and the receive ring
  txq, cq,                      \* buffers in the transmit and completion ring
  rxPc, burst, processed,       \* receive thread: n_pkts, and packets done
  txPc, collected,              \* transmit thread: n_pkts,
  peeked, returned,             \* completions peeked, and given back
  forgotten                     \* buffers of packets that could not be placed

rxSide == <<nCons, nProd, fq, rx, rxPc, burst, processed>>
txSide == <<nConsTx, nProdTx, txq, cq, txPc, collected, peeked, returned>>
vars == <<nSlabsAvailable, rxSide, txSide, forgotten>>

AtMost(m, n) == IF m < n THEN m ELSE n

\* port_init: the cache gets two slabs of buffers, and two whose buffers it
\* forgets; the fill ring is filled from the first.
Init ==
  /\ nSlabsAvailable = NSlabs - 4
  /\ nCons = SlabSize - FillSize /\ nProd = 0
  /\ nConsTx = SlabSize /\ nProdTx = 0
  /\ fq = FillSize /\ rx = 0 /\ txq = 0 /\ cq = 0
  /\ rxPc = "check" /\ burst = 0 /\ processed = 0
  /\ txPc = "check" /\ collected = 0 /\ peeked = 0 /\ returned = 0
  /\ forgotten = 0

-----------------------------------------------------------------------------
(* The kernel *)

KernelReceive ==
  /\ fq > 0 /\ rx < RxSize
  /\ fq' = fq - 1 /\ rx' = rx + 1
  /\ UNCHANGED <<nSlabsAvailable, nCons, nProd, rxPc, burst, processed, txSide, forgotten>>

KernelTransmit ==
  /\ txq > 0 /\ cq < CompSize
  /\ txq' = txq - 1 /\ cq' = cq + 1
  /\ UNCHANGED <<nSlabsAvailable, rxSide, nConsTx, nProdTx, txPc, collected, peeked, returned, forgotten>>

-----------------------------------------------------------------------------
(* The cache *)

BcacheProd ==
  \/ /\ nProd < SlabSize
     /\ nProd' = nProd + 1
     /\ UNCHANGED nSlabsAvailable
  \/ /\ nProd = SlabSize
     /\ nProd' = 1
     /\ nSlabsAvailable' = nSlabsAvailable + 1

(* Faulty: the buffer that finds the slab full is not stored in the new one. *)
BcacheProdTxDrops ==
  \/ /\ nProdTx < SlabSize
     /\ nProdTx' = nProdTx + 1
     /\ UNCHANGED nSlabsAvailable
  \/ /\ nProdTx = SlabSize
     /\ nProdTx' = 0
     /\ nSlabsAvailable' = nSlabsAvailable + 1

BcacheProdTx ==
  \/ /\ nProdTx < SlabSize
     /\ nProdTx' = nProdTx + 1
     /\ UNCHANGED nSlabsAvailable
  \/ /\ nProdTx = SlabSize
     /\ nProdTx' = 1
     /\ nSlabsAvailable' = nSlabsAvailable + 1

-----------------------------------------------------------------------------
(* Receive thread: port_rx_burst, port_nic_rx_burst *)

\* bcache_cons_check; without a slab the thread tries again.
RxCheck ==
  /\ rxPc = "check" /\ rxPc' = "peek"
  /\ \/ /\ nCons > 0
        /\ burst' = AtMost(nCons, MaxBurstRx)
        /\ UNCHANGED <<nSlabsAvailable, nCons>>
     \/ /\ nCons = 0 /\ nSlabsAvailable > 0
        /\ nSlabsAvailable' = nSlabsAvailable - 1
        /\ nCons' = SlabSize
        /\ burst' = MaxBurstRx
  /\ UNCHANGED <<nProd, fq, rx, processed, txSide, forgotten>>

(* Faulty: takes packets without looking at the buffers left to refill with. *)
RxPeekUnlimited ==
  LET n == AtMost(MaxBurstRx, rx)
  IN  /\ rxPc = "peek" /\ rxPc' = IF n = 0 THEN "check" ELSE "process"
      /\ burst' = n
      /\ UNCHANGED <<nSlabsAvailable, nCons, nProd, fq, rx, processed, txSide, forgotten>>

\* The packets stay in the receive ring until they are all processed.
RxPeek ==
  LET n == AtMost(burst, rx)
  IN  /\ rxPc = "peek" /\ rxPc' = IF n = 0 THEN "check" ELSE "process"
      /\ burst' = n
      /\ UNCHANGED <<nSlabsAvailable, nCons, nProd, fq, rx, processed, txSide, forgotten>>

Processed ==
  /\ rxPc = "process" /\ processed < burst
  /\ processed' = processed + 1
  /\ UNCHANGED <<nCons, fq, rx, rxPc, burst, txSide>>

\* Copied to a transit buffer, refused or rejected: the buffer is free again.
RxGiveBack == Processed /\ BcacheProd /\ UNCHANGED forgotten

\* "TODO: NON Local queues", "TODO: There is no veth_side_queue"
RxForget ==
  /\ Processed
  /\ forgotten' = forgotten + 1
  /\ UNCHANGED <<nSlabsAvailable, nProd>>

RxRelease ==
  /\ rxPc = "process" /\ processed = burst
  /\ rxPc' = "refill"
  /\ rx' = rx - burst /\ processed' = 0
  /\ UNCHANGED <<nSlabsAvailable, nCons, nProd, fq, burst, txSide, forgotten>>

\* The loop around xsk_ring_prod__reserve, and one bcache_cons per packet
RxRefill ==
  /\ rxPc = "refill" /\ rxPc' = "check"
  /\ fq + burst <= FillSize
  /\ fq' = fq + burst /\ nCons' = nCons - burst
  /\ burst' = 0
  /\ UNCHANGED <<nSlabsAvailable, nProd, rx, processed, txSide, forgotten>>

RxStep == RxCheck \/ RxPeek \/ RxGiveBack \/ RxForget \/ RxRelease \/ RxRefill

-----------------------------------------------------------------------------
(* Transmit thread: thread_func_nic_tx, thread_func_veth_tx *)

\* bcache_cons_tx_check, before there is a packet to send
TxCheck ==
  /\ txPc = "check" /\ txPc' = "collect"
  /\ \/ /\ nConsTx > 0
        /\ collected' = AtMost(nConsTx, MaxBurstTx)
        /\ UNCHANGED <<nSlabsAvailable, nConsTx>>
     \/ /\ nConsTx = 0 /\ nSlabsAvailable > 0
        /\ nSlabsAvailable' = nSlabsAvailable - 1
        /\ nConsTx' = SlabSize
        /\ collected' = MaxBurstTx
  /\ UNCHANGED <<rxSide, nProdTx, txq, cq, peeked, returned, forgotten>>

\* The queue may hold fewer packets than the thread has buffers for.
TxCollect ==
  /\ txPc = "collect"
  /\ \E n \in 0..collected :
       /\ collected' = n
       /\ txPc' = IF n = 0 THEN "check" ELSE "peek"
  /\ UNCHANGED <<nSlabsAvailable, rxSide, nConsTx, nProdTx, txq, cq, peeked, returned, forgotten>>

TxPeek ==
  /\ txPc = "peek" /\ txPc' = "complete"
  /\ peeked' = AtMost(CompSize, cq)
  /\ UNCHANGED <<nSlabsAvailable, rxSide, nConsTx, nProdTx, txq, cq, collected, returned, forgotten>>

TxComplete ==
  /\ txPc = "complete" /\ returned < peeked
  /\ BcacheProdTx
  /\ returned' = returned + 1
  /\ UNCHANGED <<rxSide, nConsTx, txq, cq, txPc, collected, peeked, forgotten>>

(* Faulty: the completion ring keeps the entries. *)
TxReleaseForgotten ==
  /\ txPc = "complete" /\ returned = peeked
  /\ txPc' = "reserve"
  /\ peeked' = 0 /\ returned' = 0
  /\ UNCHANGED <<nSlabsAvailable, rxSide, nConsTx, nProdTx, txq, cq, collected, forgotten>>

TxRelease ==
  /\ txPc = "complete" /\ returned = peeked
  /\ txPc' = "reserve"
  /\ cq' = cq - peeked
  /\ peeked' = 0 /\ returned' = 0
  /\ UNCHANGED <<nSlabsAvailable, rxSide, nConsTx, nProdTx, txq, collected, forgotten>>

(* Faulty: bcache_cons_tx does not write n_buffers_cons_tx back. *)
TxSubmitKeeps ==
  /\ txPc = "reserve" /\ txPc' = "check"
  /\ txq + collected <= TxSize
  /\ txq' = txq + collected
  /\ collected' = 0
  /\ UNCHANGED <<nSlabsAvailable, rxSide, nConsTx, nProdTx, cq, peeked, returned, forgotten>>

\* The loop around xsk_ring_prod__reserve, and one bcache_cons_tx per packet
TxSubmit ==
  /\ txPc = "reserve" /\ txPc' = "check"
  /\ txq + collected <= TxSize
  /\ txq' = txq + collected /\ nConsTx' = nConsTx - collected
  /\ collected' = 0
  /\ UNCHANGED <<nSlabsAvailable, rxSide, nProdTx, cq, peeked, returned, forgotten>>

TxStep == TxCheck \/ TxCollect \/ TxPeek \/ TxComplete \/ TxRelease \/ TxSubmit

-----------------------------------------------------------------------------
Next == RxStep \/ TxStep \/ KernelReceive \/ KernelTransmit

(* Each thread has a core of its own.  The kernel is relied on only while  *)
(* the transmit thread waits for room and wakes it up.                     *)
Fairness ==
  /\ WF_vars(RxStep) /\ WF_vars(TxStep)
  /\ WF_vars(txPc = "reserve" /\ KernelTransmit)

Spec == Init /\ [][Next]_vars
FairSpec == Spec /\ Fairness

-----------------------------------------------------------------------------
(* No count leaves the capacity of what it counts; in particular there is  *)
(* a buffer for every bcache_cons and bcache_cons_tx, which do not check.  *)
TypeOK ==
  /\ nSlabsAvailable \in 0..NSlabs
  /\ nCons \in 0..SlabSize /\ nProd \in 0..SlabSize
  /\ nConsTx \in 0..SlabSize /\ nProdTx \in 0..SlabSize
  /\ fq \in 0..FillSize /\ rx \in 0..RxSize /\ txq \in 0..TxSize /\ cq \in 0..CompSize
  /\ rxPc \in {"check", "peek", "process", "refill"}
  /\ burst \in 0..MaxBurstRx /\ processed \in 0..burst
  /\ txPc \in {"check", "collect", "peek", "complete", "reserve"}
  /\ collected \in 0..MaxBurstTx /\ peeked \in 0..cq /\ returned \in 0..peeked
  /\ forgotten \in Nat

(* All buffers but those of the two forgotten slabs are in circulation, or *)
(* were lost with a packet for which there is no queue: a burst or a batch *)
(* of completions given back half way loses and duplicates none.           *)
BuffersCirculate ==
  nSlabsAvailable * SlabSize + nCons + nProd + nConsTx + nProdTx
    + fq + (rx - processed) + txq + (cq - returned) + forgotten
  = (NSlabs - 2) * SlabSize

(* "it is guaranteed that there is at least one empty slab available in the *)
(* pool": when a producer slab is full and one more buffer comes back, the  *)
(* slots 0..NSlabs-5 of bp->slabs hold one.  The slots above still point to *)
(* slabs of this cache.  It needs a fill ring as large as a slab, as in     *)
(* umem_cfg_default, where port_init only asks for one that is not larger.  *)
EmptySlabLeft ==
  FillSize = SlabSize =>
    /\ rxPc = "process" /\ processed < burst /\ nProd = SlabSize
         => nSlabsAvailable < NSlabs - 4
    /\ returned < peeked /\ nProdTx = SlabSize
         => nSlabsAvailable < NSlabs - 4

(* What may lie still while a thread looks for a slab: all other slabs of   *)
(* the cache, the buffers of the fill and receive ring, and the transmit    *)
(* and completion ring, which nobody reads while the transmit thread waits. *)
(* The default sizes leave 2 * 4096 - 2048 - 2048 buffers to be forgotten.  *)
EnoughBuffers == (NSlabs - 6) * SlabSize > TxSize + CompSize + forgotten

(* A thread that needs a slab finds one.  The transmit thread would never   *)
(* run again otherwise: it reads the completion ring, the only place its    *)
(* buffers come back from, only after it has found a slab.                  *)
NeverStarved ==
  EnoughBuffers =>
    /\ nCons = 0 => nSlabsAvailable > 0
    /\ nConsTx = 0 => nSlabsAvailable > 0

(* The loop that waits for room in the transmit ring ends, though it reads *)
(* no completions: what is in the transmit ring fits into the other one.   *)
TransmitterReturns == txPc = "reserve" ~> txPc = "check"
=============================================================================
