----------------------------- MODULE TransitPath ----------------------------
(***************************************************************************)
(* From a receive to a transmit thread in v6-multi-pool.                   *)
(*                                                                         *)
(* Every destination has a packet queue and a transit queue.  A receive    *)
(* thread takes an address from the transit queue (a token), queues the    *)
(* packet, and gives the buffer the packet came in back to its cache.  The *)
(* destination's transmit thread copies the packet into a buffer of its    *)
(* own pool, and puts an address back into the transit queue.              *)
(*                                                                         *)
(* The address from the transit queue is overwritten with that of the      *)
(* packet, and the memcpy to it commented out: what is queued is a pointer *)
(* into a buffer that is on its way back to the port's pool.  There two    *)
(* threads take full slabs: the receive thread, for the kernel to receive  *)
(* into, and the transmit thread of the same port, which copies packets of *)
(* other ports into the buffers.  The module follows each buffer of a veth *)
(* port, with the port's two threads, the kernel, and one destination that *)
(* the port's packets are queued for, and asks when a buffer is written to *)
(* again.  Which tokens there are is left to TransitTokens.                *)
(***************************************************************************)
EXTENDS Integers, SequencesExt

CONSTANTS
  SlabSize,      \* n_buffers_per_slab, and umem_cfg.fill_size
  PoolSlabs,     \* full slabs that bcache_init leaves in the pool
  RxSize, TxSize, CompSize,
  MaxBurstRx, MaxBurstTx,
  QueueSize,     \* MAX_BURST_TX_OBJS: the capacity of the packet queue
  MaxPackets     \* bound: packets the port receives

\* The comment on bcache_cons_check asks for bursts of at most a slab.
ASSUME TransitAssumption ==
  /\ {SlabSize, PoolSlabs, RxSize, TxSize, CompSize, MaxBurstRx, MaxBurstTx, QueueSize,
      MaxPackets} \subseteq Nat \ {0}
  /\ MaxBurstRx <= SlabSize /\ MaxBurstTx <= SlabSize

VARIABLES
  pool,                        \* full slabs, the last one is taken first
  slabCons, slabProd,          \* receive thread's slabs of the cache
  fq, rx,                      \* fill ring; receive ring, until it is released
  content,                     \* which packet is in which buffer
  received,                    \* packets received
  rxPc, burst, processed,      \* receive thread: n_pkts, packets processed
  slabConsTx, slabProdTx,      \* transmit thread's slabs of the cache
  sending,                     \* completion ring and, behind it, transmit ring
  txPc, txBurst,               \* transmit thread of the port: n_pkts
  lastTaken,                   \* packets done when it last took a slab
  queue,                       \* packets queued for the destination
  destPc, collected            \* transmit thread of the destination

rxSide == <<slabCons, slabProd, fq, rx, received, rxPc, burst, processed>>
txSide == <<slabConsTx, slabProdTx, sending, txPc, txBurst, lastTaken>>
destination == <<queue, destPc, collected>>
vars == <<pool, content, rxSide, txSide, destination>>

Buffers == 1..((PoolSlabs + 2) * SlabSize)
Slab(i) == [k \in 1..SlabSize |-> i * SlabSize + k]
AtMost(m, n) == IF m < n THEN m ELSE n

\* port_init has moved slab_cons to the fill ring.  The buffers of the two
\* producer slabs are forgotten.  Packet 0 is any that is not of this port.
Init ==
  /\ pool = [i \in 1..PoolSlabs |-> Slab(i)]
  /\ slabCons = <<>> /\ slabProd = <<>>
  /\ fq = Slab(0) /\ rx = <<>>
  /\ content = [b \in Buffers |-> 0] /\ received = 0
  /\ rxPc = "check" /\ burst = 0 /\ processed = 0
  /\ slabConsTx = Slab(PoolSlabs + 1) /\ slabProdTx = <<>> /\ sending = <<>>
  /\ txPc = "check" /\ txBurst = 0 /\ lastTaken = 0
  /\ queue = <<>> /\ destPc = "pull" /\ collected = <<>>

-----------------------------------------------------------------------------
(* The kernel writes a packet to the next buffer of the fill ring. *)

KernelReceive ==
  /\ fq # <<>> /\ Len(rx) < RxSize
  /\ received < MaxPackets
  /\ received' = received + 1
  /\ content' = [content EXCEPT ![Head(fq)] = received + 1]
  /\ rx' = Append(rx, Head(fq)) /\ fq' = Tail(fq)
  /\ UNCHANGED <<pool, slabCons, slabProd, rxPc, burst, processed, txSide, destination>>

-----------------------------------------------------------------------------
(* The receive thread of the port *)

\* bcache_cons_check: slabs are taken from the end of bp->slabs.
RxCheck ==
  /\ rxPc = "check" /\ rxPc' = "peek"
  /\ \/ /\ slabCons # <<>>
        /\ burst' = AtMost(Len(slabCons), MaxBurstRx)
        /\ UNCHANGED <<pool, slabCons>>
     \/ /\ slabCons = <<>> /\ pool # <<>>
        /\ slabCons' = Last(pool) /\ pool' = Front(pool)
        /\ burst' = MaxBurstRx
  /\ UNCHANGED <<content, slabProd, fq, rx, received, processed, txSide, destination>>

RxPeek ==
  LET n == AtMost(burst, Len(rx))
  IN  /\ rxPc = "peek" /\ rxPc' = IF n = 0 THEN "check" ELSE "process"
      /\ burst' = n
      /\ UNCHANGED <<pool, content, slabCons, slabProd, fq, rx, received, processed,
                     txSide, destination>>

Current == rx[processed + 1]

\* Packets whose buffers were given back, and those the thread is done with
GivenBack == received - Len(rx) + processed
Done == GivenBack + IF rxPc = "back" THEN 1 ELSE 0

\* No token, rejected, or for another destination: here, the buffer is just
\* given back.  A veth port has a queue for every destination, so none is kept.
RxDrop ==
  /\ rxPc = "process" /\ rxPc' = "back"
  /\ processed < burst
  /\ UNCHANGED <<pool, content, slabCons, slabProd, fq, rx, received, burst, processed,
                 txSide, destination>>

\* btx->addr = transit_addr, which is updated_pkt
Entry == [addr |-> Current, packet |-> content[Current]]

RxQueue ==
  /\ rxPc = "process" /\ rxPc' = "back"
  /\ processed < burst
  /\ queue' = IF Len(queue) < QueueSize THEN Append(queue, Entry) ELSE queue
  /\ UNCHANGED <<pool, content, slabCons, slabProd, fq, rx, received, burst, processed,
                 txSide, destPc, collected>>

(* Faulty: the buffer goes to the consumer slab instead. *)
RxGiveBackToCons ==
  /\ rxPc = "back" /\ rxPc' = "process"
  /\ slabCons' = Append(slabCons, Current)
  /\ processed' = processed + 1
  /\ UNCHANGED <<pool, content, slabProd, fq, rx, received, burst, txSide, destination>>

\* bcache_prod, on the buffer the packet came in
RxGiveBack ==
  /\ rxPc = "back" /\ rxPc' = "process"
  /\ \/ /\ Len(slabProd) < SlabSize
        /\ slabProd' = Append(slabProd, Current)
        /\ UNCHANGED pool
     \/ /\ Len(slabProd) = SlabSize
        /\ slabProd' = <<Current>>
        /\ pool' = Append(pool, slabProd)
  /\ processed' = processed + 1
  /\ UNCHANGED <<content, slabCons, fq, rx, received, burst, txSide, destination>>

\* Release the receive ring, refill the fill ring from the end of slab_cons.
RxRefill ==
  LET left == Len(slabCons) - burst
  IN  /\ rxPc = "process" /\ rxPc' = "check"
      /\ processed = burst
      /\ rx' = SubSeq(rx, burst + 1, Len(rx))
      /\ fq' = fq \o Reverse(SubSeq(slabCons, left + 1, Len(slabCons)))
      /\ slabCons' = SubSeq(slabCons, 1, left)
      /\ burst' = 0 /\ processed' = 0
      /\ UNCHANGED <<pool, content, slabProd, received, txSide, destination>>

RxStep == RxCheck \/ RxPeek \/ RxDrop \/ RxQueue \/ RxGiveBack \/ RxRefill

-----------------------------------------------------------------------------
(* The transmit thread of the port *)

TxCollect(nPktsInCache) ==
  \E n \in 0..nPktsInCache :
    txBurst' = n /\ txPc' = IF n = 0 THEN "check" ELSE "complete"

\* bcache_cons_tx_check; then other ports' packets are collected, as many as
\* there are, but no more than there are buffers for.
TxCheck ==
  /\ txPc = "check"
  /\ \/ /\ slabConsTx # <<>>
        /\ TxCollect(AtMost(Len(slabConsTx), MaxBurstTx))
        /\ UNCHANGED <<pool, slabConsTx, lastTaken>>
     \/ /\ slabConsTx = <<>> /\ pool # <<>>
        /\ slabConsTx' = Last(pool) /\ pool' = Front(pool)
        /\ TxCollect(MaxBurstTx)
        /\ lastTaken' = Done
  /\ UNCHANGED <<content, rxSide, slabProdTx, sending, destination>>

\* bcache_prod_tx, on a buffer that the kernel has sent
TxComplete ==
  /\ txPc = "complete" /\ UNCHANGED txPc
  /\ sending # <<>> /\ sending' = Tail(sending)
  /\ \/ /\ Len(slabProdTx) < SlabSize
        /\ slabProdTx' = Append(slabProdTx, Head(sending))
        /\ UNCHANGED pool
     \/ /\ Len(slabProdTx) = SlabSize
        /\ slabProdTx' = <<Head(sending)>>
        /\ pool' = Append(pool, slabProdTx)
  /\ UNCHANGED <<content, rxSide, slabConsTx, txBurst, lastTaken, destination>>

(* Faulty: bcache_cons_tx takes its buffer from the receive thread's slab. *)
TxSendFromProd ==
  /\ txPc # "check" /\ txPc' = IF txBurst = 1 THEN "check" ELSE "send"
  /\ slabProd # <<>> /\ Len(sending) < TxSize + CompSize
  /\ content' = [content EXCEPT ![Last(slabProd)] = 0]
  /\ sending' = Append(sending, Last(slabProd)) /\ slabProd' = Front(slabProd)
  /\ txBurst' = txBurst - 1
  /\ UNCHANGED <<pool, slabCons, fq, rx, received, rxPc, burst, processed,
                 slabConsTx, slabProdTx, lastTaken, destination>>

\* There is room in the transmit ring, as the kernel moves buffers on to the
\* completion ring: bcache_cons_tx, and the memcpy of another port's packet.
TxSend ==
  /\ txPc # "check" /\ txPc' = IF txBurst = 1 THEN "check" ELSE "send"
  /\ Len(sending) < TxSize + CompSize
  /\ content' = [content EXCEPT ![Last(slabConsTx)] = 0]
  /\ sending' = Append(sending, Last(slabConsTx)) /\ slabConsTx' = Front(slabConsTx)
  /\ txBurst' = txBurst - 1
  /\ UNCHANGED <<pool, rxSide, slabProdTx, lastTaken, destination>>

TxStep == TxCheck \/ TxComplete \/ TxSend

-----------------------------------------------------------------------------
(* The transmit thread of the destination: SplitPort has its own buffers. *)

DestPull ==
  /\ destPc = "pull" /\ UNCHANGED destPc
  /\ queue # <<>> /\ Len(collected) < MaxBurstTx
  /\ collected' = Append(collected, Head(queue)) /\ queue' = Tail(queue)
  /\ UNCHANGED <<pool, content, rxSide, txSide>>

DestStart ==
  /\ destPc = "pull" /\ destPc' = "copy"
  /\ collected # <<>>
  /\ UNCHANGED <<pool, content, rxSide, txSide, queue, collected>>

\* memcpy from b->addr[i]
DestCopy ==
  /\ destPc = "copy"
  /\ destPc' = IF Len(collected) = 1 THEN "pull" ELSE "copy"
  /\ collected' = Tail(collected)
  /\ UNCHANGED <<pool, content, rxSide, txSide, queue>>

DestStep == DestPull \/ DestStart \/ DestCopy

-----------------------------------------------------------------------------
Next == KernelReceive \/ RxStep \/ TxStep \/ DestStep

Spec == Init /\ [][Next]_vars

-----------------------------------------------------------------------------
Waiting == ToSet(queue) \cup ToSet(collected)
Intact(e) == content[e.addr] = e.packet

(* A packet that waits is intact as long as its buffer has not left the     *)
(* producer slab it was given back to, that is, until that slab is full and *)
(* the buffer of one more packet comes.  Nothing longer can be relied on:   *)
(* the transmit thread of the port may take the slab, and write to it, as   *)
(* soon as it is in the pool.                                               *)
IntactUntilTraded ==
  \A e \in Waiting : e.packet > GivenBack - Len(slabProd) => Intact(e)

(* If the transmit thread of the port has taken no slab since the packet    *)
(* was queued, the buffer is not written to before the port has received    *)
(* two slabs full of other packets: it goes through a producer slab, the    *)
(* pool and a consumer slab, and the fill ring is a slab ahead.             *)
OverwrittenLate ==
  \A e \in Waiting :
    e.packet > lastTaken /\ received - e.packet <= 2 * SlabSize => Intact(e)

(* "process each packet and copy to per dest queue": the transmit thread    *)
(* copies the packet that was queued.                                       *)
SentAsQueued == destPc = "copy" => Intact(Head(collected))
=============================================================================
