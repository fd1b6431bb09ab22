---------------------------- MODULE BufferPool -----------------------------
(***************************************************************************)
(* mempool.h and port_rx_burst of the emulator: the buffer pool all ports  *)
(* share, the per-port buffer caches, and the receive side of each port    *)
(* (fill ring, receive ring and the worker that moves buffers between      *)
(* them).                                                                  *)
(*                                                                         *)
(* The pool is an array of pointers to slabs.  Its first nSlabsAvailable   *)
(* slots point to full slabs.  A cache owns two slabs: slabCons, whose     *)
(* first nCons entries are buffers to hand out, and slabProd, whose first  *)
(* nProd entries are buffers given back.  A cache trades an empty consumer *)
(* slab for a full one, and a full producer slab for an empty one, under   *)
(* the pool lock.                                                          *)
(*                                                                         *)
(* A call of a bcache function is one atomic step here.  The calls of      *)
(* different caches meet only in the trade, which the lock covers.  Of one *)
(* cache only the receive thread calls bcache_cons_check and bcache_cons,  *)
(* but both threads of the port call bcache_prod, and that reads and       *)
(* writes n_buffers_prod and slab_prod outside the lock.  So the module    *)
(* says what the code does as long as no two calls of bcache_prod on one   *)
(* cache overlap; what happens when they do is the subject of SlabRace.    *)
(*                                                                         *)
(* Buffers that left the receive side and did not come back yet (in packet *)
(* queues, transmit and completion rings) are the set inFlight.            *)
(***************************************************************************)
EXTENDS Integers, Sequences, FiniteSets

CONSTANTS
  NPorts,     \* n_ports
  NSlabs,     \* bp->n_slabs
  SlabSize,   \* params.n_buffers_per_slab
  FillSize,   \* umem_cfg.fill_size: capacity of a fill ring, filled at init
  RxSize,     \* xsk_cfg.rx_size: capacity of a receive ring
  MaxBurst    \* MAX_BURST_RX

ASSUME PoolAssumption ==
  /\ NPorts \in Nat \ {0}
  /\ NSlabs \in Nat \ {0} /\ NSlabs % 2 = 0
  /\ SlabSize \in Nat \ {0}
  /\ FillSize \in 1..SlabSize
  /\ RxSize \in Nat \ {0}
  /\ MaxBurst \in 1..SlabSize

\* What a port keeps in its consumer slab after filling its fill ring is, over
\* all ports, at most a slab (the default sizes are equal, so it is nothing).
ASSUME FillAssumption == NPorts * (SlabSize - FillSize) <= SlabSize

VARIABLES
  phase,            \* what main is doing: "init", "running", "stopping", "exited"
  nInit,            \* ports 0..nInit-1 went through port_init
  nFreed,           \* ports 0..nFreed-1 went through port_free
  slabs,            \* bp->slabs[]: the slab each slot points to
  nSlabsAvailable,  \* bp->n_slabs_available
  buffers,          \* bp->buffers[]: the addresses stored in each slab
  slabCons, nCons,  \* bc->slab_cons, bc->n_buffers_cons of each port
  slabProd, nProd,  \* bc->slab_prod, bc->n_buffers_prod of each port
  fq,               \* fill ring of each port, oldest first
  rx,               \* receive ring of each port, oldest first
  rxPc,             \* where the receive thread of each port is
  burst,            \* brx->addr[]: received addresses not processed yet
  inFlight          \* addresses handed to packet queues and transmit rings

pool == <<slabs, nSlabsAvailable, buffers>>
consumer == <<slabCons, nCons>>
producer == <<slabProd, nProd>>
rings == <<fq, rx>>
control == <<phase, nInit, nFreed>>
vars == <<pool, consumer, producer, rings, control, rxPc, burst, inFlight>>

Ports == 0..(NPorts - 1)
SlabIds == 0..(NSlabs - 1)
Entries == 0..(SlabSize - 1)
Addresses == SlabIds \X Entries

AtMost(m, n) == IF m < n THEN m ELSE n

-----------------------------------------------------------------------------
\* bpool_init: every slot points to its own full slab.
Init ==
  /\ phase = "init" /\ nInit = 0 /\ nFreed = 0
  /\ slabs = [i \in SlabIds |-> i]
  /\ nSlabsAvailable = NSlabs
  /\ buffers = [s \in SlabIds |-> [e \in Entries |-> <<s, e>>]]
  /\ slabCons = [p \in Ports |-> 0] /\ nCons = [p \in Ports |-> 0]
  /\ slabProd = [p \in Ports |-> 0] /\ nProd = [p \in Ports |-> 0]
  /\ fq = [p \in Ports |-> << >>]
  /\ rx = [p \in Ports |-> << >>]
  /\ rxPc = [p \in Ports |-> "check"]
  /\ burst = [p \in Ports |-> << >>]
  /\ inFlight = {}

(***************************************************************************)
(* port_init of the next port.  bcache_init takes the two topmost full     *)
(* slabs of the pool, one as consumer and one as producer slab; the        *)
(* buffers the latter held are forgotten.  bcache_cons then fills the fill *)
(* ring from the top of the consumer slab.                                 *)
(***************************************************************************)
PortInit ==
  LET p == nInit
      cons == slabs[nSlabsAvailable - 1]
  IN  /\ phase = "init" /\ nInit < NPorts
      /\ nSlabsAvailable # 0
      /\ slabCons' = [slabCons EXCEPT ![p] = cons]
      /\ slabProd' = [slabProd EXCEPT ![p] = slabs[nSlabsAvailable - 2]]
      /\ nProd' = [nProd EXCEPT ![p] = 0]
      /\ nSlabsAvailable' = nSlabsAvailable - 2
      /\ nCons' = [nCons EXCEPT ![p] = SlabSize - FillSize]
      /\ fq' = [fq EXCEPT ![p] =
                  [i \in 1..FillSize |-> buffers[cons][SlabSize - i]]]
      /\ nInit' = nInit + 1
      /\ UNCHANGED <<phase, nFreed, slabs, buffers, rx, rxPc, burst, inFlight>>

\* port_init fails: no slab is left, or the socket cannot be created (its two
\* slabs are given back at once).  main returns.
PortInitFails ==
  /\ phase = "init" /\ nInit < NPorts
  /\ phase' = "exited"
  /\ UNCHANGED <<nInit, nFreed, pool, consumer, producer, rings, rxPc, burst, inFlight>>

StartThreads ==
  /\ phase = "init" /\ nInit = NPorts
  /\ phase' = "running"
  /\ UNCHANGED <<nInit, nFreed, pool, consumer, producer, rings, rxPc, burst, inFlight>>

-----------------------------------------------------------------------------
\* The driver places a packet in the oldest buffer of the fill ring and the
\* buffer in the receive ring.
KernelReceive(p) ==
  /\ phase # "exited" /\ p < nInit /\ nFreed <= p
  /\ fq[p] # << >> /\ Len(rx[p]) < RxSize
  /\ rx' = [rx EXCEPT ![p] = Append(@, Head(fq[p]))]
  /\ fq' = [fq EXCEPT ![p] = Tail(@)]
  /\ UNCHANGED <<control, pool, consumer, producer, rxPc, burst, inFlight>>

At(p, from, to) == phase = "running" /\ rxPc[p] = from /\ rxPc' = [rxPc EXCEPT ![p] = to]

\* bcache_cons_check finds buffers in the consumer slab ...
RxCheckLocal(p) ==
  /\ nCons[p] > 0
  /\ At(p, "check", "peek")
  /\ UNCHANGED <<control, pool, consumer, producer, rings, burst, inFlight>>

(* Faulty: the slot of the pool still points to the slab handed out. *)
RxCheckTradeKeepsSlot(p) ==
  LET top == nSlabsAvailable - 1
  IN  /\ nCons[p] = 0 /\ nSlabsAvailable > 0
      /\ At(p, "check", "peek")
      /\ slabCons' = [slabCons EXCEPT ![p] = slabs[top]]
      /\ nSlabsAvailable' = top
      /\ nCons' = [nCons EXCEPT ![p] = SlabSize]
      /\ UNCHANGED <<control, slabs, buffers, producer, rings, burst, inFlight>>

(* Faulty: the empty slab put into the pool still counts as a full one. *)
RxCheckTradeKeepsCount(p) ==
  LET top == nSlabsAvailable - 1
  IN  /\ nCons[p] = 0 /\ nSlabsAvailable > 0
      /\ At(p, "check", "peek")
      /\ slabCons' = [slabCons EXCEPT ![p] = slabs[top]]
      /\ slabs' = [slabs EXCEPT ![top] = slabCons[p]]
      /\ nCons' = [nCons EXCEPT ![p] = SlabSize]
      /\ UNCHANGED <<control, nSlabsAvailable, buffers, producer, rings, burst, inFlight>>

\* ... or trades the empty consumer slab for a full one of the pool.  With an
\* empty pool port_rx_burst gives up and the thread tries again.
RxCheckTrade(p) ==
  LET top == nSlabsAvailable - 1
  IN  /\ nCons[p] = 0 /\ nSlabsAvailable > 0
      /\ At(p, "check", "peek")
      /\ slabCons' = [slabCons EXCEPT ![p] = slabs[top]]
      /\ slabs' = [slabs EXCEPT ![top] = slabCons[p]]
      /\ nSlabsAvailable' = top
      /\ nCons' = [nCons EXCEPT ![p] = SlabSize]
      /\ UNCHANGED <<control, buffers, producer, rings, burst, inFlight>>

(* Faulty: takes packets without looking at the buffers left to refill with. *)
RxPeekUnlimited(p) ==
  LET n == AtMost(MaxBurst, Len(rx[p]))
  IN  /\ At(p, "peek", IF n = 0 THEN "check" ELSE "refill")
      /\ burst' = [burst EXCEPT ![p] = SubSeq(rx[p], 1, n)]
      /\ rx' = [rx EXCEPT ![p] = SubSeq(@, n + 1, Len(@))]
      /\ UNCHANGED <<control, pool, consumer, producer, fq, inFlight>>

\* Take up to a burst of packets, never more than there are buffers to refill with.
RxPeek(p) ==
  LET n == AtMost(AtMost(nCons[p], MaxBurst), Len(rx[p]))
  IN  /\ At(p, "peek", IF n = 0 THEN "check" ELSE "refill")
      /\ burst' = [burst EXCEPT ![p] = SubSeq(rx[p], 1, n)]
      /\ rx' = [rx EXCEPT ![p] = SubSeq(@, n + 1, Len(@))]
      /\ UNCHANGED <<control, pool, consumer, producer, fq, inFlight>>

(* Faulty: hands buffers to the kernel and keeps them in the consumer slab. *)
RxRefillKeeps(p) ==
  LET n == Len(burst[p])
      fresh == [i \in 1..n |-> buffers[slabCons[p]][nCons[p] - i]]
  IN  /\ Len(fq[p]) + n <= FillSize
      /\ At(p, "refill", "process")
      /\ fq' = [fq EXCEPT ![p] = @ \o fresh]
      /\ UNCHANGED <<control, pool, consumer, producer, rx, burst, inFlight>>

\* Once the fill ring has room (the thread spins until then), one fresh
\* buffer per received packet goes to the kernel.
RxRefill(p) ==
  LET n == Len(burst[p])
      fresh == [i \in 1..n |-> buffers[slabCons[p]][nCons[p] - i]]
  IN  /\ Len(fq[p]) + n <= FillSize
      /\ At(p, "refill", "process")
      /\ fq' = [fq EXCEPT ![p] = @ \o fresh]
      /\ nCons' = [nCons EXCEPT ![p] = @ - n]
      /\ UNCHANGED <<control, pool, slabCons, producer, rx, burst, inFlight>>

(* Faulty: stores one buffer past the end of a full producer slab. *)
BcacheProdPastEnd(p, b) ==
  \/ /\ nProd[p] <= SlabSize
     /\ buffers' = [buffers EXCEPT ![slabProd[p]][nProd[p]] = b]
     /\ nProd' = [nProd EXCEPT ![p] = @ + 1]
     /\ UNCHANGED <<slabs, nSlabsAvailable, slabProd>>
  \/ LET empty == slabs[nSlabsAvailable]
     IN  /\ nProd[p] > SlabSize
         /\ slabs' = [slabs EXCEPT ![nSlabsAvailable] = slabProd[p]]
         /\ nSlabsAvailable' = nSlabsAvailable + 1
         /\ buffers' = [buffers EXCEPT ![empty][0] = b]
         /\ slabProd' = [slabProd EXCEPT ![p] = empty]
         /\ nProd' = [nProd EXCEPT ![p] = 1]

\* bcache_prod: give address b back through the cache of port p.
BcacheProd(p, b) ==
  \/ /\ nProd[p] < SlabSize
     /\ buffers' = [buffers EXCEPT ![slabProd[p]][nProd[p]] = b]
     /\ nProd' = [nProd EXCEPT ![p] = @ + 1]
     /\ UNCHANGED <<slabs, nSlabsAvailable, slabProd>>
  \/ LET empty == slabs[nSlabsAvailable]
     IN  /\ nProd[p] >= SlabSize
         /\ slabs' = [slabs EXCEPT ![nSlabsAvailable] = slabProd[p]]
         /\ nSlabsAvailable' = nSlabsAvailable + 1
         /\ buffers' = [buffers EXCEPT ![empty][0] = b]
         /\ slabProd' = [slabProd EXCEPT ![p] = empty]
         /\ nProd' = [nProd EXCEPT ![p] = 1]

\* The thread is done with the oldest packet of its burst.
Processed(p) ==
  /\ burst[p] # << >>
  /\ burst' = [burst EXCEPT ![p] = Tail(@)]
  /\ At(p, "process", IF Len(burst[p]) = 1 THEN "check" ELSE "process")

\* The packet is pushed to a queue of a transmit thread.
RxForward(p) ==
  /\ Processed(p)
  /\ inFlight' = inFlight \cup {Head(burst[p])}
  /\ UNCHANGED <<control, pool, consumer, producer, rings>>

\* The queue is full, or the packet is not to be forwarded: its buffer is freed.
RxDrop(p) ==
  /\ Processed(p)
  /\ BcacheProd(p, Head(burst[p]))
  /\ UNCHANGED <<control, consumer, rings, inFlight>>

\* The packet is for another node, or there is no queue: the buffer is forgotten.
RxForget(p) ==
  /\ Processed(p)
  /\ UNCHANGED <<control, pool, consumer, producer, rings, inFlight>>

\* The transmit thread of port p finds address b in the completion ring.
TxComplete(p, b) ==
  /\ phase = "running" /\ b \in inFlight
  /\ inFlight' = inFlight \ {b}
  /\ BcacheProd(p, b)
  /\ UNCHANGED <<control, consumer, rings, rxPc, burst>>

-----------------------------------------------------------------------------
\* main sets the quit flags; a receive thread leaves at the head of its loop.
JoinThreads ==
  /\ phase = "running" /\ \A p \in Ports : rxPc[p] = "check"
  /\ phase' = "stopping"
  /\ UNCHANGED <<nInit, nFreed, pool, consumer, producer, rings, rxPc, burst, inFlight>>

\* port_free of the next port: bcache_free only counts its two slabs as available.
PortFree ==
  /\ phase = "stopping" /\ nFreed < nInit
  /\ nFreed' = nFreed + 1
  /\ nSlabsAvailable' = nSlabsAvailable + 2
  /\ UNCHANGED <<phase, nInit, slabs, buffers, consumer, producer, rings, rxPc, burst, inFlight>>

Next ==
  \/ PortInit \/ PortInitFails \/ StartThreads \/ JoinThreads \/ PortFree
  \/ \E p \in Ports :
       \/ KernelReceive(p)
       \/ RxCheckLocal(p) \/ RxCheckTrade(p) \/ RxPeek(p) \/ RxRefill(p)
       \/ RxForward(p) \/ RxDrop(p) \/ RxForget(p)
       \/ \E b \in inFlight : TxComplete(p, b)

Spec == Init /\ [][Next]_vars

-----------------------------------------------------------------------------
(* Each variable has the type its C declaration and the code give it. *)
TypeOK ==
  /\ phase \in {"init", "running", "stopping", "exited"}
  /\ nInit \in 0..NPorts /\ nFreed \in 0..nInit
  /\ slabs \in [SlabIds -> SlabIds]
  /\ nSlabsAvailable \in 0..NSlabs
  /\ buffers \in [SlabIds -> [Entries -> Addresses]]
  /\ slabCons \in [Ports -> SlabIds] /\ nCons \in [Ports -> 0..SlabSize]
  /\ slabProd \in [Ports -> SlabIds] /\ nProd \in [Ports -> 0..SlabSize]
  /\ fq \in [Ports -> Seq(Addresses)] /\ rx \in [Ports -> Seq(Addresses)]
  /\ rxPc \in [Ports -> {"check", "peek", "refill", "process"}]
  /\ burst \in [Ports -> Seq(Addresses)]
  /\ inFlight \in SUBSET Addresses

\* Slots of bp->slabs[] that still belong to the pool, not to a cache
PoolSlots == NSlabs - 2 * nInit

(* bcache_prod trades a full producer slab for slabs[n_slabs_available]      *)
(* without looking: "it is guaranteed that there is at least one empty slab  *)
(* available in the pool" (mempool.h:173-179).  Whenever a buffer is about   *)
(* to come back to a full producer slab, that slot is one of the pool's.     *)
EmptySlabAvailable ==
  \A p \in Ports :
    phase = "running" /\ nProd[p] = SlabSize
    /\ (inFlight # {} \/ (rxPc[p] = "process" /\ burst[p] # << >>))
      => nSlabsAvailable < PoolSlots

(* A slab is in one slot of the pool or is one slab of one cache: no trade   *)
(* ever duplicates or loses a slab pointer.                                  *)
SlabPartition ==
  phase \in {"init", "running"} =>
    /\ \A i, j \in 0..(PoolSlots - 1) : slabs[i] = slabs[j] => i = j
    /\ \A p, q \in 0..(nInit - 1) :
         /\ slabCons[p] = slabCons[q] => p = q
         /\ slabProd[p] = slabProd[q] => p = q
         /\ slabCons[p] # slabProd[q]
    /\ \A i \in 0..(PoolSlots - 1), p \in 0..(nInit - 1) :
         slabs[i] # slabCons[p] /\ slabs[i] # slabProd[p]

(* The fill ring always has room for the refill of a burst, so the loop      *)
(* around xsk_ring_prod__reserve never spins: kernel and thread together     *)
(* hold exactly FillSize buffers of the port's receive side.                 *)
RefillNeverSpins ==
  \A p \in Ports : rxPc[p] = "refill" =>
    /\ Len(fq[p]) + Len(burst[p]) <= FillSize
    /\ Len(burst[p]) <= nCons[p]

(* port_init of every port the program was started with finds two full slabs *)
(* in the pool.  README.md:60 starts it with 8 namespaces and 8 NIC queues   *)
(* ("120 8 8"): 16 ports on the 64 * 1024 / 4096 slabs of the default pool.  *)
EveryPortFindsSlabs ==
  phase = "init" /\ nInit < NPorts => nSlabsAvailable >= 2

\* The places a usable buffer can be in, and the address at each
SlabPlaces ==
  {<<slabs[i], e>> : i \in 0..(nSlabsAvailable - 1), e \in Entries}
  \cup (UNION {{<<slabCons[p], e>> : e \in 0..(nCons[p] - 1)} : p \in 0..(nInit - 1)})
  \cup (UNION {{<<slabProd[p], e>> : e \in 0..(nProd[p] - 1)} : p \in 0..(nInit - 1)})
SlabAddress(x) == buffers[x[1]][x[2]]

Elements(s) == {s[i] : i \in 1..Len(s)}
PortAddresses(p) == Elements(fq[p]) \cup Elements(rx[p]) \cup Elements(burst[p])

(* No buffer is in two places: an address stored in a live slab entry is in  *)
(* no other entry, ring, burst or queue, so no two packets share a frame.    *)
NoBufferTwice ==
  phase \in {"init", "running"} =>
    /\ \A x, y \in SlabPlaces : SlabAddress(x) = SlabAddress(y) => x = y
    /\ \A x \in SlabPlaces : SlabAddress(x) \notin inFlight
    /\ \A p \in Ports :
         /\ PortAddresses(p) \cap inFlight = {}
         /\ Cardinality(PortAddresses(p)) = Len(fq[p]) + Len(rx[p]) + Len(burst[p])
         /\ \A x \in SlabPlaces : SlabAddress(x) \notin PortAddresses(p)
         /\ \A q \in Ports \ {p} : PortAddresses(p) \cap PortAddresses(q) = {}

\* The first k buffers of slab s
Contents(s, k) == [i \in 1..k |-> buffers[s][i - 1]]

\* The pool's full slabs (port_free only counts slabs, it puts none into the pool),
\* what the caches have left and have got back, and what is with threads or kernel
FullSlabs == [i \in 1..(nSlabsAvailable - 2 * nFreed) |-> Contents(slabs[i - 1], SlabSize)]
Stock == [p \in Ports |-> Contents(slabCons[p], nCons[p])]
Collected == [p \in Ports |-> Contents(slabProd[p], nProd[p])]
HandedOut == inFlight \cup UNION {PortAddresses(p) : p \in Ports}

Calls == INSTANCE SlabCache
           WITH Caches <- Ports, full <- FullSlabs, cons <- Stock, prod <- Collected,
                out <- HandedOut

(* What the caches hand out and take back, and what the pool holds, is what  *)
(* stacks of separate slabs would: no trade of pointers changes a slab that  *)
(* another cache or the pool holds, and only buffers handed out come back.   *)
ImplementsCalls == Calls!Spec
=============================================================================
