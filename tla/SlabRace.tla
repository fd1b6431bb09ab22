------------------------------ MODULE SlabRace -----------------------------
(***************************************************************************)
(* bcache_prod, access by access, when several threads give buffers back.  *)
(*                                                                         *)
(* In the emulator the receive and the transmit thread of a port work on   *)
(* the same bcache: the receive thread gives back the buffers of packets   *)
(* it drops, the transmit thread those it finds in the completion ring.    *)
(* The pool's lock covers the trade of a full producer slab only; reads    *)
(* and writes of n_buffers_prod and slab_prod are outside of it and not    *)
(* atomic.  The multi-pool variant gives the transmit thread a consumer    *)
(* and a producer slab of its own (bcache_prod_tx, bcache_cons_tx), with   *)
(* the same code.  HalfOf says which pair of slabs a thread works on:      *)
(* one half for both threads, or one half each.                            *)
(*                                                                         *)
(* The fill ring's share of the buffers is left out: a refill exchanges    *)
(* buffers one for one.                                                    *)
(***************************************************************************)
EXTENDS Integers, FiniteSets

CONSTANTS
  Threads,    \* threads of one port
  HalfOf,     \* the half of the bcache each thread uses
  Takers,     \* threads that also take buffers from the pool
  PoolSlots,  \* full slabs the port's initialisation leaves in the pool
  SlabSize    \* params.n_buffers_per_slab

Halves == {HalfOf[t] : t \in Threads}
NSlabs == PoolSlots + 2 * Cardinality(Halves)

\* What the slabs of one port look like; MCSharedAccess assumes it of its instance.
RaceParameters ==
  /\ HalfOf \in [Threads -> Nat] /\ Halves = 0..(Cardinality(Halves) - 1)
  /\ Takers \subseteq Threads
  /\ PoolSlots \in Nat \ {0} /\ SlabSize \in Nat \ {0}

VARIABLES
  slabs,            \* bp->slabs[]
  nSlabsAvailable,  \* bp->n_slabs_available
  buffers,          \* bp->buffers[]: the addresses stored in each slab
  slabCons, nCons,  \* slab_cons and n_buffers_cons of each half
  slabProd, nProd,  \* slab_prod and n_buffers_prod of each half
  out,              \* how often each buffer is out, per half it comes back to
  pc,               \* where each thread is in bcache_prod
  buffer,           \* its argument
  n,                \* its local n_buffers_prod
  slabEmpty         \* its local slab_empty

consumer == <<slabCons, nCons>>
vars == <<slabs, nSlabsAvailable, buffers, consumer, slabProd, nProd, out,
          pc, buffer, n, slabEmpty>>

SlabIds == 0..(NSlabs - 1)
Entries == 0..(SlabSize - 1)
Addresses == SlabIds \X Entries

\* bcache_init: the slabs of a half are taken from the top of the pool
ConsAtInit(h) == NSlabs - 1 - 2 * h
ProdAtInit(h) == NSlabs - 2 - 2 * h

Init ==
  /\ slabs = [i \in SlabIds |-> i]
  /\ nSlabsAvailable = PoolSlots
  /\ buffers = [s \in SlabIds |-> [e \in Entries |-> <<s, e>>]]
  /\ slabCons = [h \in Halves |-> ConsAtInit(h)]
  /\ slabProd = [h \in Halves |-> ProdAtInit(h)] /\ nProd = [h \in Halves |-> 0]
  \* the consumer slab of half 0 has gone to the fill ring
  /\ nCons = [h \in Halves |-> IF h = 0 THEN 0 ELSE SlabSize]
  /\ out = [h \in Halves |-> [b \in Addresses |-> 0]]
  /\ pc = [t \in Threads |-> "idle"]
  /\ buffer = [t \in Threads |-> <<0, 0>>]
  /\ n = [t \in Threads |-> 0]
  /\ slabEmpty = [t \in Threads |-> 0]

Goto(t, from, to) == pc[t] = from /\ pc' = [pc EXCEPT ![t] = to]

\* bcache_cons_check trades an empty consumer slab for a full one.
ConsCheckTrade(t) ==
  LET h == HalfOf[t]
  IN  /\ t \in Takers /\ nCons[h] = 0 /\ nSlabsAvailable > 0
      /\ Goto(t, "idle", "idle")
      /\ slabs' = [slabs EXCEPT ![nSlabsAvailable - 1] = slabCons[h]]
      /\ nSlabsAvailable' = nSlabsAvailable - 1
      /\ slabCons' = [slabCons EXCEPT ![h] = slabs[nSlabsAvailable - 1]]
      /\ nCons' = [nCons EXCEPT ![h] = SlabSize]
      /\ UNCHANGED <<buffers, slabProd, nProd, out, buffer, n, slabEmpty>>

\* bcache_cons takes the last buffer of the consumer slab.
Cons(t) ==
  LET h == HalfOf[t]
  IN  /\ t \in Takers /\ nCons[h] > 0
      /\ Goto(t, "idle", "idle")
      /\ nCons' = [nCons EXCEPT ![h] = @ - 1]
      /\ out' = [out EXCEPT ![h][buffers[slabCons[h]][nCons[h] - 1]] = @ + 1]
      /\ UNCHANGED <<slabs, nSlabsAvailable, buffers, slabCons, slabProd, nProd,
                     buffer, n, slabEmpty>>

(* Faulty: a full producer slab counts as one with room. *)
CallPastEnd(t, b) ==
  LET h == HalfOf[t]
  IN  /\ out[h][b] > 0
      /\ Goto(t, "idle", IF nProd[h] <= SlabSize THEN "store" ELSE "trade")
      /\ out' = [out EXCEPT ![h][b] = @ - 1]
      /\ buffer' = [buffer EXCEPT ![t] = b]
      /\ n' = [n EXCEPT ![t] = nProd[h]]
      /\ UNCHANGED <<slabs, nSlabsAvailable, buffers, consumer, slabProd, nProd, slabEmpty>>

\* A call of bcache_prod reads n_buffers_prod (the store path and the trade
\* path depend on this value only).
Call(t, b) ==
  LET h == HalfOf[t]
  IN  /\ out[h][b] > 0
      /\ Goto(t, "idle", IF nProd[h] < SlabSize THEN "store" ELSE "trade")
      /\ out' = [out EXCEPT ![h][b] = @ - 1]
      /\ buffer' = [buffer EXCEPT ![t] = b]
      /\ n' = [n EXCEPT ![t] = nProd[h]]
      /\ UNCHANGED <<slabs, nSlabsAvailable, buffers, consumer, slabProd, nProd, slabEmpty>>

\* bc->slab_prod[n_buffers_prod] = buffer
Store(t) ==
  /\ Goto(t, "store", "count")
  /\ buffers' = [buffers EXCEPT ![slabProd[HalfOf[t]]][n[t]] = buffer[t]]
  /\ UNCHANGED <<slabs, nSlabsAvailable, consumer, slabProd, nProd, out, buffer, n, slabEmpty>>

(* Faulty: the count is not stored back. *)
CountForgotten(t) ==
  /\ Goto(t, "count", "idle")
  /\ UNCHANGED <<slabs, nSlabsAvailable, buffers, consumer, slabProd, nProd, out,
                 buffer, n, slabEmpty>>

\* bc->n_buffers_prod = n_buffers_prod + 1
Count(t) ==
  /\ Goto(t, "count", "idle")
  /\ nProd' = [nProd EXCEPT ![HalfOf[t]] = n[t] + 1]
  /\ UNCHANGED <<slabs, nSlabsAvailable, buffers, consumer, slabProd, out, buffer, n, slabEmpty>>

\* The critical section of bcache_prod (bound: the array has NSlabs slots)
Trade(t) ==
  /\ nSlabsAvailable < NSlabs
  /\ Goto(t, "trade", "first")
  /\ slabEmpty' = [slabEmpty EXCEPT ![t] = slabs[nSlabsAvailable]]
  /\ slabs' = [slabs EXCEPT ![nSlabsAvailable] = slabProd[HalfOf[t]]]
  /\ nSlabsAvailable' = nSlabsAvailable + 1
  /\ UNCHANGED <<buffers, consumer, slabProd, nProd, out, buffer, n>>

\* slab_empty[0] = buffer
StoreFirst(t) ==
  /\ Goto(t, "first", "adopt")
  /\ buffers' = [buffers EXCEPT ![slabEmpty[t]][0] = buffer[t]]
  /\ UNCHANGED <<slabs, nSlabsAvailable, consumer, slabProd, nProd, out, buffer, n, slabEmpty>>

(* Faulty: goes on with the slab it has just put into the pool. *)
AdoptForgotten(t) ==
  /\ Goto(t, "adopt", "restart")
  /\ UNCHANGED <<slabs, nSlabsAvailable, buffers, consumer, slabProd, nProd, out,
                 buffer, n, slabEmpty>>

\* bc->slab_prod = slab_empty
Adopt(t) ==
  /\ Goto(t, "adopt", "restart")
  /\ slabProd' = [slabProd EXCEPT ![HalfOf[t]] = slabEmpty[t]]
  /\ UNCHANGED <<slabs, nSlabsAvailable, buffers, consumer, nProd, out, buffer, n, slabEmpty>>

(* Faulty: the count still says the producer slab is full. *)
RestartForgotten(t) ==
  /\ Goto(t, "restart", "idle")
  /\ UNCHANGED <<slabs, nSlabsAvailable, buffers, consumer, slabProd, nProd, out,
                 buffer, n, slabEmpty>>

\* bc->n_buffers_prod = 1
Restart(t) ==
  /\ Goto(t, "restart", "idle")
  /\ nProd' = [nProd EXCEPT ![HalfOf[t]] = 1]
  /\ UNCHANGED <<slabs, nSlabsAvailable, buffers, consumer, slabProd, out, buffer, n, slabEmpty>>

Next ==
  \E t \in Threads :
    \/ ConsCheckTrade(t) \/ Cons(t)
    \/ \E b \in Addresses : Call(t, b)
    \/ Store(t) \/ Count(t)
    \/ Trade(t) \/ StoreFirst(t) \/ Adopt(t) \/ Restart(t)

Spec == Init /\ [][Next]_vars

-----------------------------------------------------------------------------
(* Every index is inside its array and every thread inside bcache_prod. *)
TypeOK ==
  /\ slabs \in [SlabIds -> SlabIds]
  /\ nSlabsAvailable \in 0..NSlabs
  /\ buffers \in [SlabIds -> [Entries -> Addresses]]
  /\ slabCons \in [Halves -> SlabIds] /\ slabProd \in [Halves -> SlabIds]
  /\ nCons \in [Halves -> 0..SlabSize] /\ nProd \in [Halves -> 0..SlabSize]
  /\ out \in [Halves -> [Addresses -> Nat]]
  /\ pc \in [Threads -> {"idle", "store", "count", "trade", "first", "adopt", "restart"}]
  /\ buffer \in [Threads -> Addresses]
  /\ n \in [Threads -> 0..SlabSize]
  /\ slabEmpty \in [Threads -> SlabIds]

\* Threads that have traded and not yet adopted the empty slab
Trading == {t \in Threads : pc[t] \in {"first", "adopt"}}

\* The slabs whose contents still matter
InUse ==
  {slabs[i] : i \in 0..(nSlabsAvailable - 1)}
    \cup {slabCons[h] : h \in {k \in Halves : nCons[k] > 0}}
    \cup {slabProd[h] : h \in Halves \ {HalfOf[t] : t \in Trading}}
    \cup {slabEmpty[t] : t \in Trading}

(* "As one full slab exists in the cache, it is guaranteed that there is at  *)
(* least one empty slab available in the pool" (mempool.h:173-179): a thread *)
(* about to trade its full producer slab finds in the pool a slab that       *)
(* nobody else works on.                                                     *)
EmptySlabAvailable ==
  \A t \in Threads : pc[t] = "trade" =>
    nSlabsAvailable < PoolSlots /\ slabs[nSlabsAvailable] \notin InUse

\* The buffers that go round: all but those the producer slabs had at the
\* beginning and those of the fill ring
Circulating == {b \in Addresses : b[1] < PoolSlots \/ \E h \in Halves \ {0} : b[1] = ConsAtInit(h)}

InPool(b) ==
  Cardinality({x \in (0..(nSlabsAvailable - 1)) \X Entries : buffers[slabs[x[1]]][x[2]] = b})
InCons(b) ==
  Cardinality({x \in Halves \X Entries : x[2] < nCons[x[1]] /\ buffers[slabCons[x[1]]][x[2]] = b})
InProd(b) ==
  Cardinality({x \in Halves \X Entries : x[2] < nProd[x[1]] /\ buffers[slabProd[x[1]]][x[2]] = b})
OutIn(b) == {h \in Halves : out[h][b] > 0}

(* While no thread is inside bcache_prod, every buffer is in exactly one     *)
(* place: none was lost by an overwritten entry or an abandoned slab, and    *)
(* none can be handed to two packets because its slab is in the pool twice.  *)
EachBufferOnce ==
  (\A t \in Threads : pc[t] = "idle") =>
    \A b \in Circulating :
      /\ InPool(b) + InCons(b) + InProd(b) + Cardinality(OutIn(b)) = 1
      /\ \A h \in Halves : out[h][b] <= 1

\* The first k buffers of slab s
Contents(s, k) == [i \in 1..k |-> buffers[s][i - 1]]

FullSlabs == [i \in 1..nSlabsAvailable |-> Contents(slabs[i - 1], SlabSize)]
Stock == [h \in Halves |-> Contents(slabCons[h], nCons[h])]

\* A full slab joins the pool with the trade; what starts the next one is a
\* buffer still in the thread's hand.
Collected ==
  [h \in Halves |->
     LET late == {t \in Threads : HalfOf[t] = h /\ pc[t] \in {"first", "adopt", "restart"}}
     IN  IF late # {} THEN <<buffer[CHOOSE t \in late : TRUE]>>
         ELSE Contents(slabProd[h], nProd[h])]

\* Buffers out, and those in a call that has had no effect yet
HandedOut ==
  {b \in Addresses : \E h \in Halves : out[h][b] > 0}
    \cup {buffer[t] : t \in {u \in Threads : pc[u] \in {"store", "count", "trade"}}}

Calls == INSTANCE SlabCache
           WITH Caches <- Halves, full <- FullSlabs, cons <- Stock, prod <- Collected,
                out <- HandedOut

(* A call of bcache_prod is as good as a single step, although only its      *)
(* trade is under the lock: it takes effect when n_buffers_prod is written   *)
(* or, with a full producer slab, when that is traded.                       *)
ImplementsCalls == Calls!Spec
=============================================================================
