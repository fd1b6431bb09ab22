# A TLA+ model of the Opera emulator's packet path

The repository emulates an optically switched (Opera) network on ordinary hosts. On every host
a user-space program sits between the NIC and the virtual interfaces of a few network
namespaces, and forwards packets with AF_XDP sockets. It grew from one file (`opera-v4`,
`opera-v5`) through a port to the Corundum NIC (`v4-corundum`, `v5-*`) to a version with
private pools (`v6-multi-pool`) and the present one, `v8-delay`. These modules model `v8-delay`;
the ports and the transit queues of `v6-multi-pool`, which move buffers in another way; the ring
buffer of `opera-v4` and `v5-mpsc`; and the multi-producer queue of `v5-mpsc`.

The hard part of the program is not what it does to a packet but who owns a packet buffer:
worker threads spin on their own cores, share lock-free queues, share one pool of buffers with
a lock around part of its operations, and share rings with the kernel.

## The system

| Component | State | Operations | Interacts with |
|---|---|---|---|
| Packet queue `mpmc_queue.c` | head, tail, one sequence number and one pointer per cell | init, push, pull, available | receive threads push, transmit threads pull |
| Buffer pool `mempool.h` (`bpool`) | array of slab pointers, number of full slabs, lock | init, trade full for empty and back | all caches |
| Buffer cache `mempool.h` (`bcache`), one per port | a consumer and a producer slab with their counts | init, cons_check, cons, prod, free | both threads of a port, the pool |
| Port `mempool.h`, `thread_functions_1.h` | four rings shared with the kernel | port_init, port_rx_burst, port_tx_burst_collector, port_free | kernel, cache, worker threads |
| Worker threads `thread_functions_1.h` | current burst, collector | four thread functions: NIC and veth, receive and transmit | ports, queues |
| Packet processing `thread_functions_1.h` | the packet, `ret_val` | encapsulate, decapsulate, reject, mark as not local | address tables, receive threads |
| Address tables `map.c` | array of key and value, 0 marks a free entry | init, get, add, set, del | filled by `main`, read by receive threads |
| Port of `v6-multi-pool` (`mempool.h`, `thread_functions.h`) | a pool, a cache with two pairs of slabs, four rings | cons_check, cons, prod and their `_tx` forms, receive and transmit bursts | its two threads, kernel |
| Transit path of `v6-multi-pool` (`thread_functions.h`) | a packet queue and a transit queue of addresses per destination | take an address, queue the packet, copy it, put the address back | receive threads of all ports, the transmit thread of the destination; through the pool, the transmit thread of the port a packet came in at |
| Start-up and shutdown `sw_corundum_1.c`, `plumbing.h` | quit flags, ports, threads | create, wire, wait, quit, join, free | everything |
| Kernel programs `nic_kern.c`, `veth_kern.c` | XSK maps | redirect to a socket | kernel |
| Ring buffer `ringbuffer.h` of `opera-v4` and `v5-mpsc` | producer and consumer head and tail | enqueue, dequeue | threads of those versions |
| Multi-producer queue `v5-mpsc/mpsc.c` | count, head, tail, cells | enqueue, dequeue | nothing: no caller |
| Time-slot routing of v4 and v5 | current topology, route table | read_time, getRouteElement | receive and transmit threads |

The rest of the repository is not part of the program: `lib`, `headers` and `include` are
vendored (libbpf, xdp-tools, kernel headers); `opera-setup*`, `docker-setup`,
`measurements` and `opera-test-tools` are scripts and traffic generators; `opera-mempool` is a
prototype of the pool.

What makes each part hard, and correct:

* Packet queue: several producers and consumers with plain stores to a cell's pointer between
  atomic accesses; counters that wrap. Correct when it is a bounded FIFO, a cell has one owner,
  a refusal is honest.
* Pool and caches: pointers to slabs move between caches and pool with no bound check. Correct
  when slabs and buffers are never duplicated or lost and the unchecked index is in range.
* Caches with two threads: the lock covers the trade but not the count and the slab pointer.
* Port of v6: each thread gives buffers back to slabs of its own, but takes them from one pool, and
  the transmit thread reads the completion ring only after it has found a slab. Correct when no
  buffer is lost and neither thread can be left without a slab.
* Transit path of v6: what is queued is an address in a buffer the receive thread gives back at
  once, to a pool from which both threads of the port take slabs to write to. Correct while the
  buffer is not written to before the destination has copied it. The transit queue is filled to its
  last cell, so it can refuse a token that comes back. Correct when a destination keeps a token, and
  a packet with a token is not refused.
* Ring buffer: two threads share plain loads and stores only; each checks first and ignores what the
  call then returns. Correct when the answer still holds at the call, and the ring is a FIFO.
* Multi-producer queue `mpsc.c`: room is reserved before a cell is claimed, and given back after the
  cell was emptied. Correct when the asserts hold and the queue is a FIFO.
* Worker threads and kernel: buffers wait in rings that are read only on some occasions.
  Correct when no thread spins forever and no port starves while buffers exist.

`PROJECT.json` lists each hazard at its line, and the properties aimed at it.

## Modules

| Module | Models | Extended or instantiated by |
|---|---|---|
| `BoundedFifo` | what a queue of pointers promises (abstract) | `MpmcQueue`, `SpscRing`, `MpscQueue` |
| `MpmcQueue` | `v8-delay/mpmc_queue.c`, one atomic access per action | `MpmcQueueProofs`, `MCMpmcQueue` |
| `SlabCache` | what the calls of `mempool.h` promise (abstract) | `BufferPool`, `SlabRace` |
| `BufferPool` | pool, caches, port_init, port_rx_burst, shutdown; a cache call per action | `BufferPoolProofs`, `MCBufferPools`, `MCBufferPool` |
| `SlabRace` | `bcache_prod` one access per action, two threads of a port | `MCSlabRace`, `MCSharedAccess` |
| `PacketPath` | ports, threads, queues, rings and kernel composed, counted in buffers | `PacketPathProofs`, `MCPacketPath` |
| `SplitPort` | a port of `v6-multi-pool`, counted in buffers | `SplitPortProofs`, `MCSplitPort` |
| `TransitPath` | the buffers of a port of `v6-multi-pool`, one by one, while its packets wait at a destination | `MCTransitPath`, `TransitPathProofs` |
| `TransitTokens` | the transit queue and packet queue of one destination, with cells claimed and released | `MCTransitPath` |
| `SpscRing` | `ringbuffer.h`, one shared access per action | `SpscRingProofs`, `MCSpscRing`, `MCSharedAccess` |
| `MpscQueue` | `v5-mpsc/mpsc.c`, one atomic access per action | `MCSharedAccess` |
| `DataLemmas` | lemmas about positions that wrap, queues written as functions, and sums over finite sets | the proof modules |
| `MpmcQueueProofs`, `BufferPoolProofs`, `PacketPathProofs`, `SplitPortProofs`, `TransitPathProofs`, `SpscRingProofs` | theorems about the module in the name | |
| `SharedAccessProofs` | theorems about `SlabRace` and `MpscQueue`, as `MCSharedAccess` instantiates them | |

The three levels of detail meet at the cache call and the queue call. `MpmcQueue` justifies
one atomic step per queue call (it refines `BoundedFifo`, and a refused push or an empty pull
is honest). `SlabRace` with a slab pair per thread justifies one atomic step per cache call: it
refines `SlabCache`, as `BufferPool` does, which takes a call in one step. With a shared pair it
shows the step is not atomic in `v8-delay`, so what `BufferPool` and
`PacketPath` say of `v8-delay` holds as far as the two threads of a port do not collide inside
`bcache_prod`. `SplitPort` and `TransitPath`, whose caches have a pair per thread, are not limited
in this way.

### BoundedFifo

A sequence `items` of at most `Capacity` pointers, and the last pointer each consumer got. Three
implementations refine it: `MpmcQueue`, `SpscRing` and `MpscQueue`. Each has a mapping that says
when an enqueue and a dequeue take effect: in `MpmcQueue` at the two compare-and-swaps, in
`SpscRing` when `prod.tail` is stored and `cons.head` is advanced, in `MpscQueue` when `head`
is advanced and the cell emptied.

### SlabCache

Slabs are sequences of buffers and there are no pointers. `full` is the pool's stack of full slabs,
`cons` and `prod` are what each cache has left to hand out and has collected, `out` the buffers
handed out. `Open` is `bcache_init` with the filling of the fill ring, `Trade` the critical section
of `bcache_cons_check`, `Take` a run of `bcache_cons`, `Give` is `bcache_prod`, and `Forget` a caller
that drops the address. In `BufferPool` the stack is `FullSlabs`, the contents of the slabs below
`nSlabsAvailable`, and what is out is what rings, bursts and queues hold; the two slabs that
`port_free` counts again without storing their pointers are not full ones. In `SlabRace` a call
takes effect when it writes `n_buffers_prod` or, with a full producer slab, when it trades that;
until then its buffer counts as out, and from the trade until `n_buffers_prod` is 1 what is
collected is the buffer in the thread's hand (`Collected`).

### MpmcQueue

`tail`, `head`, `sequence` and `data` are the fields of `struct mpmc_queue` and its cells; `pos`
is the local variable of each thread; `pc` says which access comes next. `PushStart` to
`PushPublish` are the loads, compare-and-swap and stores of `mpmc_queue_push`, the `Pull`
actions those of `mpmc_queue_pull`, the `Avail` actions the two loads of the usage
estimate. A weak compare-and-swap may fail spuriously (`PushClaimFailed`). Positions are
`% SizeT` with `SizeT` a multiple of `Size`, as `size_t` is for a power of two, and start at
`Start`, so that a short run crosses the wrap-around. `MaxPush` bounds the pushes of a producer;
`QueueAssumption` keeps all pushes of a behaviour below half the range of a `size_t`, which is
what the signed difference of the code distinguishes. Accesses interleave sequentially
consistently: the acquire and release orders of the code are not weakened further.

### BufferPool

Variables are the C fields: `slabs`, `nSlabsAvailable`, `buffers` of the pool, `slabCons`,
`nCons`, `slabProd`, `nProd` of each cache, `fq` and `rx` the rings of each port, `burst` the
receive thread's burst, `inFlight` what has gone to queues and transmit rings. `PortInit` is
`port_init` with `bcache_init` and the filling of the fill ring; `RxCheckLocal`, `RxCheckTrade`,
`RxPeek`, `RxRefill` are `port_rx_burst` in order; `RxForward`, `RxDrop`, `RxForget` are what the
thread does with a packet; `TxComplete` is the completion loop of a transmit thread, from which
a buffer may come back to the cache of any port. `KernelReceive` is external.

Each call of a cache is one step. The caches of different ports meet only under the pool's lock, but
the receive and the transmit thread of one port share a cache and may be in `bcache_prod` at the same
time, where the count and the slab pointer are not protected. Invariants and theorems of this module
are about behaviours in which that does not happen; `race_shared` shows one in which it does, after
which slabs and buffers are no longer in one place only.

### SlabRace

`Call` reads `n_buffers_prod` and chooses the path; `Store`, `Count` are the two writes of the short
path; `Trade` is the critical section; `StoreFirst`, `Adopt`, `Restart` the three writes after it.
`HalfOf` gives each thread the slabs it works on. `OwnHalf` is `v6-multi-pool` (`bcache_prod_tx`,
`bcache_cons_tx`), `SharedHalf` is `v8-delay`. With a slab pair each there are exactly two threads,
the receive and the transmit thread of a port (`CacheParameters`).

### PacketPath

Each part of the path is a number of buffers. The receive thread goes through `check`, `peek`,
`refill`, `process`; the transmit thread through `pull`, `complete`, `reserve`. `TxPeek` needs a
collected packet, as the thread functions call `port_tx_burst_collector` only then; `TxRelease`
follows the loop over the completions, as in the code. `Dest` is the set of ports whose queues a
packet of a port may go to, and each packet takes any of them: the veth side always uses queue 0
(`ring_buf_index = 0`), the NIC side the queue whose index is in the packet's GRE header. With one
NIC queue and one virtual interface, as in the runs, each set has one port; the theorems are for all
sets. `RxNonLocal` is the branches marked TODO, a packet for another node and one for a virtual
interface that has no queue: the buffer is neither forwarded nor given back.

### SplitPort

The variables are the number of full slabs in the pool, the four counts of the cache, what is in
each of the four rings, and for each thread where it is and how far. `RxCheck` is
`bcache_cons_check`, `RxPeek` the call that looks into the receive ring, `RxGiveBack` and
`RxForget` what becomes of one packet of the burst, `RxRelease` and `RxRefill` the end of the
burst; in this version the packets stay in the receive ring until then. `TxCheck` is
`bcache_cons_tx_check`, `TxCollect` takes packets from the queue (how many there are is left open),
`TxPeek`, `TxComplete`, `TxRelease` go through the completion ring, `TxSubmit` is the loop for room
in the transmit ring. `KernelReceive` and `KernelTransmit` are external. A check promises as many
buffers as are left, or as many as were asked for if it had to take a slab; the comment on
`bcache_cons_check` (`mempool.h:43-47`) asks for no more than a slab holds, and so does
`SplitPortAssumption`. With larger bursts the counts of the code would fall below zero.

### TransitPath

A port with a virtual interface, and one destination its packets are queued for. A buffer has an
identity, and `content` says which packet of the port it holds, 0 for anything else; a packet is its
number. `RxDrop` stands for the packets not queued here (no address left, rejected, another
destination), `RxQueue` queues the packet's own address, `RxGiveBack` is `bcache_prod` on the same
buffer, `RxRefill` ends the burst. The port's transmit thread takes slabs from the same pool
(`TxCheck`), writes other ports' packets into their buffers and sends them (`TxSend`), and gives
them back once the kernel is done (`TxComplete`). Slabs are taken from and put to the end of the
pool's array and buffers to the end of a slab, as in the code, because that order decides who gets a
buffer next. The destination's transmit thread collects what is queued (`DestPull`) and copies it
(`DestCopy`). Its own buffers, and those of the port's transmit and completion rings as far as only
their number matters, are in `SplitPort`. `sending` is the completion ring with the transmit ring
behind it: the kernel moving a buffer from one to the other changes nothing here. `lastTaken` is
not in the code; it remembers how many packets were done when `TxCheck` last took a slab.

### TransitTokens

The addresses in the transit queue are used up and replaced but never read, so they are tokens and
only their number counts. What matters is which cell a token comes back to. `Claim` is
`mpmc_queue_pull` on the transit queue up to the compare-and-swap on `head`, `Release` the store that
frees the cell; `age` is how many cells have been claimed since, so `TransitCellHeld` says that the
cell at `tail` is claimed and not yet free, which `mpmc_queue_push` takes for a full queue. `Push` is
the push to the packet queue, `TxClaim` and `TxRelease` the transmit thread's pull from it, and
`PacketCellHeld` says the same of that queue's cell. `TxCopy` returns a token, if the queue accepts
it, and like the code goes on if it does not.

### SpscRing

`prodHead`, `prodTail`, `consHead`, `consTail` and `ring` are the fields of the ring. The receive
thread calls `ringbuf_is_full` (`CheckRoom`) and then the enqueue, the transmit thread
`ringbuf_is_empty` (`CheckEntry`) and then the dequeue; the enqueue is a step for the loads
(`Enqueue`), one for the new head, one for the pointer and one for the new tail, the dequeue the
same. Positions are `% UInt32`. With one producer it is the ring of `opera-v4`; with two it is that
of `v5-mpsc`.

### MpscQueue

`Reserve` adds to `count`, `BackOff` takes it back from a full queue, `Claim` advances `head`,
`AssertEmpty` and `Store` are the assert and the exchange; `Take`, `Advance` and `GiveBack` are
the dequeue. Nothing in the repository calls the queue, so the threads call it at any time.

## Runs

| Run | Bounds | Checks |
|---|---|---|
| `queue_safety` | 2 producers, 2 consumers, 2 cells, 2 pushes each; positions wrap during the run | `TypeOK`, `CellExclusive`, `RefusedOnlyWhenFull`, `EmptyOnlyWhenNothingReady`, `ImplementsFifo` |
| `queue_live` | 2 producers, 1 consumer, 2 cells | `EveryCallReturns`, `EventuallyDrained` |
| `pool_safety` | 1 port, 4 slabs of 2, burst of 2; 2 ports, 6 slabs of 1 | for 1 port `TypeOK`, `EmptySlabAvailable`, `SlabPartition`, `RefillNeverSpins`, `NoBufferTwice`, `ImplementsCalls`; for 2 ports `SharedImplementsCalls` |
| `pool_readme` | 16 ports, 16 slabs | `EveryPortFindsSlabs`, violated |
| `shared_access` | ring of 4, 1 producer, positions modulo 8; slabs of 2, a pair per thread; `mpsc.c` with 2 cells, 2 producers | `TypeOK`, `RingChecksHold`, `RingImplementsFifo`; `CacheTypeOK`, `CacheSlabAvailable`, `CacheBufferOnce`, `CacheImplementsCalls`; `MpscAssertsHold`, `MpscImplementsFifo` |
| `race_shared` | 2 threads, shared slabs of 2 | `EmptySlabAvailable`, violated |
| `ring_shared` | ring of 4, 2 producers | `SuccessMeansQueued`, violated |
| `path_small` | 2 ports, 6 slabs of 2, packets for other nodes | `TypeOK`, `BuffersAccountedFor`, `TxSpinEnds`, `QueueDrains` |
| `path_ample` | 2 ports, 18 slabs of 1 | `StarvedOnlyWhileBusy`, `ReceiverServed` |
| `split_port` | 9 slabs of 2, rings and bursts of 2 | `TypeOK`, `BuffersCirculate`, `EmptySlabLeft`, `NeverStarved`, `TransmitterReturns` |
| `transit_safety` | slabs of 2, 2 slabs in the pool, receive bursts of 2, transmit bursts of 1, 2 buffers sending, queue of 1, 6 packets; 3 receive threads, 4 tokens, bursts of 2 | `OverwrittenLate`, `IntactUntilTraded`; `SomeTokenLeft`, `PushFits` |
| `transit_comment` | as `transit_safety` | `SentAsQueued`, violated |

`shared_access` puts three independent structures into one module (`MCSharedAccess`): the initial
state picks one and a behaviour uses only that one, so the state space is the sum of the three and
not their product. `pool_safety` has two instances of `BufferPool` in the same way
(`MCBufferPools`): one port with slabs and bursts of more than one buffer, and two ports whose caches
trade with one pool and give back each other's buffers. `SharedImplementsCalls` is
`ImplementsCalls` for the second. `transit_*` look at the buffers of a port or at the tokens of a
destination (`MCTransitPath`).

Why the bounds are enough. With two cells and two threads a side the packet queue is full and empty,
goes around its array, wraps its positions, and has every pair of threads contend for one cell. A
ring of four has three descriptors and goes around twice before its positions wrap. Slabs of two
buffers make every slab empty, partly filled and full; slabs of one make every give-back a trade,
which is the step at risk. In `path_*` and `split_port` every ring, queue and slab is at its limit
in many states. In `transit_*` the producer slab is traded with the third packet, the transmit
thread can take and overwrite it at once, and otherwise its buffers come around again after four more
packets, two slabs: the 6 packets of `MaxPackets` reach both. Three receive threads let one be
stalled with its cell claimed while others take all the tokens that are left, and four tokens are
more than a burst. The invariants that are also theorems (see below) hold for all sizes.

Deadlock is checked in `path_ample` only. Elsewhere the system really may stop: the program exits
(pool), all buffers may have leaked or been forgotten (`path_small`, `split_port`), nothing obliges
a thread to call (race, ring, `shared_access`), and the bounds `MaxPush` and `MaxPackets` stop
the producers.

What the runs found:

* `race_shared`: `mempool.h:173-179` promises that an empty slab is available for the trade in
  `bcache_prod`. In `v8-delay` the receive and the transmit thread of a port call it on one cache.
  Both can see the producer slab full and put it into the pool twice; after it has been taken out,
  the second pointer comes to stand for an empty slab, and a later trade adopts a slab another cache
  is working on. The private slabs of `v6-multi-pool` (the cache in `shared_access`) do not have
  this.
* `pool_readme`: `v8-delay/README.md:60` starts 8 namespaces and 8 NIC queues. 16 ports need 32
  slabs, the default pool has 16; the ninth `port_init` fails. (`120 7 7` fails the same way.)
  `PortsFindSlabs` proves that two slabs per port are enough for any number of ports.
* `transit_comment`: the receive thread of `v6-multi-pool` is said to copy the packet
  (`thread_functions.h:362`), but queues the address of the received buffer, with the copy commented
  out, and gives the buffer back. A packet that waits is overwritten, and what replaced it is sent
  with its length. `IntactUntilTraded` says how long it is safe: until the producer slab its buffer
  was given back to is full and traded. The pool hands out the slab put in last, so if the port's own
  transmit thread is the next to need one, it copies other ports' packets into these buffers.
  `OverwrittenLate` says that if it takes no slab meanwhile, the buffer is safe for two slabs of
  receptions, 8192 packets in the default sizes; then the kernel may get it.
* `SomeTokenLeft`: `main` fills the transit queue to the last cell (`sw_corundum_main.c:466-479`). A
  receive thread that has moved `head` and not yet freed its cell makes the push of a token to this
  cell fail, its result is ignored (`thread_functions.h:754`, `911`), and the token is lost. All
  tokens that come back meanwhile can be, so the queue may shrink for good; but never to nothing, as
  the stalled thread has a token itself. `OneSourceLosesNone` proves that it takes two receive
  threads. No line of the repository says that no token is lost, so this is not a run that expects a
  violation.
* `ring_shared`: `v5-mpsc` gives one ring to the receive threads of all virtual interfaces, though
  `ringbuffer.h:207` says "NOT multi-producers safe". Two producers take the same position, and a
  call that returns 0, "Success; objects enqueue" (l. 216), has its pointer overwritten.
* `NeverStarved` holds while the pool keeps more than six slabs beyond the transmit ring, the
  completion ring and the buffers forgotten; the default sizes leave 4096 buffers to be forgotten.
  Every packet for another node, or for a virtual interface that has no queue, forgets one.
  `EmptySlabLeft` needs a fill ring as large as a slab, which the default sizes have and `port_init`
  does not ask for.
* `StarvedOnlyWhileBusy` needs a pool larger than the code asks for. Completions are read only by a
  thread with packets to send, and a producer slab is traded only when full. With `P` ports
  `EnoughBuffers` reads, in the default sizes and in slabs, `16 - 2P > P(1 + 1/2 + 1/2) + (P - 1)`:
  it holds up to 3 ports and fails from 4. With the sizes of `path_ample` it holds from 12 slabs;
  with 11 TLC finds the starvation, so it is sharp there. `ReceiverServed` under weak fairness also
  needs the queues' capacity in reserve, hence the 18 slabs of the run.
* `FillAssumption` of `BufferPool` and `PacketPath` (what all consumer slabs keep after the fill
  rings are filled is at most one slab) is sharp too: with 3 ports, slabs of 2 and fill rings of 1,
  TLC reaches a trade with no empty slab. The default sizes are equal, which satisfies it.

## Fairness

Each worker thread is pinned to a core of its own and spins, so its steps are weakly fair
(`queue_live`, `path_*`, `split_port`). The packet queue's compare-and-swap is strongly fair: it may
fail spuriously, but not for ever. The kernel is assumed fair only while a thread in the reserve
loop wakes it up with `sendto`; no fairness is assumed for packet arrival, nor for producers to push.

## Proofs

All theorems hold for every value of the constants that the named assumptions allow.
The runs check the same properties on small instances.

`MpmcQueueProofs`, from `QueueAssumption`: `TypeCorrect`, `CellsExclusive`, `RefusalIsHonest`,
`EmptyIsHonest`, and `QueueIsAFifo`, the refinement of `BoundedFifo`, for any number of threads and
cells and any width of a position. Modular positions are replaced by ages: `Age(x)` is how far `x`
is past `Start`, and since a behaviour makes fewer pushes than half the range, ages are ordinary
numbers and the signed difference of the code is their difference. The inductive invariant `IInv`
says that `tail` and `head` are at most `Size` apart and that the claims made or still possible do
not exceed the pushes begun (`Counters`), what the sequence number of each cell of the current lap
may be and which thread owes the next store to it (`CellStates`), what each thread knows about its
local `pos` (`ProducerPlace`, `ConsumerPlace`), and that no two owners have one position
(`OwnersDiffer`). `CellStates` is needed because no local fact says why a claim meets a free cell.
The refinement adds `Payload`: the pointer of a published cell is the one its producer was given.

`SpscRingProofs`, from `RingParameters` and one producer: `TypeCorrect`, `CallsSucceed`,
`RingIsAFifo`. `IInv` says that the number of descriptors held is the distance from `cons.tail` to
`prod.tail` and less than `Size`, and where the producer's and the consumer's head are in each step.
A check stays valid because only the other thread's steps come between, and they only make more
room, or more entries.

`BufferPoolProofs`, from `PoolAssumption` and `FillAssumption`, for every number of ports, slabs and
buffers: `TypeCorrect`, `SlabsPartitioned`, `EmptySlabGuaranteed`, `RefillAlwaysFits`,
`NoBufferDuplicated`, `PortsFindSlabs`, and `CallsImplemented`, the refinement of `SlabCache`. They
are about calls of `bcache_prod` that do not overlap on one cache, as said of the module: in
`v8-delay` a port's two threads can violate that, and then `EmptySlabGuaranteed`, `SlabsPartitioned`,
`NoBufferDuplicated` and `CallsImplemented` do not hold of the code. The first hard one is
`EmptySlabGuaranteed`: a trade in `bcache_prod` needs `nSlabsAvailable` below the number of the
pool's slots, and nothing local says so. The inductive invariant `IInv` is the conjunction of

* `TypeOK` and `Control` (what the phase says of initialised and freed ports, and when a burst is
  non-empty);
* `RefillInv`: the fill and receive rings of an initialised port, together with the buffers the
  fill ring is still owed for a burst just peeked, hold `FillSize` buffers, and what is owed does not
  exceed the consumer slab's stock;
* `TotalBounded`: until shutdown, the buffers in full slabs, consumer slabs, producer slabs, bursts
  being processed and in flight never outnumber `Room`: the pool's slots full, and what each
  initialised port's consumer slab kept after its fill ring was filled;
* `SlabPartition`.

If a buffer is about to come back while the producer slab is full, the slab's contents and that
buffer count towards the total, so the full slabs in the pool are fewer than its slots. The sum
over ports is not a recursive operator but a witness: a function `g` of partial sums with
`g[0] = 0` and `g[p + 1] = g[p] + w[p]`. Lemmas say how such a function changes when one weight
changes and that it bounds each weight. Each action has a step, with one step under it per
conjunct it can disturb.

The second is `NoBufferDuplicated`. That all places (the counted entries of the slabs, the rings,
the bursts, what is in flight) hold different buffers is a property of every pair of places. It is
proved through a witness instead: three functions on buffers give each one its kind of place, its
owner and its index there (`Placed`). If every place holds the buffer that points back to it, no
buffer is in two. A step then changes the functions at the buffers it moves and nowhere else. A
trade moves slabs and leaves all three functions alone, which is where `SlabPartition` is needed.
The third is `CallsImplemented`. Each call has a lemma that names the step of `SlabCache` it is
(`PortInitOpens`, `CheckTrades`, `RefillTakes`, `DropGives`, `CompletionGives`, `ForgetForgets`); all
others change nothing there. Two facts carry it. By `SlabPartition`, a write to one slab leaves the
sequences that the other slabs stand for as they were. And `Give` takes the buffer out of what is
out: that it is gone from the rings, bursts and queues after one occurrence is removed holds because
it was in one place only, which is the strengthening behind `NoBufferDuplicated` (`HeldOnce`).

`PacketPathProofs`, from `PathAssumption`, `FillAssumption` and `BurstAssumption`, for any finite set of ports
and any sets of destinations: `TypeCorrect`, `AllBuffersAccounted`, `StarvedOnlyIfBusy`. `IInv` is

* `TypeOK`;
* `Receivers`: the fill ring, the receive ring and the refill still owed are `FillSize` buffers, and
  the consumer slab has what is owed;
* `Losses`: a slab's worth per port is lost at initialisation, and no more unless packets for other
  nodes come;
* `Accounted`: the full slabs, what is lost and the sum over the ports of what each holds are all
  buffers.

`TypeCorrect` contains the guarantee of `bcache_prod` for the composed system: a port that gives
back with its producer slab full holds that slab and the buffer, and every port holds its
`FillSize`, so the pool has a slot left. `StarvedOnlyIfBusy` bounds what ports can hold with no
packet in a burst, a queue or a collector; if the sum of the bounds is less than the buffers there
are (`EnoughBuffers`), a starved receive thread means that some thread has packets to move.

`SplitPortProofs`, from `SplitPortAssumption`, which has bursts of at most a slab: `TypeCorrect`,
`NoBufferLost`, `EmptySlabGuaranteed`, `ThreadsSupplied`. `IInv` is `TypeOK`, `BuffersCirculate`, and what holds of the receive thread
(`Receiver`: the fill ring, the receive ring and the burst together are `FillSize` buffers, and the
consumer slab has enough for the burst) and of the transmit thread (`Transmitter`). The two
guarantees follow from it by arithmetic: what is not in the pool is bounded by what the slabs and
rings hold.

`TransitPathProofs`, from `TransitAssumption` and `TokenAssumption`, for all sizes:
`BuffersIntactUntilTraded`, `BuffersOverwrittenLate`, and, for any number of receive threads and
tokens, `DestinationKeepsAToken`, `PushIsAccepted`, `OneSourceLosesNone`. The invariant is `PathInv`,
the conjunction of `IInv` for the buffers (`TypeOK`, `Port`, `Waiters`, `Collector`) and `TokenInv`
for the tokens.

* `Port` gives every buffer of the receive side the number of the packet that is or will be received
  into it. A buffer keeps its number from the consumer slab through the fill ring and the receive
  ring to the producer slab; only through the pool does it get a new one, and that is more than two
  slabs higher than the packet it still contains, if the transmit thread has not written to it
  (`Located`, `Aged`). This needs that producer and consumer slab together, less what has been given
  back of the burst at hand, hold no, one or two whole slabs (`Receiver`), as slabs go in and out of
  the pool whole. That a buffer is in one place only is part of it: two functions give the place of
  each.
* `Waiters` says where the buffer of a packet that waits is: in the thread's hand, at its place in the
  producer slab, or traded. It is intact until it is traded, and until it comes around again unless
  the transmit thread has taken a slab since. `MaxPackets` does not enter the argument.
* `TokenInv` says that the tokens in the transit queue, with receive threads, and standing for
  packets that are queued or collected are at least one and at most `Tokens`, and that a cell a
  receive thread holds is at the tail of the transit queue or before it. A return is refused only if
  some thread holds a token, so the last one is never lost.

`SharedAccessProofs` has the two other structures of `MCSharedAccess`, from `SharedAccessAssumption`;
`QueueInside` and `CacheInside` show that what holds of their own specifications holds in that
module.

* The queue of `mpsc.c`, for any number of producers and cells: `MpscAssertsNeverFail`,
  `MpscIsFifo`. The invariant `MInv` says that `count` is the number of producers that have reserved
  room or are about to give it back, plus the cells stored or claimed, plus one that the consumer is
  taking, and that all but those giving it back fit into the queue (`Room`); and that the cells in
  use are the first ones from the consumer's place on, up to `head` (`CellsInUse`). So a producer
  that has reserved room finds `head` at a cell that nobody uses, which is what the assert says. In
  the refinement a producer's enqueue takes effect at `Claim` and the dequeue at `Take`; the others
  are stutters.
* The cache of `v6-multi-pool`, whose threads have a pair of slabs each: `CacheTypeCorrect`,
  `CacheTradeFindsSlab`, `CacheKeepsBuffersOnce`, `CacheCallsAreAtomic`. The invariant `CInv` says that the slabs of the
  pool, the consumer slabs and the slabs the threads fill differ (`SlabsApart`), what each thread
  has written so far of its call (`Progress`), and that each buffer that circulates is in exactly
  one place: an entry that counts, the hand of a thread, or out (`Exclusive`, `Complete`). A trade
  moves slabs and no buffer. That it finds a slab is a pigeonhole argument: a pool with every slot
  full, the thread's own full slab and the buffer in its hand are more buffers than circulate.
  `CacheCallsAreAtomic` is the refinement of `SlabCache`. What a thread has stored and not yet
  counted lies behind the entries that count, so `WriteKeeps` shows that no sequence changes with
  it; `CountGives` and `TradeGives` are the two steps at which a call takes effect.

`DataLemmas` has what the proofs keep needing: the lemmas about `%` that the provers do not find by
themselves (quotient and remainder, congruent numbers, sums and differences that wrap, a remainder
reduced to a divisor), what `Append` and `Tail` do to a queue written as a function, how the first
entries of an array are a sequence that grows and shrinks at the end (`Slice`), and sums over a
finite set: that the recursive definition gives one, how it changes with one summand, and how it
compares with another. The induction over the subsets of a finite set is a lemma about sets of
subsets, so it needs no operator parameter.

Every safety property that a passing run checks, invariant or refinement, is a theorem;
`SharedImplementsCalls` is `CallsImplemented` for one more instance and is not stated again. Only
model-checked is liveness: `EveryCallReturns`, `EventuallyDrained`, `TxSpinEnds`, `QueueDrains`,
`ReceiverServed`, `TransmitterReturns` (liveness under fairness and ENABLED are outside the prover's
reach).

## Not modelled

* The contents of packets (encapsulation, checksums, addresses, telemetry arrays): `TransitPath`
  keeps which packet a buffer holds, and nothing else depends on it.
* The address tables `map.c`: filled before the threads start and only searched afterwards.
* Start-up and plumbing (sockets, BPF programs, configuration files, namespaces), and the kernel
  programs, which redirect without state. The kernel's side of the rings is external.
* Time-slot routing of v4 and v5: one byte derived from the clock of the NIC. What can go wrong is
  when a packet leaves in real time, for which the code states no bound.
* `bcache_init` takes two slabs, so `PoolAssumption` has an even number of them, as in the default
  sizes. A port is freed only before the program exits, and none is initialised afterwards. What
  depends on the contents of a packet (`new_len` left from an earlier packet, `which_veth` as an
  index) is listed as a hazard and not modelled.
* In `TransitPath`, ports of the NIC: the buffers they forget (`RxForget` of `SplitPort`) leave the
  circulation the module follows.
* Memory orders weaker than sequential consistency.
* Vendored code: libbpf, xdp-tools and kernel headers. They are nearly all of the repository's
  lines. Most of the remaining ones are successive versions of the same emulator, which repeat each
  other; each mechanism is modelled in the version that has it in its final form.
