-------------------------- MODULE PacketPathProofs --------------------------
(***************************************************************************)
(* Machine-checked proofs about PacketPath, for any number of ports and    *)
(* any sizes that satisfy its assumptions.                                 *)
(***************************************************************************)
EXTENDS PacketPath, DataLemmas

-----------------------------------------------------------------------------
(* The buffers of each port: in its slabs and rings, and with its threads. *)
Held ==
  [p \in Ports |-> nCons[p] + nProd[p] + fq[p] + rx[p] + burst[p]
                     + queue[p] + collected[p] + txq[p] + cq[p] - returned[p]]

Accounted == full * SlabSize + lost + Total(Held) = NSlabs * SlabSize

(* Each port's receive side owns FillSize buffers, apart from those of the *)
(* packets being processed, and is owed only what its slab can give.       *)
Receivers ==
  \A p \in Ports :
    /\ fq[p] + rx[p] + (IF rxPc[p] = "refill" THEN burst[p] ELSE 0) = FillSize
    /\ rxPc[p] = "refill" => burst[p] <= nCons[p]
    /\ (burst[p] > 0) <=> (rxPc[p] \in {"refill", "process"})

(* Buffers are lost at initialisation, and with packets for other nodes.   *)
Losses ==
  /\ lost >= NPorts * SlabSize
  /\ NonLocal = {} => lost = NPorts * SlabSize

IInv == TypeOK /\ Receivers /\ Losses /\ Accounted

-----------------------------------------------------------------------------
\* What the assumptions say of the constants, in the form the proofs need.
LEMMA Sizes ==
  /\ IsFiniteSet(Ports) /\ NPorts \in Nat /\ PoolSlots \in Nat
  /\ NSlabs \in Nat \ {0} /\ SlabSize \in Nat \ {0} /\ FillSize \in Nat \ {0}
  /\ RxSize \in Nat \ {0} /\ MaxBurst \in Nat \ {0} /\ QueueSize \in Nat \ {0}
  /\ TxSize \in Nat \ {0} /\ CompSize \in Nat \ {0} /\ MaxBurstTx \in Nat \ {0}
  /\ FillSize <= SlabSize
<1>1. IsFiniteSet(Ports) /\ NPorts \in Nat
  BY PathAssumption, FS_CardinalityType DEF NPorts
<1>2. NSlabs \in Int /\ PoolSlots >= 0
  BY PathAssumption
<1> HIDE DEF NPorts
<1>3. PoolSlots \in Nat
  BY <1>1, <1>2 DEF PoolSlots
<1> QED BY <1>1, <1>3, PathAssumption

\* The totals of the model are sums over the ports.
LEMMA TotalIsSum ==
  ASSUME NEW f
  PROVE  Total(f) = Sum(f, Ports)
BY DEF Total, Sum

\* Every count is a natural number, and no port has returned more than completed.
LEMMA Counts ==
  ASSUME TypeOK
  PROVE  /\ full \in Int /\ lost \in Int
         /\ \A p \in Ports :
              /\ nCons[p] \in 0..SlabSize /\ nProd[p] \in 0..SlabSize
              /\ fq[p] \in Nat /\ rx[p] \in Nat /\ burst[p] \in Nat
              /\ queue[p] \in Nat /\ collected[p] \in Nat
              /\ txq[p] \in Nat /\ cq[p] \in Nat /\ returned[p] \in Nat
              /\ returned[p] <= cq[p]
<1>1. \A n \in Nat : 0..n \subseteq Nat
  OBVIOUS
<1>2. full \in Int /\ lost \in Int
  BY Sizes DEF TypeOK
<1>3. ASSUME NEW p \in Ports
      PROVE  /\ nCons[p] \in 0..SlabSize /\ nProd[p] \in 0..SlabSize
             /\ fq[p] \in Nat /\ rx[p] \in Nat /\ burst[p] \in Nat
             /\ queue[p] \in Nat /\ collected[p] \in Nat
             /\ txq[p] \in Nat /\ cq[p] \in Nat /\ returned[p] \in Nat
             /\ returned[p] <= cq[p]
  BY Sizes DEF TypeOK
<1> QED BY <1>2, <1>3

\* What the ports hold are natural numbers, although returned is subtracted.
LEMMA HeldType ==
  ASSUME TypeOK
  PROVE  Held \in [Ports -> Nat] /\ Held \in [Ports -> Int] /\ Total(Held) \in Int
<1>1. Held \in [Ports -> Nat] /\ Held \in [Ports -> Int]
  BY Counts DEF Held
<1> QED BY <1>1, Sizes, SumType, TotalIsSum

\* n slabs of buffers, and one slab more or less
LEMMA Slabs ==
  ASSUME NEW n \in Int
  PROVE  /\ n * SlabSize \in Int
         /\ (n + 1) * SlabSize = n * SlabSize + SlabSize
         /\ (n - 1) * SlabSize = n * SlabSize - SlabSize
BY Sizes

\* Adding up two quantities one by one or port by port is the same.
LEMMA TotalOfTwo ==
  ASSUME NEW f \in [Ports -> Int], NEW g \in [Ports -> Int], NEW h \in [Ports -> Int],
         \A p \in Ports : h[p] = f[p] + g[p]
  PROVE  Total(h) = Total(f) + Total(g) /\ Total(f) \in Int /\ Total(g) \in Int
BY Sizes, SumOfTwo, SumType, TotalIsSum

\* The same for the ten quantities of a port.
LEMMA HeldTotal ==
  ASSUME TypeOK
  PROVE  BuffersAccountedFor <=> Accounted
<1> DEFINE h2 == [p \in Ports |-> nCons[p] + nProd[p]]
           h3 == [p \in Ports |-> h2[p] + fq[p]]
           h4 == [p \in Ports |-> h3[p] + rx[p]]
           h5 == [p \in Ports |-> h4[p] + burst[p]]
           h6 == [p \in Ports |-> h5[p] + queue[p]]
           h7 == [p \in Ports |-> h6[p] + collected[p]]
           h8 == [p \in Ports |-> h7[p] + txq[p]]
           h9 == [p \in Ports |-> h8[p] + cq[p]]
<1>1. /\ nCons \in [Ports -> Int] /\ nProd \in [Ports -> Int] /\ fq \in [Ports -> Int]
      /\ rx \in [Ports -> Int] /\ burst \in [Ports -> Int] /\ queue \in [Ports -> Int]
      /\ collected \in [Ports -> Int] /\ txq \in [Ports -> Int] /\ cq \in [Ports -> Int]
      /\ returned \in [Ports -> Int]
  BY Sizes DEF TypeOK
<1>2. /\ h2 \in [Ports -> Int] /\ h3 \in [Ports -> Int] /\ h4 \in [Ports -> Int]
      /\ h5 \in [Ports -> Int] /\ h6 \in [Ports -> Int] /\ h7 \in [Ports -> Int]
      /\ h8 \in [Ports -> Int] /\ h9 \in [Ports -> Int]
  BY <1>1
<1>3. \A p \in Ports :
        /\ h2[p] = nCons[p] + nProd[p] /\ h3[p] = h2[p] + fq[p] /\ h4[p] = h3[p] + rx[p]
        /\ h5[p] = h4[p] + burst[p] /\ h6[p] = h5[p] + queue[p]
        /\ h7[p] = h6[p] + collected[p] /\ h8[p] = h7[p] + txq[p] /\ h9[p] = h8[p] + cq[p]
  OBVIOUS
<1>4. \A p \in Ports : h9[p] = Held[p] + returned[p]
  BY <1>1 DEF Held
<1> HIDE DEF h2, h3, h4, h5, h6, h7, h8, h9
<1>5. Total(h2) = Total(nCons) + Total(nProd) /\ Total(nCons) \in Int /\ Total(nProd) \in Int
  <2>1. /\ nCons \in [Ports -> Int] /\ nProd \in [Ports -> Int] /\ h2 \in [Ports -> Int]
        /\ \A p \in Ports : h2[p] = nCons[p] + nProd[p]
    BY <1>1, <1>2, <1>3
  <2> QED BY <2>1, TotalOfTwo
<1>6. Total(h3) = Total(h2) + Total(fq) /\ Total(h2) \in Int /\ Total(fq) \in Int
  <2>1. /\ h2 \in [Ports -> Int] /\ fq \in [Ports -> Int] /\ h3 \in [Ports -> Int]
        /\ \A p \in Ports : h3[p] = h2[p] + fq[p]
    BY <1>1, <1>2, <1>3
  <2> QED BY <2>1, TotalOfTwo
<1>7. Total(h4) = Total(h3) + Total(rx) /\ Total(h3) \in Int /\ Total(rx) \in Int
  <2>1. /\ h3 \in [Ports -> Int] /\ rx \in [Ports -> Int] /\ h4 \in [Ports -> Int]
        /\ \A p \in Ports : h4[p] = h3[p] + rx[p]
    BY <1>1, <1>2, <1>3
  <2> QED BY <2>1, TotalOfTwo
<1>8. Total(h5) = Total(h4) + Total(burst) /\ Total(h4) \in Int /\ Total(burst) \in Int
  <2>1. /\ h4 \in [Ports -> Int] /\ burst \in [Ports -> Int] /\ h5 \in [Ports -> Int]
        /\ \A p \in Ports : h5[p] = h4[p] + burst[p]
    BY <1>1, <1>2, <1>3
  <2> QED BY <2>1, TotalOfTwo
<1>9. Total(h6) = Total(h5) + Total(queue) /\ Total(h5) \in Int /\ Total(queue) \in Int
  <2>1. /\ h5 \in [Ports -> Int] /\ queue \in [Ports -> Int] /\ h6 \in [Ports -> Int]
        /\ \A p \in Ports : h6[p] = h5[p] + queue[p]
    BY <1>1, <1>2, <1>3
  <2> QED BY <2>1, TotalOfTwo
<1>10. Total(h7) = Total(h6) + Total(collected) /\ Total(h6) \in Int /\ Total(collected) \in Int
  <2>1. /\ h6 \in [Ports -> Int] /\ collected \in [Ports -> Int] /\ h7 \in [Ports -> Int]
        /\ \A p \in Ports : h7[p] = h6[p] + collected[p]
    BY <1>1, <1>2, <1>3
  <2> QED BY <2>1, TotalOfTwo
<1>11. Total(h8) = Total(h7) + Total(txq) /\ Total(h7) \in Int /\ Total(txq) \in Int
  <2>1. /\ h7 \in [Ports -> Int] /\ txq \in [Ports -> Int] /\ h8 \in [Ports -> Int]
        /\ \A p \in Ports : h8[p] = h7[p] + txq[p]
    BY <1>1, <1>2, <1>3
  <2> QED BY <2>1, TotalOfTwo
<1>12. Total(h9) = Total(h8) + Total(cq) /\ Total(h8) \in Int /\ Total(cq) \in Int
  <2>1. /\ h8 \in [Ports -> Int] /\ cq \in [Ports -> Int] /\ h9 \in [Ports -> Int]
        /\ \A p \in Ports : h9[p] = h8[p] + cq[p]
    BY <1>1, <1>2, <1>3
  <2> QED BY <2>1, TotalOfTwo
<1>13. Total(h9) = Total(Held) + Total(returned) /\ Total(Held) \in Int /\ Total(returned) \in Int
  <2>1. /\ Held \in [Ports -> Int] /\ returned \in [Ports -> Int] /\ h9 \in [Ports -> Int]
        /\ \A p \in Ports : h9[p] = Held[p] + returned[p]
    BY <1>1, <1>2, <1>4, HeldType
  <2> QED BY <2>1, TotalOfTwo
<1>14. full * SlabSize \in Int /\ lost \in Int
  BY Counts, Slabs
<1>15. Total(Held) = Total(nCons) + Total(nProd) + Total(fq) + Total(rx) + Total(burst)
         + Total(queue) + Total(collected) + Total(txq) + Total(cq) - Total(returned)
  BY <1>5, <1>6, <1>7, <1>8, <1>9, <1>10, <1>11, <1>12, <1>13
<1> QED BY <1>5, <1>6, <1>7, <1>8, <1>9, <1>10, <1>11, <1>12, <1>13, <1>14, <1>15
        DEF BuffersAccountedFor, Accounted

\* The total in the next state, when what is held there is known
LEMMA TotalNext ==
  ASSUME NEW g, Held' = g
  PROVE  Total(Held)' = Total(g)
BY Zenon DEF Total, FoldSet, MapThenFoldSet

\* The total after a step in which the share of one port, or none, changes
LEMMA HeldMoved ==
  ASSUME TypeOK, NEW p \in Ports, NEW n \in Int,
         Held' \in [Ports -> Int], Held'[p] = Held[p] + n,
         \A q \in Ports \ {p} : Held'[q] = Held[q]
  PROVE  Total(Held)' = Total(Held) + n
<1>1. PICK g : Held' = g
  OBVIOUS
<1>2. g \in [Ports -> Int] /\ Total(Held)' = Total(g)
  BY <1>1, TotalNext
<1>3. Held \in [Ports -> Int] /\ Held[p] \in Int /\ Total(Held) \in Int
  BY HeldType
<1>4. Total(g) = Total(Held) - Held[p] + g[p]
  BY <1>1, <1>2, <1>3, Sizes, SumUpdated, TotalIsSum
<1> QED BY <1>1, <1>2, <1>3, <1>4

\* The total after a step that moves buffers within a port
LEMMA HeldKept ==
  ASSUME Held' = Held
  PROVE  Total(Held)' = Total(Held)
BY DEF Total, FoldSet, MapThenFoldSet

\* Fewer buffers in full slabs are fewer slabs.
LEMMA SlabOrder ==
  ASSUME NEW m \in Int, NEW n \in Int, m * SlabSize < n * SlabSize
  PROVE  m < n
<1>1. ASSUME m - n \in Nat
      PROVE  FALSE
  <2>1. (m - n) * SlabSize \in Nat
    BY <1>1, Sizes
  <2>2. (m - n) * SlabSize = m * SlabSize - n * SlabSize
    BY Sizes
  <2>3. m * SlabSize \in Int /\ n * SlabSize \in Int
    BY Sizes
  <2> QED BY <2>1, <2>2, <2>3
<1> QED BY <1>1

\* A buffer that moves from one port to another
LEMMA HeldHandedOver ==
  ASSUME TypeOK, NEW p \in Ports, NEW q \in Ports, p # q,
         Held' \in [Ports -> Int], Held'[p] = Held[p] - 1, Held'[q] = Held[q] + 1,
         \A r \in Ports \ {p, q} : Held'[r] = Held[r]
  PROVE  Total(Held)' = Total(Held)
<1>1. PICK g : Held' = g
  OBVIOUS
<1>2. g \in [Ports -> Int] /\ Total(Held)' = Total(g)
  BY <1>1, TotalNext
<1>3. Held \in [Ports -> Int] /\ Held[p] \in Int /\ Held[q] \in Int /\ Total(Held) \in Int
  BY HeldType
<1>4. PICK h \in [Ports -> Int] : h[p] = Held[p] - 1 /\ \A r \in Ports \ {p} : h[r] = Held[r]
  <2>1. [Held EXCEPT ![p] = @ - 1] \in [Ports -> Int]
    BY <1>3
  <2> QED BY <2>1, <1>3
<1>5. Total(h) = Total(Held) - Held[p] + h[p]
  BY <1>3, <1>4, Sizes, SumUpdated, TotalIsSum
<1>6. g[q] = h[q] + 1 /\ \A r \in Ports \ {q} : g[r] = h[r]
  BY <1>1, <1>4
<1>7. h[q] \in Int /\ Total(h) \in Int
  BY <1>3, <1>4, <1>5
<1>8. Total(g) = Total(h) - h[q] + g[q]
  BY <1>2, <1>4, <1>6, Sizes, SumUpdated, TotalIsSum
<1> QED BY <1>2, <1>3, <1>4, <1>5, <1>6, <1>7, <1>8

\* What is held, and one buffer of it, is at most what the pool was built with.
LEMMA LostAtMost ==
  ASSUME IInv, NEW p \in Ports, Held[p] > 0
  PROVE  lost + 1 \in 0..(NSlabs * SlabSize)
<1>1. Held \in [Ports -> Nat] /\ Held \in [Ports -> Int] /\ Total(Held) \in Int
  BY HeldType DEF IInv
<1>2. Held[p] <= Total(Held) /\ Held[p] \in Nat
  BY <1>1, Sizes, SumAtLeast, TotalIsSum
<1>3. full * SlabSize \in Nat /\ lost \in Nat /\ NSlabs * SlabSize \in Nat
  <2>1. \A m \in Nat, n \in Nat : m * n \in Nat
    OBVIOUS
  <2>2. full \in Nat /\ lost \in Nat /\ SlabSize \in Nat /\ NSlabs \in Nat
    <3>1. NSlabs * SlabSize \in Nat
      BY <2>1, Sizes
    <3> QED BY <3>1, Sizes DEF IInv, TypeOK
  <2> QED BY <2>1, <2>2
<1>4. full * SlabSize + lost + Total(Held) = NSlabs * SlabSize
  BY DEF IInv, Accounted
<1> QED BY <1>1, <1>2, <1>3, <1>4

-----------------------------------------------------------------------------
(* The steps that leave the slabs of the pool alone *)

\* The kernel puts a packet into a buffer of the fill ring.
LEMMA KernelReceiveStep ==
  ASSUME IInv, NEW p \in Ports, KernelReceive(p)
  PROVE  IInv'
<1>1. TypeOK'
  BY Counts, Sizes DEF KernelReceive, IInv, TypeOK, Receivers, pool, rxSide, txSide
<1>2. Receivers'
  BY SMTT(60), Counts, Sizes DEF KernelReceive, IInv, TypeOK, Receivers, pool, rxSide, txSide
<1>3. Losses'
  BY DEF KernelReceive, IInv, Losses, pool
<1>4. Held' = Held
  BY SMTT(30), Counts DEF KernelReceive, Held, IInv, TypeOK, pool, rxSide, txSide
<1>5. Accounted'
  BY <1>4, HeldKept DEF KernelReceive, IInv, Accounted, pool
<1> QED BY <1>1, <1>2, <1>3, <1>5 DEF IInv

\* The kernel reports a buffer as sent.
LEMMA KernelTransmitStep ==
  ASSUME IInv, NEW p \in Ports, KernelTransmit(p)
  PROVE  IInv'
<1>1. TypeOK'
  BY Counts, Sizes DEF KernelTransmit, IInv, TypeOK, Receivers, pool, rxSide, txSide
<1>2. Receivers'
  BY Counts, Sizes DEF KernelTransmit, IInv, TypeOK, Receivers, pool, rxSide, txSide
<1>3. Losses'
  BY DEF KernelTransmit, IInv, Losses, pool
<1>4. Held' = Held
  BY Counts DEF KernelTransmit, Held, IInv, TypeOK, pool, rxSide, txSide
<1>5. Accounted'
  BY <1>4, HeldKept DEF KernelTransmit, IInv, Accounted, pool
<1> QED BY <1>1, <1>2, <1>3, <1>5 DEF IInv

\* The burst leaves the receive ring; it is no larger than the slab can replace.
LEMMA RxPeekStep ==
  ASSUME IInv, NEW p \in Ports, RxPeek(p)
  PROVE  IInv'
<1>1. TypeOK'
  BY Counts, Sizes DEF RxPeek, IInv, TypeOK, Receivers, pool, rxSide, txSide, RxAt, AtMost
<1>2. Receivers'
  BY Counts, Sizes DEF RxPeek, IInv, TypeOK, Receivers, pool, rxSide, txSide, RxAt, AtMost
<1>3. Losses'
  BY DEF RxPeek, IInv, Losses, pool, RxAt, AtMost
<1>4. Held' = Held
  <2> DEFINE n == AtMost(AtMost(nCons[p], MaxBurst), rx[p])
  <2>1. n \in Int /\ burst[p] = 0 /\ rx[p] \in Int
    BY Counts, Sizes DEF RxPeek, RxAt, AtMost, IInv, TypeOK, Receivers
  <2>2. /\ burst' = [burst EXCEPT ![p] = n] /\ rx' = [rx EXCEPT ![p] = @ - n]
        /\ UNCHANGED <<nCons, nProd, fq, queue, collected, txq, cq, returned>>
    BY DEF RxPeek, pool, txSide
  <2> HIDE DEF n
  <2> QED BY <2>1, <2>2, Counts DEF Held, IInv, TypeOK
<1>5. Accounted'
  BY <1>4, HeldKept DEF RxPeek, IInv, Accounted, pool, RxAt, AtMost
<1> QED BY <1>1, <1>2, <1>3, <1>5 DEF IInv

\* The fill ring gets as many buffers as were received.
LEMMA RxRefillStep ==
  ASSUME IInv, NEW p \in Ports, RxRefill(p)
  PROVE  IInv'
<1>1. TypeOK'
  BY Counts, Sizes DEF RxRefill, IInv, TypeOK, Receivers, pool, rxSide, txSide, RxAt
<1>2. Receivers'
  BY Counts, Sizes DEF RxRefill, IInv, TypeOK, Receivers, pool, rxSide, txSide, RxAt
<1>3. Losses'
  BY DEF RxRefill, IInv, Losses, pool, RxAt
<1>4. Held' = Held
  BY Counts DEF RxRefill, Held, IInv, TypeOK, pool, rxSide, txSide, RxAt
<1>5. Accounted'
  BY <1>4, HeldKept DEF RxRefill, IInv, Accounted, pool, RxAt
<1> QED BY <1>1, <1>2, <1>3, <1>5 DEF IInv

\* A packet goes from the queue to the collector.
LEMMA TxPullStep ==
  ASSUME IInv, NEW p \in Ports, TxPull(p)
  PROVE  IInv'
<1>1. TypeOK'
  BY Counts, Sizes DEF TxPull, IInv, TypeOK, Receivers, pool, rxSide, txSide, TxAt
<1>2. Receivers'
  BY Counts, Sizes DEF TxPull, IInv, TypeOK, Receivers, pool, rxSide, txSide, TxAt
<1>3. Losses'
  BY DEF TxPull, IInv, Losses, pool, TxAt
<1>4. Held' = Held
  BY Counts DEF TxPull, Held, IInv, TypeOK, pool, rxSide, txSide, TxAt
<1>5. Accounted'
  BY <1>4, HeldKept DEF TxPull, IInv, Accounted, pool, TxAt
<1> QED BY <1>1, <1>2, <1>3, <1>5 DEF IInv

\* The completions are looked at.
LEMMA TxPeekStep ==
  ASSUME IInv, NEW p \in Ports, TxPeek(p)
  PROVE  IInv'
<1>1. TypeOK'
  BY Counts, Sizes DEF TxPeek, IInv, TypeOK, Receivers, pool, rxSide, txSide, TxAt
<1>2. Receivers'
  BY Counts, Sizes DEF TxPeek, IInv, TypeOK, Receivers, pool, rxSide, txSide, TxAt
<1>3. Losses'
  BY DEF TxPeek, IInv, Losses, pool, TxAt
<1>4. Held' = Held
  BY Counts DEF TxPeek, Held, IInv, TypeOK, pool, rxSide, txSide, TxAt
<1>5. Accounted'
  BY <1>4, HeldKept DEF TxPeek, IInv, Accounted, pool, TxAt
<1> QED BY <1>1, <1>2, <1>3, <1>5 DEF IInv

\* The entries of the buffers given back leave the completion ring.
LEMMA TxReleaseStep ==
  ASSUME IInv, NEW p \in Ports, TxRelease(p)
  PROVE  IInv'
<1>1. TypeOK'
  BY Counts, Sizes DEF TxRelease, IInv, TypeOK, Receivers, pool, rxSide, txSide, TxAt
<1>2. Receivers'
  BY Counts, Sizes DEF TxRelease, IInv, TypeOK, Receivers, pool, rxSide, txSide, TxAt
<1>3. Losses'
  BY DEF TxRelease, IInv, Losses, pool, TxAt
<1>4. Held' = Held
  BY Counts DEF TxRelease, Held, IInv, TypeOK, pool, rxSide, txSide, TxAt
<1>5. Accounted'
  BY <1>4, HeldKept DEF TxRelease, IInv, Accounted, pool, TxAt
<1> QED BY <1>1, <1>2, <1>3, <1>5 DEF IInv

\* The collected packets go to the transmit ring.
LEMMA TxSubmitStep ==
  ASSUME IInv, NEW p \in Ports, TxSubmit(p)
  PROVE  IInv'
<1>1. TypeOK'
  BY Counts, Sizes DEF TxSubmit, IInv, TypeOK, Receivers, pool, rxSide, txSide, TxAt
<1>2. Receivers'
  BY Counts, Sizes DEF TxSubmit, IInv, TypeOK, Receivers, pool, rxSide, txSide, TxAt
<1>3. Losses'
  BY DEF TxSubmit, IInv, Losses, pool, TxAt
<1>4. Held' = Held
  BY Counts DEF TxSubmit, Held, IInv, TypeOK, pool, rxSide, txSide, TxAt
<1>5. Accounted'
  BY <1>4, HeldKept DEF TxSubmit, IInv, Accounted, pool, TxAt
<1> QED BY <1>1, <1>2, <1>3, <1>5 DEF IInv

\* A packet goes out where it came in, or a buffer moves to another port.
LEMMA RxForwardStep ==
  ASSUME IInv, NEW p \in Ports, RxForward(p)
  PROVE  IInv'
<1>0. PICK d \in Ports : queue[d] < QueueSize /\ queue' = [queue EXCEPT ![d] = @ + 1]
  <2>1. Dest[p] \subseteq Ports
    BY PathAssumption
  <2> QED BY <2>1 DEF RxForward
<1>1. /\ d \in Ports /\ burst[p] \in Nat \ {0} /\ burst[p] <= MaxBurst
      /\ queue[d] \in Nat /\ queue[d] < QueueSize
      /\ MaxBurst \in Nat /\ QueueSize \in Nat
  <2>1. rxPc[p] = "process"
    BY DEF RxForward, Processed, RxAt
  <2> QED BY <1>0, <2>1, Counts, Sizes DEF IInv, TypeOK, Receivers
<1>2. /\ burst' = [burst EXCEPT ![p] = @ - 1] /\ queue' = [queue EXCEPT ![d] = @ + 1]
      /\ UNCHANGED <<full, nCons, nProd, fq, rx, txPc, collected, peeked, returned, txq, cq, lost>>
  BY <1>0 DEF RxForward, Processed, pool, txSide
<1>3. TypeOK'
  <2>1. queue' \in [Ports -> 0..QueueSize] /\ burst' \in [Ports -> 0..MaxBurst]
    BY SMTT(60), <1>1, <1>2 DEF IInv, TypeOK
  <2>2. rxPc' \in [Ports -> {"check", "peek", "refill", "process"}]
    BY DEF RxForward, Processed, RxAt, IInv, TypeOK
  <2> QED BY <1>2, <2>1, <2>2 DEF IInv, TypeOK
<1>4. Receivers'
  BY Counts, Sizes DEF RxForward, Processed, RxAt, IInv, TypeOK, Receivers, txSide
<1>5. Losses'
  BY <1>2 DEF IInv, Losses
<1>6. Total(Held)' = Total(Held)
  <2>1. Held' \in [Ports -> Int]
    BY <1>1, <1>2, Counts DEF Held, IInv, TypeOK
  <2>2. CASE d = p
    <3>1. Held' = Held
      BY <1>1, <1>2, <2>2, Counts DEF Held, IInv, TypeOK
    <3> QED BY <3>1, HeldKept
  <2>3. CASE d # p
    <3>1. Held'[p] = Held[p] - 1
      BY SMTT(60), <1>1, <1>2, <2>3, Counts DEF Held, IInv, TypeOK
    <3>2. Held'[d] = Held[d] + 1
      BY <1>1, <1>2, <2>3, Counts DEF Held, IInv, TypeOK
    <3>3. \A r \in Ports \ {p, d} : Held'[r] = Held[r]
      BY <1>1, <1>2, <2>3, Counts DEF Held, IInv, TypeOK
    <3> QED BY <1>1, <2>1, <2>3, <3>1, <3>2, <3>3, HeldHandedOver DEF IInv
  <2> QED BY <2>2, <2>3
<1>7. Accounted'
  BY <1>2, <1>6 DEF IInv, Accounted
<1> QED BY <1>3, <1>4, <1>5, <1>7 DEF IInv

\* A packet for another node takes its buffer with it.
LEMMA RxNonLocalStep ==
  ASSUME IInv, NEW p \in Ports, RxNonLocal(p)
  PROVE  IInv'
<1>1. burst[p] \in Nat \ {0} /\ burst[p] <= MaxBurst /\ MaxBurst \in Nat
  BY Counts, Sizes DEF RxNonLocal, Processed, RxAt, IInv, TypeOK, Receivers
<1>2. /\ burst' = [burst EXCEPT ![p] = @ - 1] /\ lost' = lost + 1 /\ NonLocal # {}
      /\ UNCHANGED <<full, nCons, nProd, fq, rx, queue, txPc, collected, peeked, returned, txq, cq>>
  BY DEF RxNonLocal, Processed, pool, txSide
<1>3. TypeOK'
  <2>1. burst' \in [Ports -> 0..MaxBurst]
    BY <1>1, <1>2 DEF IInv, TypeOK
  <2>2. rxPc' \in [Ports -> {"check", "peek", "refill", "process"}]
    BY DEF RxNonLocal, Processed, RxAt, IInv, TypeOK
  <2>3. Held[p] > 0
    BY <1>1, Counts DEF Held, IInv
  <2>4. lost' \in 0..(NSlabs * SlabSize)
    BY <1>2, <2>3, LostAtMost
  <2> QED BY <1>2, <2>1, <2>2, <2>4 DEF IInv, TypeOK
<1>4. Receivers'
  BY Counts, Sizes DEF RxNonLocal, Processed, RxAt, IInv, TypeOK, Receivers, txSide
<1>5. Losses'
  <2>1. NPorts * SlabSize \in Int /\ lost \in Int
    BY Sizes, Counts DEF IInv
  <2> QED BY <1>2, <2>1 DEF IInv, Losses
<1>6. Total(Held)' = Total(Held) - 1
  <2>1. Held' \in [Ports -> Int]
    BY <1>1, <1>2, Counts DEF Held, IInv, TypeOK
  <2>2. Held'[p] = Held[p] + (0 - 1)
    BY <1>1, <1>2, Counts DEF Held, IInv, TypeOK
  <2>3. \A r \in Ports \ {p} : Held'[r] = Held[r]
    BY <1>1, <1>2, Counts DEF Held, IInv, TypeOK
  <2>4. Total(Held)' = Total(Held) + (0 - 1)
    BY <2>1, <2>2, <2>3, HeldMoved DEF IInv
  <2> QED BY <2>4, HeldType DEF IInv
<1>7. Accounted'
  <2>1. full * SlabSize \in Int /\ lost \in Int /\ Total(Held) \in Int
    BY Sizes, Counts, HeldType DEF IInv
  <2> QED BY <1>2, <1>6, <2>1 DEF IInv, Accounted
<1> QED BY <1>3, <1>4, <1>5, <1>7 DEF IInv

-----------------------------------------------------------------------------
(* The steps that trade a slab with the pool, or may *)

\* An empty consumer slab for a full one of the pool
LEMMA RxCheckStep ==
  ASSUME IInv, NEW p \in Ports, RxCheck(p)
  PROVE  IInv'
<1>1. TypeOK'
  BY Counts, Sizes DEF RxCheck, IInv, TypeOK, RxAt, txSide
<1>2. Receivers'
  BY Counts, Sizes DEF RxCheck, IInv, TypeOK, Receivers, RxAt, txSide
<1>3. Losses'
  BY DEF RxCheck, IInv, Losses
<1>4. Accounted'
  <2>1. UNCHANGED <<nProd, fq, rx, burst, queue, collected, txq, cq, returned, lost>>
    BY DEF RxCheck, txSide
  <2>2. CASE UNCHANGED <<full, nCons>>
    <3>1. Held' = Held
      BY <2>1, <2>2 DEF Held
    <3> QED BY <2>1, <2>2, <3>1, HeldKept DEF IInv, Accounted
  <2>3. CASE nCons[p] = 0 /\ full' = full - 1 /\ nCons' = [nCons EXCEPT ![p] = SlabSize]
    <3>1. Held' \in [Ports -> Int] /\ Held'[p] = Held[p] + SlabSize
      BY <2>1, <2>3, Counts, Sizes DEF Held, IInv, TypeOK
    <3>2. \A q \in Ports \ {p} : Held'[q] = Held[q]
      BY <2>1, <2>3, Counts, Sizes DEF Held, IInv, TypeOK
    <3>3. SlabSize \in Int
      BY Sizes
    <3>4. Total(Held)' = Total(Held) + SlabSize
      BY <3>1, <3>2, <3>3, HeldMoved DEF IInv
    <3>5. full' * SlabSize = full * SlabSize - SlabSize /\ full * SlabSize \in Int
      BY <2>3, Counts, Slabs DEF IInv
    <3>6. Total(Held) \in Int /\ lost \in Int
      BY HeldType, Counts DEF IInv
    <3> QED BY <2>1, <3>3, <3>4, <3>5, <3>6 DEF IInv, Accounted
  <2> QED BY <2>2, <2>3 DEF RxCheck
<1> QED BY <1>1, <1>2, <1>3, <1>4 DEF IInv

\* The receive side of a port holds FillSize buffers.
LEMMA HeldAtLeast ==
  ASSUME IInv, NEW p \in Ports
  PROVE  /\ FillSize <= Held[p]
         /\ /\ nProd[p] = SlabSize
            /\ (rxPc[p] = "process" /\ burst[p] > 0) \/ returned[p] < cq[p]
            => FillSize + SlabSize + 1 <= Held[p]
<1>1. Held[p] = nCons[p] + nProd[p] + fq[p] + rx[p] + burst[p]
                  + queue[p] + collected[p] + txq[p] + cq[p] - returned[p]
  BY DEF Held
<1>2. /\ nCons[p] \in Nat /\ nProd[p] \in Nat
      /\ fq[p] \in Nat /\ rx[p] \in Nat /\ burst[p] \in Nat
      /\ queue[p] \in Nat /\ collected[p] \in Nat
      /\ txq[p] \in Nat /\ cq[p] \in Nat /\ returned[p] \in Nat
      /\ returned[p] <= cq[p]
  BY Counts, Sizes DEF IInv
<1>3. fq[p] + rx[p] + (IF rxPc[p] = "refill" THEN burst[p] ELSE 0) = FillSize
  BY DEF IInv, Receivers
<1> QED BY <1>1, <1>2, <1>3, Sizes

\* A port with a full producer slab and one more buffer leaves a slab's room in
\* the pool: its receive side and those of the others hold the rest.
LEMMA TradeFits ==
  ASSUME IInv, NEW p \in Ports, nProd[p] = SlabSize,
         (rxPc[p] = "process" /\ burst[p] > 0) \/ returned[p] < cq[p]
  PROVE  full + 1 \in 0..PoolSlots
<1>1. /\ Held \in [Ports -> Nat] /\ Held \in [Ports -> Int] /\ Total(Held) \in Int
      /\ full \in Nat /\ lost \in Int
  BY HeldType, Counts, Sizes DEF IInv, TypeOK
<1> DEFINE w == [q \in Ports |-> FillSize]
<1>2. w \in [Ports -> Int] /\ \A q \in Ports : w[q] = FillSize
  BY Sizes
<1> HIDE DEF w
<1>3. \A q \in Ports : w[q] <= Held[q]
  BY <1>2, HeldAtLeast
<1>4. w[p] + SlabSize + 1 <= Held[p]
  BY <1>2, HeldAtLeast
<1>5. PICK h \in [Ports -> Int] :
        /\ h[p] = Held[p] - SlabSize - 1
        /\ \A q \in Ports \ {p} : h[q] = Held[q]
  <2>1. [Held EXCEPT ![p] = @ - SlabSize - 1] \in [Ports -> Int]
    BY <1>1, Sizes
  <2> QED BY <1>1, <2>1
<1>6. Total(h) = Total(Held) - SlabSize - 1
  <2>1. Total(h) = Total(Held) - Held[p] + h[p]
    BY <1>1, <1>5, Sizes, SumUpdated, TotalIsSum
  <2> QED BY <1>1, <1>5, <2>1, Sizes
<1>7. Total(w) <= Total(h)
  <2>1. \A q \in Ports : w[q] <= h[q]
    BY <1>1, <1>2, <1>3, <1>4, <1>5, Sizes
  <2> QED BY <1>2, <1>5, <2>1, Sizes, SumMonotonic, TotalIsSum
<1>8. Total(w) = NPorts * FillSize
  <2>1. FillSize \in Int
    BY Sizes
  <2> QED BY <1>2, <2>1, Sizes, SumOfConstant, TotalIsSum DEF NPorts
<1>9. full * SlabSize + NPorts * SlabSize + NPorts * FillSize + SlabSize + 1 <= NSlabs * SlabSize
  <2>1. \A m, n \in Int : m * n \in Int
    OBVIOUS
  <2>2. /\ full * SlabSize \in Int /\ NPorts * SlabSize \in Int
        /\ NPorts * FillSize \in Int /\ NSlabs * SlabSize \in Int
    BY <1>1, <2>1, Sizes
  <2>3. full * SlabSize + lost + Total(Held) = NSlabs * SlabSize /\ lost >= NPorts * SlabSize
    BY DEF IInv, Accounted, Losses
  <2> QED BY <1>1, <1>6, <1>7, <1>8, <2>2, <2>3, Sizes
<1>10. NPorts * SlabSize - NPorts * FillSize <= SlabSize
  <2>1. \A m, n, k \in Int : m * (n - k) = m * n - m * k
    OBVIOUS
  <2> QED BY <2>1, FillAssumption, Sizes
<1>11. PoolSlots * SlabSize = NSlabs * SlabSize - NPorts * SlabSize - NPorts * SlabSize
  <2>1. \A m, n, k \in Int : (m - 2 * n) * k = m * k - n * k - n * k
    OBVIOUS
  <2> QED BY <2>1, Sizes DEF PoolSlots
<1>12. full * SlabSize < PoolSlots * SlabSize
  <2>1. \A m, n \in Int : m * n \in Int
    OBVIOUS
  <2>2. /\ full * SlabSize \in Int /\ NPorts * SlabSize \in Int
        /\ NPorts * FillSize \in Int /\ NSlabs * SlabSize \in Int
    BY <1>1, <2>1, Sizes
  <2> QED BY <1>9, <1>10, <1>11, <2>2, Sizes
<1>13. full < PoolSlots
  BY <1>1, <1>12, Sizes, SlabOrder
<1> QED BY <1>1, <1>13, Sizes

\* Given back, a buffer counts where it is put: in the slab or in the pool.
LEMMA GivenBack ==
  ASSUME IInv, NEW p \in Ports, BcacheProd(p), lost' = lost,
         Held' \in [Ports -> Int], Held'[p] = Held[p] - 1 - nProd[p] + nProd'[p],
         \A q \in Ports \ {p} : Held'[q] = Held[q]
  PROVE  Accounted'
<1>1. /\ full * SlabSize \in Int /\ lost \in Int /\ Total(Held) \in Int /\ full \in Int
      /\ Held[p] \in Int /\ nProd[p] \in Int /\ nProd \in [Ports -> Int] /\ SlabSize \in Int
      /\ full * SlabSize + lost + Total(Held) = NSlabs * SlabSize
  BY Sizes, Counts, HeldType, Slabs DEF IInv, Accounted, TypeOK
<1>2. CASE nProd' = [nProd EXCEPT ![p] = @ + 1] /\ UNCHANGED full
  <2>1. Held'[p] = Held[p] + 0
    BY <1>1, <1>2
  <2>2. Total(Held)' = Total(Held) + 0
    BY <2>1, HeldMoved DEF IInv
  <2> QED BY <1>1, <1>2, <2>2 DEF Accounted
<1>3. CASE nProd[p] = SlabSize /\ nProd' = [nProd EXCEPT ![p] = 1] /\ full' = full + 1
  <2>1. Held'[p] = Held[p] + (0 - SlabSize)
    BY <1>1, <1>3
  <2>2. Total(Held)' = Total(Held) + (0 - SlabSize)
    BY <1>1, <2>1, HeldMoved DEF IInv
  <2>3. full' * SlabSize = full * SlabSize + SlabSize
    BY <1>1, <1>3, Slabs
  <2> QED BY <1>1, <1>3, <2>2, <2>3 DEF Accounted
<1> QED BY <1>2, <1>3 DEF BcacheProd

\* The counters a call of bcache_prod changes stay within their capacities.
LEMMA ProdFits ==
  ASSUME IInv, NEW p \in Ports, BcacheProd(p),
         (rxPc[p] = "process" /\ burst[p] > 0) \/ returned[p] < cq[p]
  PROVE  /\ full' \in 0..PoolSlots /\ nProd' \in [Ports -> 0..SlabSize]
         /\ \A q \in Ports \ {p} : nProd'[q] = nProd[q]
<1>1. nProd \in [Ports -> 0..SlabSize] /\ full \in 0..PoolSlots
  BY DEF IInv, TypeOK
<1>2. CASE nProd[p] < SlabSize /\ nProd' = [nProd EXCEPT ![p] = @ + 1] /\ UNCHANGED full
  BY <1>1, <1>2, Sizes
<1>3. CASE nProd[p] = SlabSize /\ nProd' = [nProd EXCEPT ![p] = 1] /\ full' = full + 1
  BY <1>1, <1>3, TradeFits, Sizes
<1> QED BY <1>2, <1>3 DEF BcacheProd

\* The rest of a burst after a packet whose buffer is given back
LEMMA RefusedStep ==
  ASSUME IInv, NEW p \in Ports, Processed(p), BcacheProd(p), UNCHANGED <<queue, lost>>
  PROVE  IInv'
<1>1. rxPc[p] = "process" /\ burst[p] \in Nat \ {0} /\ burst[p] <= MaxBurst /\ MaxBurst \in Nat
  BY Counts, Sizes DEF Processed, RxAt, IInv, TypeOK, Receivers
<1>2. /\ burst' = [burst EXCEPT ![p] = @ - 1]
      /\ UNCHANGED <<nCons, fq, rx, queue, txPc, collected, peeked, returned, txq, cq, lost>>
  BY DEF Processed, txSide
<1>3. /\ full' \in 0..PoolSlots /\ nProd' \in [Ports -> 0..SlabSize]
      /\ \A q \in Ports \ {p} : nProd'[q] = nProd[q]
  BY <1>1, ProdFits
<1>4. TypeOK'
  <2>1. burst' \in [Ports -> 0..MaxBurst]
    BY <1>1, <1>2 DEF IInv, TypeOK
  <2>2. rxPc' \in [Ports -> {"check", "peek", "refill", "process"}]
    BY DEF Processed, RxAt, IInv, TypeOK
  <2> QED BY <1>2, <1>3, <2>1, <2>2 DEF IInv, TypeOK
<1>5. Receivers'
  BY Counts, Sizes DEF Processed, RxAt, IInv, TypeOK, Receivers, txSide
<1>6. Losses'
  BY DEF IInv, Losses
<1>7. Accounted'
  <2>1. nProd' \in [Ports -> Int] /\ nProd'[p] \in Int
    BY <1>3, Sizes
  <2>2. Held' \in [Ports -> Int]
    <3>1. ASSUME NEW q \in Ports
          PROVE  (nCons[q] + nProd[q] + fq[q] + rx[q] + burst[q]
                    + queue[q] + collected[q] + txq[q] + cq[q] - returned[q])' \in Int
      <4>1. burst'[q] \in Int /\ returned'[q] \in Int /\ nProd'[q] \in Int
        BY <1>4, <2>1, Sizes DEF TypeOK
      <4> QED BY <1>2, <4>1, Counts DEF IInv
    <3> QED BY <3>1 DEF Held
  <2>3. Held'[p] = Held[p] - 1 - nProd[p] + nProd'[p]
    BY SMTT(60), <1>1, <1>2, <2>1, Counts DEF Held, IInv, TypeOK
  <2>4. \A q \in Ports \ {p} : Held'[q] = Held[q]
    BY <1>1, <1>2, <1>3, Counts DEF Held, IInv, TypeOK
  <2> QED BY <2>2, <2>3, <2>4, GivenBack
<1> QED BY <1>4, <1>5, <1>6, <1>7 DEF IInv

\* A packet refused by a full queue
LEMMA RxQueueFullStep ==
  ASSUME IInv, NEW p \in Ports, RxQueueFull(p)
  PROVE  IInv'
BY RefusedStep DEF RxQueueFull

\* A packet rejected by process_rx_packet
LEMMA RxRejectStep ==
  ASSUME IInv, NEW p \in Ports, RxReject(p)
  PROVE  IInv'
BY RefusedStep DEF RxReject

\* A completed buffer goes back to the pool; the ring still has its entry.
LEMMA TxCompleteStep ==
  ASSUME IInv, NEW p \in Ports, TxComplete(p)
  PROVE  IInv'
<1>1. /\ returned[p] \in Nat /\ peeked[p] \in Nat /\ cq[p] \in Nat
      /\ returned[p] < peeked[p] /\ peeked[p] <= cq[p] /\ cq[p] <= CompSize /\ CompSize \in Nat
  BY Sizes DEF TxComplete, IInv, TypeOK
<1>2. /\ returned' = [returned EXCEPT ![p] = @ + 1]
      /\ UNCHANGED <<nCons, fq, rx, rxPc, burst, queue, collected, peeked, txq, cq, lost>>
  BY DEF TxComplete
<1>3. /\ full' \in 0..PoolSlots /\ nProd' \in [Ports -> 0..SlabSize]
      /\ \A q \in Ports \ {p} : nProd'[q] = nProd[q]
  BY <1>1, ProdFits DEF TxComplete
<1>4. TypeOK'
  <2>1. returned' \in [Ports -> 0..CompSize]
    BY <1>1, <1>2 DEF IInv, TypeOK
  <2>2. txPc' \in [Ports -> {"pull", "complete", "reserve"}]
    BY DEF TxComplete, TxAt, IInv, TypeOK
  <2>3. \A q \in Ports : returned'[q] <= peeked'[q] /\ peeked'[q] <= cq'[q]
    BY <1>1, <1>2 DEF IInv, TypeOK
  <2> QED BY <1>2, <1>3, <2>1, <2>2, <2>3 DEF IInv, TypeOK
<1>5. Receivers'
  BY <1>2 DEF IInv, Receivers
<1>6. Losses'
  BY <1>2 DEF IInv, Losses
<1>7. Accounted'
  <2>1. nProd' \in [Ports -> Int] /\ nProd'[p] \in Int
    BY <1>3, Sizes
  <2>2. Held' \in [Ports -> Int]
    <3>1. ASSUME NEW q \in Ports
          PROVE  (nCons[q] + nProd[q] + fq[q] + rx[q] + burst[q]
                    + queue[q] + collected[q] + txq[q] + cq[q] - returned[q])' \in Int
      <4>1. burst'[q] \in Int /\ returned'[q] \in Int /\ nProd'[q] \in Int
        BY <1>4, <2>1, Sizes DEF TypeOK
      <4> QED BY <1>2, <4>1, Counts DEF IInv
    <3> QED BY <3>1 DEF Held
  <2>3. Held'[p] = Held[p] - 1 - nProd[p] + nProd'[p]
    BY SMTT(60), <1>1, <1>2, <2>1, Counts DEF Held, IInv, TypeOK
  <2>4. \A q \in Ports \ {p} : Held'[q] = Held[q]
    BY <1>1, <1>2, <1>3, Counts DEF Held, IInv, TypeOK
  <2> QED BY <1>2, <2>2, <2>3, <2>4, GivenBack DEF TxComplete
<1> QED BY <1>4, <1>5, <1>6, <1>7 DEF IInv

-----------------------------------------------------------------------------
\* Initially every port holds one slab of buffers and has lost another one.
LEMMA InitIInv ==
  ASSUME Init
  PROVE  IInv
<1>1. SlabSize - FillSize \in 0..SlabSize /\ NPorts * SlabSize \in Nat
  <2>1. \A m, n \in Nat : m * n \in Nat
    OBVIOUS
  <2> QED BY <2>1, Sizes
<1>2. PoolSlots * SlabSize + NPorts * SlabSize + NPorts * SlabSize = NSlabs * SlabSize
  <2>1. \A m, n, k \in Int : (m - 2 * n) * k + n * k + n * k = m * k
    OBVIOUS
  <2> QED BY <2>1, Sizes DEF PoolSlots
<1>3. NPorts * SlabSize \in 0..(NSlabs * SlabSize) /\ NSlabs * SlabSize \in Int
      /\ PoolSlots * SlabSize \in Nat
  <2>1. \A m, n \in Nat : m * n \in Nat
    OBVIOUS
  <2>2. PoolSlots * SlabSize \in Nat /\ NSlabs * SlabSize \in Nat
    BY <2>1, Sizes
  <2> QED BY <1>1, <1>2, <2>2
<1>4. TypeOK
  BY <1>1, <1>3, Sizes DEF Init, TypeOK, Zero
<1>5. Receivers
  BY Sizes DEF Init, Receivers, Zero
<1>6. Losses
  BY <1>1 DEF Init, Losses
<1>7. Total(Held) = NPorts * SlabSize
  <2>1. Held \in [Ports -> Int] /\ \A p \in Ports : Held[p] = SlabSize
    BY Sizes DEF Init, Held, Zero
  <2>2. SlabSize \in Int
    BY Sizes
  <2> QED BY <2>1, <2>2, Sizes, SumOfConstant, TotalIsSum DEF NPorts
<1>8. Accounted
  BY <1>1, <1>2, <1>3, <1>7 DEF Init, Accounted
<1> QED BY <1>4, <1>5, <1>6, <1>8 DEF IInv

\* A step that changes nothing
LEMMA StutterStep ==
  ASSUME IInv, UNCHANGED vars
  PROVE  IInv'
<1>1. UNCHANGED <<full, nProd, nCons, fq, rx, rxPc, burst, queue,
                  txPc, collected, peeked, returned, txq, cq, lost>>
  BY DEF vars, pool, rxSide, txSide
<1>2. TypeOK' /\ Receivers' /\ Losses'
  BY <1>1 DEF IInv, TypeOK, Receivers, Losses
<1>3. Held' = Held
  BY <1>1 DEF Held
<1> QED BY <1>1, <1>2, <1>3, HeldKept DEF IInv, Accounted

\* A step of a receive thread, a transmit thread or the kernel keeps the invariant.
LEMMA StepIInv ==
  ASSUME IInv, [Next]_vars
  PROVE  IInv'
<1>1. ASSUME NEW p \in Ports, RxStep(p)
      PROVE  IInv'
  BY <1>1, RxCheckStep, RxPeekStep, RxRefillStep, RxForwardStep, RxQueueFullStep,
     RxRejectStep, RxNonLocalStep DEF RxStep
<1>2. ASSUME NEW p \in Ports, TxStep(p)
      PROVE  IInv'
  BY <1>2, TxPullStep, TxPeekStep, TxCompleteStep, TxReleaseStep, TxSubmitStep DEF TxStep
<1>3. ASSUME NEW p \in Ports, KernelReceive(p) \/ KernelTransmit(p)
      PROVE  IInv'
  BY <1>3, KernelReceiveStep, KernelTransmitStep
<1> QED BY <1>1, <1>2, <1>3, StutterStep DEF Next

(* What the other theorems rest on: every buffer has its place, the receive    *)
(* side of each port keeps its fill ring supplied, and losses are accounted.   *)
THEOREM Invariant == Spec => []IInv
<1>1. Init => IInv
  BY InitIInv
<1>2. IInv /\ [Next]_vars => IInv'
  BY StepIInv
<1> QED BY <1>1, <1>2, PTL DEF Spec

(* No slab, ring, queue or burst ever exceeds its capacity, and the pool       *)
(* never has more full slabs than slots: bcache_prod has room for the slab it  *)
(* gives back, whatever the ports do.                                         *)
THEOREM TypeCorrect == Spec => []TypeOK
<1>1. IInv => TypeOK
  BY DEF IInv
<1> QED BY <1>1, Invariant, PTL

(* Every buffer is somewhere on its way: no interleaving of receive threads,  *)
(* transmit threads and kernel loses or duplicates one, except by the branch   *)
(* that leaks packets for other nodes.                                        *)
THEOREM AllBuffersAccounted == Spec => []BuffersAccountedFor
<1>1. IInv => BuffersAccountedFor
  BY HeldTotal DEF IInv
<1> QED BY <1>1, Invariant, PTL

-----------------------------------------------------------------------------
\* If there is none in total, no port has one.
LEMMA NothingInTransit ==
  ASSUME NEW f \in [Ports -> Nat], Total(f) <= 0, NEW p \in Ports
  PROVE  f[p] = 0
<1>1. f \in [Ports -> Int] /\ f[p] \in Nat
  OBVIOUS
<1>2. f[p] <= Total(f) /\ Total(f) \in Int
  BY <1>1, Sizes, SumAtLeast, SumType, TotalIsSum
<1> QED BY <1>1, <1>2

\* Ports that are all idle can hold only so much: less than EnoughBuffers leaves.
LEMMA StarvedIsBusy ==
  ASSUME IInv
  PROVE  StarvedOnlyWhileBusy
<1> SUFFICES ASSUME NEW p \in Ports, EnoughBuffers, NonLocal = {}, full = 0, nCons[p] = 0,
                    ~ (Total(burst) + Total(queue) + Total(collected) > 0)
             PROVE  FALSE
  BY DEF StarvedOnlyWhileBusy
<1>1. /\ burst \in [Ports -> Nat] /\ queue \in [Ports -> Nat] /\ collected \in [Ports -> Nat]
      /\ burst \in [Ports -> Int] /\ queue \in [Ports -> Int] /\ collected \in [Ports -> Int]
  BY Sizes DEF IInv, TypeOK
<1>2. \A q \in Ports : burst[q] = 0 /\ queue[q] = 0 /\ collected[q] = 0
  <2>1. burst[p] \in Nat /\ queue[p] \in Nat /\ collected[p] \in Nat
    BY <1>1
  <2>2. /\ burst[p] <= Total(burst) /\ queue[p] <= Total(queue) /\ collected[p] <= Total(collected)
        /\ Total(burst) \in Int /\ Total(queue) \in Int /\ Total(collected) \in Int
    BY <1>1, Sizes, SumAtLeast, SumType, TotalIsSum
  <2>3. Total(burst) <= 0 /\ Total(queue) <= 0 /\ Total(collected) <= 0
    BY <2>1, <2>2
  <2> QED BY <1>1, <2>3, NothingInTransit
<1> DEFINE most == 2 * SlabSize + FillSize + TxSize + CompSize
<1>3. most \in Int /\ Held \in [Ports -> Int] /\ SlabSize \in Int
  BY HeldType, Sizes DEF IInv
<1>4. \A q \in Ports : Held[q] <= most
  <2> TAKE q \in Ports
  <2>1. Held[q] = nCons[q] + nProd[q] + fq[q] + rx[q] + burst[q]
                    + queue[q] + collected[q] + txq[q] + cq[q] - returned[q]
    BY DEF Held
  <2>2. /\ nCons[q] \in 0..SlabSize /\ nProd[q] \in 0..SlabSize
        /\ fq[q] \in Nat /\ rx[q] \in Nat /\ txq[q] \in 0..TxSize
        /\ cq[q] \in 0..CompSize /\ returned[q] \in Nat
    BY Counts DEF IInv, TypeOK
  <2>3. fq[q] + rx[q] = FillSize
    BY <1>2, <2>2, Sizes DEF IInv, Receivers
  <2> QED BY <1>2, <2>1, <2>2, <2>3, Sizes
<1>5. Held[p] + SlabSize <= most
  <2>1. Held[p] = nCons[p] + nProd[p] + fq[p] + rx[p] + burst[p]
                    + queue[p] + collected[p] + txq[p] + cq[p] - returned[p]
    BY DEF Held
  <2>2. /\ nProd[p] \in 0..SlabSize
        /\ fq[p] \in Nat /\ rx[p] \in Nat /\ txq[p] \in 0..TxSize
        /\ cq[p] \in 0..CompSize /\ returned[p] \in Nat
    BY Counts DEF IInv, TypeOK
  <2>3. fq[p] + rx[p] = FillSize
    BY <1>2, <2>2, Sizes DEF IInv, Receivers
  <2> QED BY <1>2, <2>1, <2>2, <2>3, Sizes
<1> DEFINE w == [q \in Ports |-> most]
<1>6. w \in [Ports -> Int] /\ \A q \in Ports : w[q] = most
  BY <1>3
<1>7. PICK h \in [Ports -> Int] :
        /\ h[p] = Held[p] + SlabSize
        /\ \A q \in Ports \ {p} : h[q] = Held[q]
  <2>1. [Held EXCEPT ![p] = @ + SlabSize] \in [Ports -> Int]
    BY <1>3
  <2> QED BY <1>3, <2>1
<1> HIDE DEF w, most
<1>8. Total(h) = Total(Held) + SlabSize /\ Total(Held) \in Int
  <2>1. Total(h) = Total(Held) - Held[p] + h[p]
    BY <1>3, <1>7, Sizes, SumUpdated, TotalIsSum
  <2>2. Held[p] \in Int /\ Total(Held) \in Int
    BY <1>3, HeldType DEF IInv
  <2> QED BY <1>3, <1>7, <2>1, <2>2
<1>9. Total(h) <= Total(w)
  <2>1. \A q \in Ports : h[q] <= w[q]
    BY <1>4, <1>5, <1>6, <1>7
  <2> QED BY <1>6, <1>7, <2>1, Sizes, SumMonotonic, TotalIsSum
<1>10. Total(w) = NPorts * most
  BY <1>3, <1>6, Sizes, SumOfConstant, TotalIsSum DEF NPorts
<1>11. Total(Held) = NSlabs * SlabSize - NPorts * SlabSize
  <2>1. 0 * SlabSize = 0
    BY Sizes
  <2>2. full * SlabSize + lost + Total(Held) = NSlabs * SlabSize /\ lost = NPorts * SlabSize
    BY DEF IInv, Accounted, Losses
  <2>3. \A m, n \in Int : m * n \in Int
    OBVIOUS
  <2>4. NSlabs * SlabSize \in Int /\ NPorts * SlabSize \in Int
    BY <2>3, Sizes
  <2> QED BY <1>8, <2>1, <2>2, <2>4
<1>12. NPorts * most = 2 * (NPorts * SlabSize) + NPorts * FillSize + NPorts * TxSize + NPorts * CompSize
  <2>1. \A n, a, b, c, d \in Int :
          n * (2 * a + b + c + d) = 2 * (n * a) + n * b + n * c + n * d
    OBVIOUS
  <2> QED BY <2>1, Sizes DEF most
<1>13. NSlabs * SlabSize - NPorts * SlabSize - NPorts * FillSize
         > 2 * (NPorts * SlabSize) + NPorts * CompSize + NPorts * TxSize - SlabSize
  <2>1. \A m, n, k, f \in Int : (m - 2 * n) * k + n * (k - f) = m * k - n * k - n * f
    OBVIOUS
  <2>2. \A n, a, b, c \in Int : n * (a + b + c) + (n - 1) * a = 2 * (n * a) + n * b + n * c - a
    OBVIOUS
  <2>3. PoolSlots * SlabSize + NPorts * (SlabSize - FillSize)
          = NSlabs * SlabSize - NPorts * SlabSize - NPorts * FillSize
    BY <2>1, Sizes DEF PoolSlots
  <2>4. Idle = 2 * (NPorts * SlabSize) + NPorts * CompSize + NPorts * TxSize - SlabSize
    BY <2>2, Sizes DEF Idle
  <2> QED BY <2>3, <2>4 DEF EnoughBuffers
<1>14. /\ NSlabs * SlabSize \in Int /\ NPorts * SlabSize \in Int /\ NPorts * FillSize \in Int
       /\ NPorts * TxSize \in Int /\ NPorts * CompSize \in Int
  <2>1. \A m, n \in Int : m * n \in Int
    OBVIOUS
  <2> QED BY <2>1, Sizes
<1> QED BY <1>3, <1>8, <1>9, <1>10, <1>11, <1>12, <1>13, <1>14

(* With enough buffers, a receive thread that port_rx_burst leaves without     *)
(* buffers waits for one that some thread is moving: not all can be idle.      *)
THEOREM StarvedOnlyIfBusy == Spec => []StarvedOnlyWhileBusy
BY StarvedIsBusy, Invariant, PTL
=============================================================================
