-------------------------- MODULE BufferPoolProofs --------------------------
(***************************************************************************)
(* Machine-checked proofs about BufferPool, for any number of ports, slabs *)
(* and any sizes that satisfy PoolAssumption and FillAssumption.           *)
(***************************************************************************)
EXTENDS BufferPool, DataLemmas, FunctionTheorems

-----------------------------------------------------------------------------
(* Prefix sums: g[i] is the sum of w[0] .. w[i-1].  The total of a quantity *)
(* over all ports is g[NPorts].                                             *)
PrefixSum(w, g) ==
  /\ g \in [0..NPorts -> Nat]
  /\ g[0] = 0
  /\ \A p \in Ports : g[p + 1] = g[p] + w[p]

(* The least element of a non-empty set of naturals. *)
LEMMA LeastNatural ==
  ASSUME NEW T, T \subseteq Nat, T # {}
  PROVE  \E m \in T : \A n \in T : m <= n
<1> DEFINE R == OpToRel(<, Nat)
<1>1. IsWellFoundedOn(R, Nat)
  BY NatLessThanWellFounded
<1>2. \E m \in T : \A n \in T : ~(<<n, m>> \in R)
  BY <1>1, WFMin
<1>3. \A m, n \in T : ~(<<n, m>> \in R) => m <= n
  BY DEF OpToRel
<1> QED BY <1>2, <1>3

(* A prefix sum is at least each term it contains. *)
LEMMA PrefixSumBound ==
  ASSUME NEW w \in [Ports -> Nat], NEW g, PrefixSum(w, g), NEW p \in Ports
  PROVE  \A i \in (p + 1)..NPorts : w[p] <= g[i]
<1> DEFINE Small == {i \in Nat : i \in (p + 1)..NPorts /\ ~(w[p] <= g[i])}
<1>0. NPorts \in Nat /\ p \in Nat /\ p < NPorts
  BY PoolAssumption DEF Ports
<1>1. SUFFICES ASSUME Small # {} PROVE FALSE
  <2>1. \A i \in (p + 1)..NPorts : i \in Nat
    BY <1>0
  <2> QED BY <2>1
<1>2. PICK m \in Small : \A n \in Small : m <= n
  <2>1. Small \subseteq Nat
    OBVIOUS
  <2> HIDE DEF Small
  <2> QED BY <1>1, <2>1, LeastNatural
<1>3. m \in (p + 1)..NPorts /\ ~(w[p] <= g[m])
  OBVIOUS
<1>4. m - 1 \in Ports /\ (m - 1) + 1 = m /\ w[m - 1] \in Nat /\ w[p] \in Nat
  BY <1>0, <1>3 DEF Ports
<1>5. g[m] = g[m - 1] + w[m - 1] /\ g[m - 1] \in Nat /\ g[m] \in Nat
  BY <1>0, <1>3, <1>4 DEF PrefixSum, Ports
<1>6. CASE m = p + 1
  <2>1. g[m] = g[p] + w[p] /\ g[p] \in Nat
    BY <1>0, <1>5, <1>6
  <2> QED BY <1>3, <1>4, <1>5, <2>1
<1>7. CASE m # p + 1
  <2>1. m - 1 \in (p + 1)..NPorts /\ m - 1 \in Nat
    BY <1>0, <1>3, <1>7
  <2>2. ~(w[p] <= g[m - 1])
    BY <1>3, <1>4, <1>5
  <2>3. m - 1 \in Small
    BY <2>1, <2>2
  <2>4. m <= m - 1
    BY <1>2, <2>3
  <2> QED BY <1>0, <1>3, <2>4
<1> QED BY <1>6, <1>7

(* Changing one term changes the total by the same amount. *)
LEMMA PrefixSumUpdate ==
  ASSUME NEW w \in [Ports -> Nat], NEW g, PrefixSum(w, g),
         NEW p \in Ports, NEW v \in Nat
  PROVE  \E h : /\ PrefixSum([w EXCEPT ![p] = v], h)
               /\ h[NPorts] = g[NPorts] + v - w[p]
<1> DEFINE u == [w EXCEPT ![p] = v]
           h == [i \in 0..NPorts |-> IF i <= p THEN g[i] ELSE g[i] + v - w[p]]
<1>1. \A i \in (p + 1)..NPorts : w[p] <= g[i]
  BY PrefixSumBound
<1>2. ASSUME NEW i \in 0..NPorts PROVE h[i] \in Nat
  <2>1. g[i] \in Nat /\ w[p] \in Nat /\ p \in Nat /\ i \in Nat
    BY PoolAssumption DEF Ports, PrefixSum
  <2>2. CASE i <= p
    BY <2>1, <2>2
  <2>3. CASE ~(i <= p)
    <3>1. i \in (p + 1)..NPorts
      BY <2>1, <2>3, PoolAssumption
    <3>2. w[p] <= g[i]
      BY <1>1, <3>1
    <3>3. h[i] = g[i] + v - w[p]
      BY <2>3
    <3> QED BY <2>1, <3>2, <3>3
  <2> QED BY <2>2, <2>3
<1>3. h \in [0..NPorts -> Nat]
  BY <1>2
<1>4. ASSUME NEW q \in Ports PROVE h[q + 1] = h[q] + u[q]
  <2>1. g[q + 1] = g[q] + w[q] /\ q \in 0..NPorts /\ q + 1 \in 0..NPorts
    BY PoolAssumption DEF PrefixSum, Ports
  <2>2. g[q] \in Nat /\ w[q] \in Nat /\ w[p] \in Nat /\ u[q] = IF q = p THEN v ELSE w[q]
    BY <2>1 DEF PrefixSum
  <2> QED BY SMTT(60), <2>1, <2>2, PoolAssumption DEF Ports
<1>5. h[0] = 0
  BY PoolAssumption DEF Ports, PrefixSum
<1>6. h[NPorts] = g[NPorts] + v - w[p]
  BY PoolAssumption DEF Ports
<1>7. PrefixSum(u, h)
  BY <1>3, <1>4, <1>5 DEF PrefixSum
<1> QED BY <1>6, <1>7

-----------------------------------------------------------------------------
(***************************************************************************)
(* The inductive invariant.  The heart of it is TotalBounded: the buffers  *)
(* in full slabs, in caches, in bursts being processed and in flight never *)
(* outnumber what was in the pool when the last port was set up, so a full *)
(* producer slab leaves an empty one in the pool.                          *)
(***************************************************************************)
\* Buffers in the cache of port p and in the part of its burst that is refilled
PortWeight(p) ==
  nCons[p] + nProd[p] + (IF rxPc[p] = "process" THEN Len(burst[p]) ELSE 0)
Weights == [p \in Ports |-> PortWeight(p)]

Room == PoolSlots * SlabSize + nInit * (SlabSize - FillSize)

TotalBounded ==
  phase \in {"init", "running"} =>
    \E g : /\ PrefixSum(Weights, g)
          /\ nSlabsAvailable * SlabSize + g[NPorts] + Cardinality(inFlight) <= Room

\* Received packets whose buffers the fill ring still lacks
Owed(p) == IF rxPc[p] = "refill" THEN Len(burst[p]) ELSE 0

RefillInv ==
  \A p \in Ports :
    /\ Owed(p) <= nCons[p]
    /\ p < nInit => Len(fq[p]) + Len(rx[p]) + Owed(p) = FillSize

Control ==
  /\ phase \in {"init", "running"} => nFreed = 0
  /\ phase \in {"running", "stopping"} => nInit = NPorts
  /\ phase = "init" =>
       /\ nSlabsAvailable = PoolSlots
       /\ inFlight = {}
       /\ \A p \in Ports : rxPc[p] = "check"
  /\ nSlabsAvailable <= NSlabs - 2 * (nInit - nFreed)
  /\ \A p \in Ports : p >= nInit =>
       nCons[p] = 0 /\ nProd[p] = 0 /\ fq[p] = << >> /\ rx[p] = << >>
  /\ \A p \in Ports : rxPc[p] \in {"check", "peek"} <=> burst[p] = << >>
  /\ IsFiniteSet(inFlight)

IInv == TypeOK /\ Control /\ RefillInv /\ TotalBounded /\ SlabPartition

(* The initial states satisfy the invariant. *)
LEMMA InitInvariant == Init => IInv
<1> SUFFICES ASSUME Init PROVE IInv
  OBVIOUS
<1> USE PoolAssumption
<1>1. TypeOK
  <2>1. 0 \in SlabIds /\ \A s \in SlabIds, e \in Entries : <<s, e>> \in Addresses
    BY DEF SlabIds, Addresses
  <2>2. NSlabs \in 0..NSlabs /\ 0 \in 0..NPorts /\ 0 \in 0..SlabSize
    OBVIOUS
  <2> QED BY <2>1, <2>2, EmptySeq DEF Init, TypeOK
<1>2. Control
  BY FS_EmptySet DEF Init, Control, PoolSlots, Ports
<1>3. RefillInv
  BY DEF Init, RefillInv, Owed, Ports
<1>4. SlabPartition
  BY DEF Init, SlabPartition, PoolSlots, SlabIds
<1>5. TotalBounded
  <2> DEFINE z == [i \in 0..NPorts |-> 0]
  <2>1. Weights = [p \in Ports |-> 0]
    BY DEF Init, Weights, PortWeight
  <2>2. PrefixSum(Weights, z) /\ z[NPorts] = 0
    BY <2>1 DEF PrefixSum, Ports
  <2>3. Cardinality(inFlight) = 0
    BY FS_EmptySet DEF Init
  <2>4. NSlabs * SlabSize \in Nat
    OBVIOUS
  <2>5. nSlabsAvailable * SlabSize + 0 + 0 <= Room
    BY <2>4 DEF Init, Room, PoolSlots
  <2> QED BY <2>2, <2>3, <2>5 DEF TotalBounded
<1> QED BY <1>1, <1>2, <1>3, <1>4, <1>5 DEF IInv

-----------------------------------------------------------------------------
(* The weights are naturals. *)
LEMMA WeightsType == TypeOK => Weights \in [Ports -> Nat]
<1> SUFFICES ASSUME TypeOK, NEW p \in Ports PROVE PortWeight(p) \in Nat
  BY DEF Weights
<1>1. nCons[p] \in Nat /\ nProd[p] \in Nat
  BY PoolAssumption DEF TypeOK
<1>2. Len(burst[p]) \in Nat
  BY LenProperties DEF TypeOK
<1> QED BY <1>1, <1>2 DEF PortWeight

(* Products of the slab size that a step or a bound compares. *)
LEMMA SlabProducts ==
  ASSUME NEW a \in Int, NEW b \in Int
  PROVE  /\ a * SlabSize \in Int
         /\ (a + 1) * SlabSize = a * SlabSize + SlabSize
         /\ (a - 1) * SlabSize = a * SlabSize - SlabSize
         /\ (a - 2) * SlabSize = a * SlabSize - 2 * SlabSize
         /\ a * SlabSize < b * SlabSize => a < b
<1>1. SlabSize \in Nat \ {0}
  BY PoolAssumption
<1> QED BY <1>1

(* The guarantee of bcache_prod, from the invariant: with a full producer    *)
(* slab and one more buffer to give back, the pool has an empty slab.        *)
LEMMA RoomLeft ==
  ASSUME IInv, phase = "running", NEW p \in Ports, nProd[p] = SlabSize,
         inFlight # {} \/ (rxPc[p] = "process" /\ burst[p] # << >>)
  PROVE  nSlabsAvailable < PoolSlots
<1> USE PoolAssumption DEF IInv
<1>1. PICK g : /\ PrefixSum(Weights, g)
               /\ nSlabsAvailable * SlabSize + g[NPorts] + Cardinality(inFlight) <= Room
  BY DEF TotalBounded
<1>2. Weights \in [Ports -> Nat]
  BY WeightsType
<1>3. PortWeight(p) <= g[NPorts]
  <2>1. NPorts \in (p + 1)..NPorts
    BY DEF Ports
  <2>2. Weights[p] <= g[NPorts]
    BY <1>1, <1>2, <2>1, PrefixSumBound
  <2> QED BY <2>2 DEF Weights
<1>4. g[NPorts] \in Nat
  BY <1>1 DEF PrefixSum
<1>5. Cardinality(inFlight) \in Nat /\ (inFlight # {} => Cardinality(inFlight) > 0)
  <2>1. IsFiniteSet(inFlight)
    BY DEF Control
  <2> QED BY <2>1, FS_CardinalityType, FS_EmptySet
<1>6. nCons[p] \in Nat /\ burst[p] \in Seq(Addresses)
  BY DEF TypeOK
<1>7. PortWeight(p) >= SlabSize
      /\ (rxPc[p] = "process" /\ burst[p] # << >> => PortWeight(p) > SlabSize)
  <2>1. Len(burst[p]) \in Nat /\ (burst[p] # << >> => Len(burst[p]) > 0)
    BY <1>6, LenProperties, EmptySeq
  <2> QED BY <1>6, <2>1 DEF PortWeight
<1>8. nSlabsAvailable * SlabSize + SlabSize < Room
  <2>1. PortWeight(p) \in Nat
    BY <1>2 DEF Weights
  <2>2. nSlabsAvailable \in Nat /\ PoolSlots \in Int /\ nInit \in Nat
    BY DEF TypeOK, PoolSlots
  <2>3. nSlabsAvailable * SlabSize \in Nat /\ Room \in Int
    BY <2>2 DEF Room
  <2> QED BY <1>1, <1>3, <1>4, <1>5, <1>7, <2>1, <2>3
<1>9. Room <= PoolSlots * SlabSize + SlabSize
  <2>1. nInit = NPorts
    BY DEF Control
  <2>2. PoolSlots * SlabSize \in Int /\ NPorts * (SlabSize - FillSize) \in Int
    BY <2>1 DEF PoolSlots
  <2> QED BY <2>1, <2>2, FillAssumption DEF Room
<1>10. nSlabsAvailable \in Int /\ PoolSlots \in Int
  BY DEF TypeOK, PoolSlots
<1>11. nSlabsAvailable * SlabSize < PoolSlots * SlabSize
  <2>1. nSlabsAvailable * SlabSize \in Int /\ PoolSlots * SlabSize \in Int /\ Room \in Int
    BY <1>10, SlabProducts DEF Room, TypeOK
  <2> QED BY <1>8, <1>9, <2>1
<1> QED BY <1>10, <1>11, SlabProducts

-----------------------------------------------------------------------------
\* The steps of the threads of port p, and of main
PortStep(p) ==
  \/ KernelReceive(p)
  \/ RxCheckLocal(p) \/ RxCheckTrade(p) \/ RxPeek(p) \/ RxRefill(p)
  \/ RxForward(p) \/ RxDrop(p) \/ RxForget(p)
  \/ \E b \in inFlight : TxComplete(p, b)

(* A step of Next is one of main or one of a port. *)
LEMMA NextSteps ==
  Next <=> \/ PortInit \/ PortInitFails \/ StartThreads \/ JoinThreads \/ PortFree
           \/ \E p \in Ports : PortStep(p)
BY DEF Next, PortStep

(* What bcache_prod needs from the invariant: the slot it reads exists. *)
LEMMA ProdSlot ==
  ASSUME IInv, phase = "running", NEW p \in Ports,
         inFlight # {} \/ (rxPc[p] = "process" /\ burst[p] # << >>)
  PROVE  /\ PoolSlots \in 0..NSlabs
         /\ nProd[p] >= SlabSize => nProd[p] = SlabSize /\ nSlabsAvailable < PoolSlots
<1>1. nProd[p] \in 0..SlabSize /\ nInit \in Nat /\ nFreed = 0 /\ nSlabsAvailable \in Nat
  BY DEF IInv, TypeOK, Control
<1>2. PoolSlots \in 0..NSlabs
  BY <1>1, PoolAssumption DEF IInv, Control, PoolSlots
<1>3. nProd[p] >= SlabSize => nProd[p] = SlabSize
  BY <1>1, PoolAssumption
<1> QED BY <1>2, <1>3, RoomLeft

(* bcache_prod keeps the pool and the cache well-typed. *)
LEMMA ProdType ==
  ASSUME TypeOK, NEW p \in Ports, NEW b \in Addresses, BcacheProd(p, b),
         nProd[p] >= SlabSize => nSlabsAvailable < NSlabs
  PROVE  /\ slabs' \in [SlabIds -> SlabIds]
         /\ nSlabsAvailable' \in 0..NSlabs
         /\ buffers' \in [SlabIds -> [Entries -> Addresses]]
         /\ slabProd' \in [Ports -> SlabIds]
         /\ nProd' \in [Ports -> 0..SlabSize]
<1> USE PoolAssumption DEF TypeOK
<1>1. nProd[p] \in 0..SlabSize /\ slabProd[p] \in SlabIds /\ nSlabsAvailable \in 0..NSlabs
  OBVIOUS
<1>2. ASSUME NEW s \in SlabIds, NEW e \in Entries
      PROVE  [buffers EXCEPT ![s][e] = b] \in [SlabIds -> [Entries -> Addresses]]
  OBVIOUS
<1>3. CASE nProd[p] < SlabSize
  <2>1. nProd[p] \in Entries /\ nProd[p] + 1 \in 0..SlabSize
    BY <1>1, <1>3 DEF Entries
  <2>2. /\ buffers' = [buffers EXCEPT ![slabProd[p]][nProd[p]] = b]
        /\ nProd' = [nProd EXCEPT ![p] = nProd[p] + 1]
        /\ UNCHANGED <<slabs, nSlabsAvailable, slabProd>>
    BY <1>1, <1>3 DEF BcacheProd
  <2> QED BY <1>1, <1>2, <2>1, <2>2
<1>4. CASE nProd[p] >= SlabSize
  <2>1. nSlabsAvailable \in SlabIds /\ nSlabsAvailable + 1 \in 0..NSlabs /\ 0 \in Entries
        /\ 1 \in 0..SlabSize
    BY <1>1, <1>4 DEF SlabIds, Entries
  <2>2. /\ slabs' = [slabs EXCEPT ![nSlabsAvailable] = slabProd[p]]
        /\ nSlabsAvailable' = nSlabsAvailable + 1
        /\ buffers' = [buffers EXCEPT ![slabs[nSlabsAvailable]][0] = b]
        /\ slabProd' = [slabProd EXCEPT ![p] = slabs[nSlabsAvailable]]
        /\ nProd' = [nProd EXCEPT ![p] = 1]
    BY <1>1, <1>4 DEF BcacheProd
  <2>3. slabs[nSlabsAvailable] \in SlabIds
    BY <2>1
  <2> QED BY <1>1, <1>2, <2>1, <2>2, <2>3
<1> QED BY <1>1, <1>3, <1>4

(* Processing a packet shortens the burst. *)
LEMMA ProcessedBurst ==
  ASSUME TypeOK, NEW p \in Ports, Processed(p)
  PROVE  /\ phase = "running" /\ rxPc[p] = "process" /\ burst[p] # << >>
         /\ Head(burst[p]) \in Addresses
         /\ Tail(burst[p]) \in Seq(Addresses) /\ Len(burst[p]) \in Nat \ {0}
         /\ Len(Tail(burst[p])) = Len(burst[p]) - 1
         /\ burst' = [burst EXCEPT ![p] = Tail(burst[p])]
         /\ rxPc' = [rxPc EXCEPT ![p] = IF Len(burst[p]) = 1 THEN "check" ELSE "process"]
<1>1. burst[p] \in Seq(Addresses)
  BY DEF TypeOK
<1> QED BY <1>1, HeadTailProperties, EmptySeq DEF Processed, At

(* Processing a packet keeps the types of the receive thread's own state. *)
LEMMA ProcessedType ==
  ASSUME TypeOK, NEW p \in Ports, Processed(p)
  PROVE  /\ rxPc' \in [Ports -> {"check", "peek", "refill", "process"}]
         /\ burst' \in [Ports -> Seq(Addresses)]
         /\ Head(burst[p]) \in Addresses
<1>1. /\ burst' = [burst EXCEPT ![p] = Tail(burst[p])]
      /\ rxPc' = [rxPc EXCEPT ![p] = IF Len(burst[p]) = 1 THEN "check" ELSE "process"]
      /\ Tail(burst[p]) \in Seq(Addresses) /\ Head(burst[p]) \in Addresses
  BY ProcessedBurst
<1>2. /\ rxPc \in [Ports -> {"check", "peek", "refill", "process"}]
      /\ burst \in [Ports -> Seq(Addresses)]
  BY DEF TypeOK
<1> DEFINE next == IF Len(burst[p]) = 1 THEN "check" ELSE "process"
<1>3. next \in {"check", "peek", "refill", "process"}
  OBVIOUS
<1> HIDE DEF next
<1>4. rxPc' = [rxPc EXCEPT ![p] = next]
  BY <1>1 DEF next
<1>5. rxPc' \in [Ports -> {"check", "peek", "refill", "process"}]
  BY <1>2, <1>3, <1>4
<1>6. burst' \in [Ports -> Seq(Addresses)]
  BY <1>1, <1>2
<1> QED BY <1>1, <1>5, <1>6

-----------------------------------------------------------------------------
(* A new port gets two slabs that exist and a full fill ring. *)
LEMMA PortInitFacts ==
  ASSUME IInv, PortInit
  PROVE  /\ nInit \in Ports /\ nSlabsAvailable = PoolSlots
         /\ nSlabsAvailable - 1 \in SlabIds /\ nSlabsAvailable - 2 \in SlabIds
         /\ nSlabsAvailable - 2 \in 0..NSlabs
         /\ fq'[nInit] \in Seq(Addresses) /\ Len(fq'[nInit]) = FillSize
<1> USE PoolAssumption
<1>1. nInit \in Ports /\ nSlabsAvailable = PoolSlots /\ nSlabsAvailable # 0
      /\ nSlabsAvailable \in 0..NSlabs
  BY DEF IInv, TypeOK, Control, PortInit, Ports
<1>2. nSlabsAvailable % 2 = 0
  BY <1>1 DEF PoolSlots, Ports
<1>3. /\ nSlabsAvailable - 1 \in SlabIds /\ nSlabsAvailable - 2 \in SlabIds
      /\ nSlabsAvailable - 2 \in 0..NSlabs
  BY <1>1, <1>2 DEF SlabIds
<1>4. fq'[nInit] = [i \in 1..FillSize |-> buffers[slabs[nSlabsAvailable - 1]][SlabSize - i]]
  BY <1>1 DEF PortInit, IInv, TypeOK
<1>5. \A i \in 1..FillSize :
        buffers[slabs[nSlabsAvailable - 1]][SlabSize - i] \in Addresses
  BY <1>3 DEF IInv, TypeOK, Entries
<1>6. fq'[nInit] \in [1..FillSize -> Addresses]
  BY <1>4, <1>5
<1>7. FillSize \in Nat
  OBVIOUS
<1> QED BY <1>1, <1>3, <1>6, <1>7, SeqDef, LenProperties

(* The pieces RxPeek cuts the receive ring into. *)
LEMMA PeekFacts ==
  ASSUME TypeOK, NEW p \in Ports, RxPeek(p)
  PROVE  \E n \in 0..Len(rx[p]) :
           /\ phase = "running" /\ rxPc[p] = "peek" /\ n <= nCons[p]
           /\ rxPc' = [rxPc EXCEPT ![p] = IF n = 0 THEN "check" ELSE "refill"]
           /\ burst' = [burst EXCEPT ![p] = SubSeq(rx[p], 1, n)]
           /\ rx' = [rx EXCEPT ![p] = SubSeq(rx[p], n + 1, Len(rx[p]))]
           /\ SubSeq(rx[p], 1, n) \in Seq(Addresses)
           /\ SubSeq(rx[p], n + 1, Len(rx[p])) \in Seq(Addresses)
           /\ Len(SubSeq(rx[p], 1, n)) = n
           /\ Len(SubSeq(rx[p], n + 1, Len(rx[p]))) = Len(rx[p]) - n
<1> DEFINE n == AtMost(AtMost(nCons[p], MaxBurst), Len(rx[p]))
<1>1. rx[p] \in Seq(Addresses) /\ nCons[p] \in Nat /\ MaxBurst \in Nat /\ Len(rx[p]) \in Nat
  BY PoolAssumption, LenProperties DEF TypeOK
<1>2. n \in 0..Len(rx[p]) /\ n <= nCons[p]
  BY <1>1 DEF AtMost
<1>3. \A i \in 1..Len(rx[p]) : rx[p][i] \in Addresses
  BY <1>1, ElementOfSeq
<1> HIDE DEF n
<1>4. SubSeq(rx[p], 1, n) \in Seq(Addresses) /\ Len(SubSeq(rx[p], 1, n)) = n
  BY <1>1, <1>2, <1>3, SubSeqProperties
<1>5. SubSeq(rx[p], n + 1, Len(rx[p])) \in Seq(Addresses)
      /\ Len(SubSeq(rx[p], n + 1, Len(rx[p]))) = Len(rx[p]) - n
  BY <1>1, <1>2, <1>3, SubSeqProperties
<1>6. /\ phase = "running" /\ rxPc[p] = "peek"
      /\ rxPc' = [rxPc EXCEPT ![p] = IF n = 0 THEN "check" ELSE "refill"]
      /\ burst' = [burst EXCEPT ![p] = SubSeq(rx[p], 1, n)]
      /\ rx' = [rx EXCEPT ![p] = SubSeq(rx[p], n + 1, Len(rx[p]))]
  BY DEF RxPeek, At, n
<1> QED BY <1>2, <1>4, <1>5, <1>6

(* What RxRefill puts in the fill ring. *)
LEMMA RefillFacts ==
  ASSUME IInv, NEW p \in Ports, RxRefill(p)
  PROVE  /\ phase = "running" /\ rxPc[p] = "refill" /\ Len(burst[p]) \in 0..nCons[p]
         /\ rxPc' = [rxPc EXCEPT ![p] = "process"]
         /\ nCons' = [nCons EXCEPT ![p] = nCons[p] - Len(burst[p])]
         /\ fq'[p] \in Seq(Addresses)
         /\ Len(fq'[p]) = Len(fq[p]) + Len(burst[p])
         /\ fq' = [fq EXCEPT ![p] = fq'[p]]
<1> DEFINE n == Len(burst[p])
           fresh == [i \in 1..n |-> buffers[slabCons[p]][nCons[p] - i]]
<1>1. /\ phase = "running" /\ rxPc[p] = "refill"
      /\ rxPc' = [rxPc EXCEPT ![p] = "process"]
      /\ nCons' = [nCons EXCEPT ![p] = nCons[p] - n]
      /\ fq' = [fq EXCEPT ![p] = fq[p] \o fresh]
  BY DEF RxRefill, At
<1>2. burst[p] \in Seq(Addresses) /\ fq[p] \in Seq(Addresses) /\ nCons[p] \in 0..SlabSize
      /\ slabCons[p] \in SlabIds /\ fq \in [Ports -> Seq(Addresses)]
  BY DEF IInv, TypeOK
<1>3. n \in Nat /\ n <= nCons[p]
  BY <1>1, <1>2, LenProperties DEF IInv, RefillInv, Owed
<1> HIDE DEF n
<1>4. \A i \in 1..n : buffers[slabCons[p]][nCons[p] - i] \in Addresses
  BY <1>2, <1>3, PoolAssumption DEF IInv, TypeOK, Entries
<1>5. fresh \in [1..n -> Addresses]
  BY <1>4
<1>6. fresh \in Seq(Addresses) /\ Len(fresh) = n
  BY <1>3, <1>5, SeqDef, LenProperties
<1> HIDE DEF fresh
<1>7. fq'[p] = fq[p] \o fresh
  BY <1>1, <1>2
<1>8. fq'[p] \in Seq(Addresses) /\ Len(fq'[p]) = Len(fq[p]) + n
  BY <1>2, <1>6, <1>7, ConcatProperties
<1>9. Len(burst[p]) \in 0..nCons[p]
  BY <1>2, <1>3 DEF n
<1>10. fq' = [fq EXCEPT ![p] = fq'[p]]
  BY <1>1, <1>7
<1> QED BY <1>1, <1>8, <1>9, <1>10 DEF n

-----------------------------------------------------------------------------
(* Every step keeps the types. *)
LEMMA TypeStep == IInv /\ [Next]_vars => TypeOK'
<1> SUFFICES ASSUME IInv, [Next]_vars PROVE TypeOK'
  OBVIOUS
<1>0. TypeOK /\ Control
  BY DEF IInv
<1>1. CASE PortInit
  <2>1. SlabSize - FillSize \in 0..SlabSize /\ 0 \in 0..SlabSize
    BY PoolAssumption
  <2>2. nInit + 1 \in 0..NPorts /\ nFreed \in 0..(nInit + 1)
    BY <1>0, <1>1, PoolAssumption DEF PortInit, TypeOK
  <2> QED BY <1>0, <1>1, <2>1, <2>2, PortInitFacts DEF PortInit, TypeOK
<1>2. CASE PortInitFails
  BY <1>0, <1>2 DEF PortInitFails, TypeOK, pool, consumer, producer, rings
<1>3. CASE StartThreads
  BY <1>0, <1>3 DEF StartThreads, TypeOK, pool, consumer, producer, rings
<1>4. CASE JoinThreads
  BY <1>0, <1>4 DEF JoinThreads, TypeOK, pool, consumer, producer, rings
<1>5. CASE PortFree
  <2>1. nFreed + 1 \in 0..nInit /\ nSlabsAvailable + 2 \in 0..NSlabs
    BY <1>0, <1>5, PoolAssumption DEF PortFree, TypeOK, Control
  <2> QED BY <1>0, <1>5, <2>1 DEF PortFree, TypeOK, consumer, producer, rings
<1>6. ASSUME NEW p \in Ports, PortStep(p) PROVE TypeOK'
  <2>1. CASE KernelReceive(p)
    <3>1. fq[p] \in Seq(Addresses) /\ rx[p] \in Seq(Addresses)
      BY <1>0 DEF TypeOK
    <3>2. Tail(fq[p]) \in Seq(Addresses) /\ Append(rx[p], Head(fq[p])) \in Seq(Addresses)
      BY <2>1, <3>1, HeadTailProperties, AppendProperties DEF KernelReceive
    <3> QED BY <1>0, <2>1, <3>2 DEF KernelReceive, TypeOK, control, pool, consumer, producer
  <2>2. CASE RxCheckLocal(p)
    BY <1>0, <2>2 DEF RxCheckLocal, At, TypeOK, control, pool, consumer, producer, rings
  <2>3. CASE RxCheckTrade(p)
    <3>1. nSlabsAvailable - 1 \in SlabIds /\ nSlabsAvailable - 1 \in 0..NSlabs
          /\ SlabSize \in 0..SlabSize
      BY <1>0, <2>3, PoolAssumption DEF RxCheckTrade, TypeOK, SlabIds
    <3> QED BY <1>0, <2>3, <3>1 DEF RxCheckTrade, At, TypeOK, control, producer, rings
  <2>4. CASE RxPeek(p)
    <3>1. UNCHANGED <<control, pool, consumer, producer, fq, inFlight>>
      BY <2>4 DEF RxPeek
    <3>2. PICK n \in 0..Len(rx[p]) :
            /\ rxPc' = [rxPc EXCEPT ![p] = IF n = 0 THEN "check" ELSE "refill"]
            /\ burst' = [burst EXCEPT ![p] = SubSeq(rx[p], 1, n)]
            /\ rx' = [rx EXCEPT ![p] = SubSeq(rx[p], n + 1, Len(rx[p]))]
            /\ SubSeq(rx[p], 1, n) \in Seq(Addresses)
            /\ SubSeq(rx[p], n + 1, Len(rx[p])) \in Seq(Addresses)
      BY <1>0, <2>4, PeekFacts
    <3>3. /\ rxPc' \in [Ports -> {"check", "peek", "refill", "process"}]
          /\ burst' \in [Ports -> Seq(Addresses)] /\ rx' \in [Ports -> Seq(Addresses)]
      BY <1>0, <3>2 DEF TypeOK
    <3> QED BY <1>0, <3>1, <3>3 DEF TypeOK, control, pool, consumer, producer
  <2>5. CASE RxRefill(p)
    <3>1. UNCHANGED <<control, pool, slabCons, producer, rx, burst, inFlight>>
      BY <2>5 DEF RxRefill
    <3>2. nCons[p] - Len(burst[p]) \in 0..SlabSize
      BY <1>0, <2>5, RefillFacts, PoolAssumption DEF TypeOK
    <3>3. /\ rxPc' = [rxPc EXCEPT ![p] = "process"]
          /\ nCons' = [nCons EXCEPT ![p] = nCons[p] - Len(burst[p])]
          /\ fq'[p] \in Seq(Addresses) /\ fq' = [fq EXCEPT ![p] = fq'[p]]
      BY <2>5, RefillFacts
    <3>4. \A s : s = fq'[p] => fq' = [fq EXCEPT ![p] = s]
      BY <3>3
    <3>5. PICK s \in Seq(Addresses) : fq' = [fq EXCEPT ![p] = s]
      BY <3>3, <3>4
    <3>6. fq' \in [Ports -> Seq(Addresses)]
      BY <1>0, <3>5 DEF TypeOK
    <3>7. nCons' \in [Ports -> 0..SlabSize]
      BY <1>0, <3>2, <3>3 DEF TypeOK
    <3>8. rxPc' \in [Ports -> {"check", "peek", "refill", "process"}]
      BY <1>0, <3>3 DEF TypeOK
    <3> QED BY <1>0, <3>1, <3>6, <3>7, <3>8 DEF TypeOK, control, pool, producer
  <2>6. CASE RxForward(p)
    <3>1. Processed(p) /\ inFlight' = inFlight \cup {Head(burst[p])}
          /\ UNCHANGED <<control, pool, consumer, producer, rings>>
      BY <2>6 DEF RxForward
    <3>2. /\ rxPc' \in [Ports -> {"check", "peek", "refill", "process"}]
          /\ burst' \in [Ports -> Seq(Addresses)]
          /\ Head(burst[p]) \in Addresses
      BY <1>0, <3>1, ProcessedType
    <3>3. inFlight' \in SUBSET Addresses
      BY <1>0, <3>1, <3>2 DEF TypeOK
    <3> QED BY <1>0, <3>1, <3>2, <3>3 DEF TypeOK, control, pool, consumer, producer, rings
  <2>7. CASE RxDrop(p)
    <3>1. Processed(p) /\ BcacheProd(p, Head(burst[p]))
          /\ UNCHANGED <<control, consumer, rings, inFlight>>
      BY <2>7 DEF RxDrop
    <3>2. nProd[p] >= SlabSize => nSlabsAvailable < NSlabs
      BY <1>0, <3>1, ProcessedBurst, ProdSlot, PoolAssumption DEF TypeOK
    <3>3. /\ slabs' \in [SlabIds -> SlabIds] /\ nSlabsAvailable' \in 0..NSlabs
          /\ buffers' \in [SlabIds -> [Entries -> Addresses]]
          /\ slabProd' \in [Ports -> SlabIds] /\ nProd' \in [Ports -> 0..SlabSize]
      BY <1>0, <3>1, <3>2, ProcessedBurst, ProdType
    <3>4. /\ rxPc' \in [Ports -> {"check", "peek", "refill", "process"}]
          /\ burst' \in [Ports -> Seq(Addresses)]
      BY <1>0, <3>1, ProcessedType
    <3> QED BY <1>0, <3>1, <3>3, <3>4 DEF TypeOK, control, consumer, rings
  <2>8. CASE RxForget(p)
    <3>1. Processed(p) /\ UNCHANGED <<control, pool, consumer, producer, rings, inFlight>>
      BY <2>8 DEF RxForget
    <3>2. /\ rxPc' \in [Ports -> {"check", "peek", "refill", "process"}]
          /\ burst' \in [Ports -> Seq(Addresses)]
      BY <1>0, <3>1, ProcessedType
    <3> QED BY <1>0, <3>1, <3>2 DEF TypeOK, control, pool, consumer, producer, rings
  <2>9. ASSUME NEW b \in inFlight, TxComplete(p, b) PROVE TypeOK'
    <3>1. phase = "running" /\ inFlight' = inFlight \ {b} /\ BcacheProd(p, b)
          /\ UNCHANGED <<control, consumer, rings, rxPc, burst>>
      BY <2>9 DEF TxComplete
    <3>2. b \in Addresses
      BY <1>0 DEF TypeOK
    <3>3. nProd[p] >= SlabSize => nSlabsAvailable < NSlabs
      <4>1. inFlight # {}
        OBVIOUS
      <4>2. PoolSlots \in 0..NSlabs /\ (nProd[p] >= SlabSize => nSlabsAvailable < PoolSlots)
        BY <3>1, <4>1, ProdSlot
      <4> QED BY <1>0, <4>2, PoolAssumption DEF TypeOK
    <3>4. /\ slabs' \in [SlabIds -> SlabIds] /\ nSlabsAvailable' \in 0..NSlabs
          /\ buffers' \in [SlabIds -> [Entries -> Addresses]]
          /\ slabProd' \in [Ports -> SlabIds] /\ nProd' \in [Ports -> 0..SlabSize]
      BY <1>0, <3>1, <3>2, <3>3, ProdType
    <3> QED BY <1>0, <3>1, <3>4 DEF TypeOK, control, consumer, rings
  <2> QED BY <1>6, <2>1, <2>2, <2>3, <2>4, <2>5, <2>6, <2>7, <2>8, <2>9 DEF PortStep
<1>7. CASE UNCHANGED vars
  BY <1>0, <1>7 DEF TypeOK, vars, pool, consumer, producer, rings, control
<1> QED BY <1>1, <1>2, <1>3, <1>4, <1>5, <1>6, <1>7, NextSteps

-----------------------------------------------------------------------------
(* A port whose thread runs was set up, and no port was freed yet. *)
LEMMA Running ==
  ASSUME IInv, phase = "running"
  PROVE  nInit = NPorts /\ nFreed = 0 /\ \A p \in Ports : p < nInit
BY PoolAssumption DEF IInv, Control, Ports

(* bcache_prod never has more slabs available than the pool has slots. *)
LEMMA ProdAvailable ==
  ASSUME IInv, phase = "running", NEW p \in Ports, NEW b, BcacheProd(p, b),
         inFlight # {} \/ (rxPc[p] = "process" /\ burst[p] # << >>)
  PROVE  nSlabsAvailable' \in nSlabsAvailable..PoolSlots
<1>1. nProd[p] \in Nat /\ nSlabsAvailable \in Nat /\ nSlabsAvailable <= PoolSlots
  BY Running, PoolAssumption DEF IInv, TypeOK, Control, PoolSlots
<1>2. PoolSlots \in Nat /\ (nProd[p] >= SlabSize => nSlabsAvailable < PoolSlots)
  BY ProdSlot
<1> QED BY <1>1, <1>2 DEF BcacheProd

(* Every step keeps the order of the phases and what each phase implies. *)
LEMMA ControlStep == IInv /\ [Next]_vars => Control'
<1> SUFFICES ASSUME IInv, [Next]_vars PROVE Control'
  OBVIOUS
<1>0. TypeOK /\ TypeOK' /\ Control
  BY TypeStep DEF IInv
<1>1. CASE PortInit
  <2>1. /\ phase = "init" /\ phase' = "init" /\ nFreed' = nFreed /\ nFreed = 0
        /\ nInit' = nInit + 1 /\ nSlabsAvailable' = nSlabsAvailable - 2
        /\ nSlabsAvailable = PoolSlots /\ inFlight' = {} /\ rxPc' = rxPc /\ burst' = burst
        /\ nInit \in Nat /\ rx' = rx
    BY <1>0, <1>1 DEF PortInit, Control, TypeOK
  <2>2. \A p \in Ports : p # nInit =>
          nCons'[p] = nCons[p] /\ nProd'[p] = nProd[p] /\ fq'[p] = fq[p]
    BY <1>0, <1>1 DEF PortInit, TypeOK
  <2>3. \A p \in Ports : p >= nInit + 1 => p >= nInit /\ p # nInit
    BY <2>1 DEF Ports
  <2>4. nSlabsAvailable' = PoolSlots' /\ nSlabsAvailable' <= NSlabs - 2 * (nInit' - nFreed')
    BY <2>1, PoolAssumption DEF PoolSlots
  <2>5. \A p \in Ports : p >= nInit' =>
          nCons'[p] = 0 /\ nProd'[p] = 0 /\ fq'[p] = << >> /\ rx'[p] = << >>
    BY <1>0, <2>1, <2>2, <2>3 DEF Control
  <2>6. IsFiniteSet(inFlight')
    BY <2>1, FS_EmptySet
  <2> QED BY <1>0, <2>1, <2>4, <2>5, <2>6 DEF Control
<1>2. CASE PortInitFails
  BY <1>0, <1>2 DEF PortInitFails, Control, pool, consumer, producer, rings
<1>3. CASE StartThreads
  BY <1>0, <1>3 DEF StartThreads, Control, pool, consumer, producer, rings
<1>4. CASE JoinThreads
  BY <1>0, <1>4 DEF JoinThreads, Control, pool, consumer, producer, rings
<1>5. CASE PortFree
  <2>1. nSlabsAvailable + 2 <= NSlabs - 2 * (nInit - (nFreed + 1))
    BY <1>0, <1>5, PoolAssumption DEF PortFree, TypeOK, Control
  <2> QED BY <1>0, <1>5, <2>1 DEF PortFree, Control, consumer, producer, rings
<1>6. ASSUME NEW p \in Ports, PortStep(p) PROVE Control'
  <2>1. CASE KernelReceive(p)
    <3>1. /\ p < nInit /\ UNCHANGED <<control, pool, consumer, producer, rxPc, burst, inFlight>>
          /\ \A q \in Ports : q # p => fq'[q] = fq[q] /\ rx'[q] = rx[q]
      BY <1>0, <2>1 DEF KernelReceive, TypeOK
    <3>2. \A q \in Ports : q >= nInit => q # p
      BY <1>0, <3>1 DEF Ports, TypeOK
    <3> QED BY <1>0, <3>1, <3>2 DEF Control, control, pool, consumer, producer, PoolSlots
  <2>2. ASSUME phase = "running", UNCHANGED control, IsFiniteSet(inFlight'),
               nSlabsAvailable' <= PoolSlots,
               \A q \in Ports : rxPc'[q] \in {"check", "peek"} <=> burst'[q] = << >>
        PROVE  Control'
    <3>1. nInit = NPorts /\ nFreed = 0 /\ phase' = "running" /\ nInit' = NPorts /\ nFreed' = 0
      BY <2>2, Running DEF control
    <3>2. nSlabsAvailable' <= NSlabs - 2 * (nInit' - nFreed')
      BY <2>2, <3>1, PoolAssumption DEF PoolSlots
    <3>3. \A q \in Ports : ~(q >= nInit')
      BY <3>1, PoolAssumption DEF Ports
    <3> QED BY <2>2, <3>1, <3>2, <3>3 DEF Control
  <2>3. phase = "running" => nSlabsAvailable <= PoolSlots /\ nSlabsAvailable \in Nat /\ PoolSlots \in Int
    BY <1>0, Running, PoolAssumption DEF Control, PoolSlots, TypeOK
  <2>4. CASE RxCheckLocal(p)
    <3>1. \A q \in Ports : rxPc'[q] \in {"check", "peek"} <=> burst'[q] = << >>
      BY <1>0, <2>4 DEF RxCheckLocal, At, Control, TypeOK
    <3> QED BY <1>0, <2>2, <2>3, <2>4, <3>1 DEF RxCheckLocal, At, Control, pool
  <2>5. CASE RxCheckTrade(p)
    <3>1. \A q \in Ports : rxPc'[q] \in {"check", "peek"} <=> burst'[q] = << >>
      BY <1>0, <2>5 DEF RxCheckTrade, At, Control, TypeOK
    <3>2. phase = "running" /\ nSlabsAvailable' <= PoolSlots
      BY <2>3, <2>5 DEF RxCheckTrade, At
    <3> QED BY <1>0, <2>2, <2>5, <3>1, <3>2 DEF RxCheckTrade, Control
  <2>6. CASE RxPeek(p)
    <3>1. phase = "running" /\ UNCHANGED <<control, pool, consumer, producer, fq, inFlight>>
      BY <2>6 DEF RxPeek, At
    <3>2. PICK n \in 0..Len(rx[p]) :
            /\ rxPc' = [rxPc EXCEPT ![p] = IF n = 0 THEN "check" ELSE "refill"]
            /\ burst' = [burst EXCEPT ![p] = SubSeq(rx[p], 1, n)]
            /\ SubSeq(rx[p], 1, n) \in Seq(Addresses)
            /\ Len(SubSeq(rx[p], 1, n)) = n
      BY <1>0, <2>6, PeekFacts
    <3>3. n = 0 <=> SubSeq(rx[p], 1, n) = << >>
      BY <3>2, EmptySeq
    <3>4. rxPc'[p] \in {"check", "peek"} <=> burst'[p] = << >>
      BY <1>0, <3>2, <3>3 DEF TypeOK
    <3>5. \A q \in Ports : rxPc'[q] \in {"check", "peek"} <=> burst'[q] = << >>
      BY ZenonT(60), <1>0, <3>2, <3>4 DEF TypeOK, Control
    <3> QED BY <1>0, <2>2, <2>3, <3>1, <3>5 DEF Control, pool
  <2>7. CASE RxRefill(p)
    <3>1. UNCHANGED <<control, pool, slabCons, producer, rx, burst, inFlight>>
      BY <2>7 DEF RxRefill
    <3>2. rxPc[p] = "refill" /\ rxPc' = [rxPc EXCEPT ![p] = "process"] /\ burst' = burst
      BY <2>7, <3>1, RefillFacts
    <3>3. burst[p] # << >>
      BY <1>0, <3>2 DEF Control
    <3>4. rxPc'[p] = "process" /\ \A q \in Ports : q # p => rxPc'[q] = rxPc[q]
      BY <1>0, <3>2 DEF TypeOK
    <3>5. \A q \in Ports : rxPc'[q] \in {"check", "peek"} <=> burst'[q] = << >>
      BY <1>0, <3>2, <3>3, <3>4 DEF Control
    <3> QED BY <1>0, <2>2, <2>3, <2>7, <3>1, <3>5, RefillFacts DEF Control, pool
  <2>8. ASSUME Processed(p)
        PROVE  /\ phase = "running"
               /\ \A q \in Ports : rxPc'[q] \in {"check", "peek"} <=> burst'[q] = << >>
    <3>1. /\ phase = "running" /\ burst' = [burst EXCEPT ![p] = Tail(burst[p])]
          /\ rxPc' = [rxPc EXCEPT ![p] = IF Len(burst[p]) = 1 THEN "check" ELSE "process"]
          /\ Tail(burst[p]) \in Seq(Addresses) /\ Len(burst[p]) \in Nat
          /\ Len(Tail(burst[p])) = Len(burst[p]) - 1
      BY <1>0, <2>8, ProcessedBurst
    <3>2. Len(Tail(burst[p])) = 0 <=> Tail(burst[p]) = << >>
      BY <3>1, EmptySeq
    <3>3. Len(burst[p]) = 1 <=> Tail(burst[p]) = << >>
      BY <3>1, <3>2
    <3>4. rxPc'[p] \in {"check", "peek"} <=> burst'[p] = << >>
      BY <1>0, <3>1, <3>3 DEF TypeOK
    <3>5. \A q \in Ports : q # p => rxPc'[q] = rxPc[q] /\ burst'[q] = burst[q]
      BY <1>0, <3>1 DEF TypeOK
    <3> QED BY <1>0, <3>1, <3>4, <3>5 DEF Control
  <2>9. CASE RxForward(p)
    <3>1. Processed(p) /\ inFlight' = inFlight \cup {Head(burst[p])}
          /\ UNCHANGED <<control, pool, consumer, producer, rings>>
      BY <2>9 DEF RxForward
    <3>2. IsFiniteSet(inFlight')
      BY <1>0, <3>1, FS_AddElement DEF Control
    <3> QED BY <2>2, <2>3, <2>8, <3>1, <3>2 DEF pool
  <2>10. CASE RxDrop(p)
    <3>1. Processed(p) /\ BcacheProd(p, Head(burst[p]))
          /\ UNCHANGED <<control, consumer, rings, inFlight>>
      BY <2>10 DEF RxDrop
    <3>2. nSlabsAvailable' <= PoolSlots
      BY <1>0, <2>3, <3>1, ProcessedBurst, ProdAvailable
    <3> QED BY <1>0, <2>2, <2>8, <3>1, <3>2 DEF Control
  <2>11. CASE RxForget(p)
    <3>1. Processed(p) /\ UNCHANGED <<control, pool, consumer, producer, rings, inFlight>>
      BY <2>11 DEF RxForget
    <3> QED BY <1>0, <2>2, <2>3, <2>8, <3>1 DEF Control, pool
  <2>12. ASSUME NEW b \in inFlight, TxComplete(p, b) PROVE Control'
    <3>1. phase = "running" /\ inFlight' = inFlight \ {b} /\ BcacheProd(p, b)
          /\ UNCHANGED <<control, consumer, rings, rxPc, burst>>
      BY <2>12 DEF TxComplete
    <3>2. nSlabsAvailable' <= PoolSlots
      BY <2>3, <3>1, ProdAvailable
    <3>3. IsFiniteSet(inFlight')
      BY <1>0, <3>1, FS_RemoveElement DEF Control
    <3> QED BY <1>0, <2>2, <3>1, <3>2, <3>3 DEF Control
  <2> QED BY <1>6, <2>1, <2>4, <2>5, <2>6, <2>7, <2>9, <2>10, <2>11, <2>12 DEF PortStep
<1>7. CASE UNCHANGED vars
  BY <1>0, <1>7 DEF Control, vars, pool, consumer, producer, rings, control, PoolSlots
<1> QED BY <1>1, <1>2, <1>3, <1>4, <1>5, <1>6, <1>7, NextSteps

-----------------------------------------------------------------------------
(* The ring part of the invariant at port q. *)
RingsFull(q) ==
  /\ Owed(q) <= nCons[q]
  /\ q < nInit => Len(fq[q]) + Len(rx[q]) + Owed(q) = FillSize

(* Every step keeps FillSize buffers on the receive side of a port. *)
LEMMA RefillStep == IInv /\ [Next]_vars => RefillInv'
<1> SUFFICES ASSUME IInv, [Next]_vars PROVE RefillInv'
  OBVIOUS
<1>0. TypeOK /\ Control /\ \A q \in Ports : RingsFull(q)
  BY DEF IInv, RefillInv, RingsFull
<1>a. SUFFICES ASSUME NEW q \in Ports PROVE RingsFull(q)'
  BY DEF RefillInv, RingsFull
<1>b. /\ RingsFull(q) /\ nCons[q] \in 0..SlabSize /\ nInit \in Nat /\ FillSize \in Nat
      /\ fq[q] \in Seq(Addresses) /\ rx[q] \in Seq(Addresses) /\ burst[q] \in Seq(Addresses)
  BY <1>0, PoolAssumption DEF TypeOK
<1>c. Len(fq[q]) \in Nat /\ Len(rx[q]) \in Nat /\ Len(burst[q]) \in Nat /\ Owed(q) \in Nat
  BY <1>b, LenProperties DEF Owed
<1>d. ASSUME nInit' = nInit, nCons'[q] = nCons[q], fq'[q] = fq[q], rx'[q] = rx[q], Owed(q)' = Owed(q)
      PROVE  RingsFull(q)'
  BY <1>b, <1>d DEF RingsFull
\* The lengths before and after the step, as plain numbers
<1> DEFINE f0 == Len(fq[q])
           r0 == Len(rx[q])
           o0 == Owed(q)
           f1 == Len(fq'[q])
           r1 == Len(rx'[q])
           o1 == Owed(q)'
<1>e. o0 <= nCons[q] /\ (q < nInit => f0 + r0 + o0 = FillSize)
      /\ f0 \in Nat /\ r0 \in Nat /\ o0 \in Nat
  BY <1>b, <1>c DEF RingsFull
<1>f. ASSUME o1 <= nCons'[q], q < nInit' => f1 + r1 + o1 = FillSize
      PROVE  RingsFull(q)'
  BY <1>f DEF RingsFull
<1> HIDE DEF f0, r0, o0, f1, r1, o1
<1>1. CASE PortInit
  <2>1. /\ nInit \in Ports /\ Len(fq'[nInit]) = FillSize /\ rx' = rx /\ nInit' = nInit + 1
        /\ rxPc' = rxPc /\ burst' = burst
    BY <1>1, PortInitFacts DEF PortInit
  <2>2. Owed(q) = 0 /\ Owed(q)' = 0 /\ (q = nInit => rx[q] = << >>)
    BY <1>0, <1>1, <2>1 DEF PortInit, Control, Owed, Ports
  <2>3. CASE q = nInit
    <3>1. nCons'[q] = SlabSize - FillSize /\ SlabSize - FillSize >= 0
      BY <1>0, <1>1, <2>3, PoolAssumption DEF PortInit, TypeOK
    <3>2. Len(rx'[q]) = 0
      BY <2>1, <2>2, <2>3, EmptySeq
    <3> QED BY <1>b, <2>1, <2>2, <2>3, <3>1, <3>2 DEF RingsFull
  <2>4. CASE q # nInit
    <3>1. nCons'[q] = nCons[q] /\ fq'[q] = fq[q] /\ rx'[q] = rx[q]
      BY <1>0, <1>1, <2>1, <2>4 DEF PortInit, TypeOK
    <3>2. q < nInit' => q < nInit
      BY <1>b, <2>1, <2>4 DEF Ports
    <3> QED BY <1>b, <2>2, <3>1, <3>2 DEF RingsFull
  <2> QED BY <2>3, <2>4
<1>2. CASE PortInitFails \/ StartThreads \/ JoinThreads \/ PortFree
  BY <1>2, <1>d DEF PortInitFails, StartThreads, JoinThreads, PortFree, consumer, rings, Owed
<1>3. ASSUME NEW p \in Ports, PortStep(p) PROVE RingsFull(q)'
  <2>1. CASE KernelReceive(p)
    <3>1. /\ nInit' = nInit /\ nCons' = nCons /\ rxPc' = rxPc /\ burst' = burst
          /\ fq[p] # << >>
          /\ fq' = [fq EXCEPT ![p] = Tail(fq[p])]
          /\ rx' = [rx EXCEPT ![p] = Append(rx[p], Head(fq[p]))]
      BY <2>1 DEF KernelReceive, control, consumer
    <3>2. CASE q = p
      <4>1. f1 = f0 - 1 /\ r1 = r0 + 1
        BY <1>0, <1>b, <3>1, <3>2, HeadTailProperties, AppendProperties
        DEF TypeOK, f0, r0, f1, r1
      <4>2. o1 = o0
        BY <3>1 DEF Owed, o0, o1
      <4> QED BY <1>e, <1>f, <3>1, <4>1, <4>2
    <3>3. CASE q # p
      BY <1>0, <1>d, <3>1, <3>3 DEF TypeOK, Owed
    <3> QED BY <3>2, <3>3
  <2>2. CASE RxCheckLocal(p)
    <3>1. /\ rxPc[p] = "check" /\ rxPc' = [rxPc EXCEPT ![p] = "peek"]
          /\ UNCHANGED <<control, consumer, rings, burst>>
      BY <2>2 DEF RxCheckLocal, At
    <3>2. Owed(q)' = Owed(q)
      BY <1>0, <3>1 DEF Owed, TypeOK
    <3> QED BY <1>d, <3>1, <3>2 DEF control, consumer, rings
  <2>3. CASE RxCheckTrade(p)
    <3>1. /\ rxPc[p] = "check" /\ rxPc' = [rxPc EXCEPT ![p] = "peek"]
          /\ nCons[p] = 0 /\ nCons' = [nCons EXCEPT ![p] = SlabSize]
          /\ UNCHANGED <<control, rings, burst>>
      BY <2>3 DEF RxCheckTrade, At
    <3>2. Owed(q)' = Owed(q) /\ nCons'[q] >= nCons[q] /\ nCons'[q] \in Nat
      BY <1>0, <1>b, <3>1, PoolAssumption DEF Owed, TypeOK
    <3>3. nInit' = nInit /\ f1 = f0 /\ r1 = r0 /\ o1 = o0
      BY <3>1, <3>2 DEF control, rings, f0, f1, r0, r1, o0, o1
    <3>4. o1 <= nCons'[q]
      BY <1>b, <1>e, <3>2, <3>3
    <3> QED BY <1>e, <1>f, <3>3, <3>4
  <2>4. CASE RxPeek(p)
    <3>1. UNCHANGED <<control, pool, consumer, producer, fq, inFlight>>
      BY <2>4 DEF RxPeek
    <3>2. PICK n \in 0..Len(rx[p]) :
            /\ rxPc[p] = "peek" /\ n <= nCons[p]
            /\ rxPc' = [rxPc EXCEPT ![p] = IF n = 0 THEN "check" ELSE "refill"]
            /\ burst' = [burst EXCEPT ![p] = SubSeq(rx[p], 1, n)]
            /\ rx' = [rx EXCEPT ![p] = SubSeq(rx[p], n + 1, Len(rx[p]))]
            /\ Len(SubSeq(rx[p], 1, n)) = n
            /\ Len(SubSeq(rx[p], n + 1, Len(rx[p]))) = Len(rx[p]) - n
      BY <1>0, <2>4, PeekFacts
    <3>3. CASE q = p
      <4>1. Owed(q) = 0
        BY <3>2, <3>3 DEF Owed
      <4>2. Owed(q)' = n /\ Len(rx'[q]) = Len(rx[q]) - n
        <5>1. /\ Len(burst'[q]) = n /\ Len(rx'[q]) = Len(rx[q]) - n
              /\ rxPc'[q] = IF n = 0 THEN "check" ELSE "refill"
          BY <1>0, <3>2, <3>3 DEF TypeOK
        <5> QED BY <3>2, <5>1 DEF Owed
      <4>3. nInit' = nInit /\ nCons' = nCons /\ n \in Nat /\ n <= nCons[q]
        BY <1>c, <3>1, <3>2, <3>3 DEF control, consumer
      <4>4. f1 = f0 /\ r1 = r0 - n /\ o0 = 0 /\ o1 = n
        BY <3>1, <4>1, <4>2 DEF f0, f1, r0, r1, o0, o1
      <4> QED BY <1>e, <1>f, <4>3, <4>4
    <3>4. CASE q # p
      <4>1. Owed(q)' = Owed(q) /\ rx'[q] = rx[q]
        BY <1>0, <3>2, <3>4 DEF Owed, TypeOK
      <4> QED BY <1>d, <3>1, <4>1 DEF control, consumer
    <3> QED BY <3>3, <3>4
  <2>5. CASE RxRefill(p)
    <3>1. UNCHANGED <<control, pool, slabCons, producer, rx, burst, inFlight>>
      BY <2>5 DEF RxRefill
    <3>2. CASE q = p
      <4>1. /\ rxPc[q] = "refill" /\ rxPc'[q] = "process" /\ Len(burst[q]) \in 0..nCons[q]
            /\ Len(fq'[q]) = Len(fq[q]) + Len(burst[q])
            /\ nCons'[q] = nCons[q] - Len(burst[q])
        BY <1>0, <2>5, <3>2, RefillFacts DEF TypeOK
      <4>2. Owed(q) = Len(burst[q]) /\ Owed(q)' = 0
        BY <4>1 DEF Owed
      <4>3. nInit' = nInit /\ f1 = f0 + o0 /\ r1 = r0 /\ o1 = 0 /\ o1 <= nCons'[q]
        BY <1>b, <3>1, <4>1, <4>2 DEF control, f0, f1, r0, r1, o0, o1
      <4> QED BY <1>e, <1>f, <4>3
    <3>3. CASE q # p
      <4>1. nCons'[q] = nCons[q] /\ fq'[q] = fq[q] /\ rxPc'[q] = rxPc[q]
        BY <1>0, <2>5, <3>3, RefillFacts DEF TypeOK
      <4> QED BY <1>d, <3>1, <4>1 DEF Owed, control
    <3> QED BY <3>2, <3>3
  <2>6. CASE RxForward(p) \/ RxDrop(p) \/ RxForget(p)
    <3>1. Processed(p) /\ UNCHANGED <<control, consumer, rings>>
      BY <2>6 DEF RxForward, RxDrop, RxForget
    <3>2. Owed(q)' = Owed(q)
      BY ZenonT(60), <1>0, <3>1, ProcessedBurst DEF Owed, TypeOK
    <3> QED BY <1>d, <3>1, <3>2 DEF control, consumer, rings
  <2>7. ASSUME NEW b \in inFlight, TxComplete(p, b) PROVE RingsFull(q)'
    BY <1>d, <2>7 DEF TxComplete, control, consumer, rings, Owed
  <2> QED BY <1>3, <2>1, <2>2, <2>3, <2>4, <2>5, <2>6, <2>7 DEF PortStep
<1>4. CASE UNCHANGED vars
  BY <1>d, <1>4 DEF vars, control, consumer, rings, Owed
<1> QED BY <1>1, <1>2, <1>3, <1>4, NextSteps

-----------------------------------------------------------------------------
(* The bound on the total only depends on what a step does at one port. *)
LEMMA TotalKept ==
  ASSUME IInv, TypeOK', phase \in {"init", "running"}, IsFiniteSet(inFlight'),
         NEW p \in Ports,
         \A q \in Ports : q # p => PortWeight(q)' = PortWeight(q),
         PortWeight(p)' + nSlabsAvailable' * SlabSize + Cardinality(inFlight') + Room
           <= PortWeight(p) + nSlabsAvailable * SlabSize + Cardinality(inFlight) + Room'
  PROVE  TotalBounded'
<1>1. PICK g : /\ PrefixSum(Weights, g)
               /\ nSlabsAvailable * SlabSize + g[NPorts] + Cardinality(inFlight) <= Room
  BY DEF IInv, TotalBounded
<1>2. Weights \in [Ports -> Nat] /\ PortWeight(p) \in Nat
  BY WeightsType DEF IInv, Weights
<1>3. PortWeight(p)' \in Nat
  <2>1. nCons'[p] \in Nat /\ nProd'[p] \in Nat /\ burst'[p] \in Seq(Addresses)
    BY PoolAssumption DEF TypeOK
  <2>2. Len(burst'[p]) \in Nat
    BY <2>1, LenProperties
  <2> QED BY <2>1, <2>2 DEF PortWeight
<1>4. Weights' = [Weights EXCEPT ![p] = PortWeight(p)']
  BY DEF Weights
<1>5. PICK h : PrefixSum(Weights', h) /\ h[NPorts] = g[NPorts] + PortWeight(p)' - PortWeight(p)
  <2> DEFINE w == Weights
             u == Weights'
             v == PortWeight(p)'
  <2>1. w \in [Ports -> Nat] /\ PrefixSum(w, g) /\ v \in Nat /\ u = [w EXCEPT ![p] = v]
    BY <1>1, <1>2, <1>3, <1>4
  <2>2. w[p] = PortWeight(p)
    BY DEF Weights
  <2> HIDE DEF w, u, v
  <2>3. \E h : PrefixSum([w EXCEPT ![p] = v], h) /\ h[NPorts] = g[NPorts] + v - w[p]
    BY <2>1, PrefixSumUpdate
  <2> QED BY <2>1, <2>2, <2>3 DEF u, v
<1>6. g[NPorts] \in Nat /\ Cardinality(inFlight) \in Nat /\ Cardinality(inFlight') \in Nat
  BY <1>1, PoolAssumption, FS_CardinalityType DEF PrefixSum, IInv, Control
<1>7. nSlabsAvailable * SlabSize \in Int /\ (nSlabsAvailable * SlabSize)' \in Int
  BY SlabProducts DEF IInv, TypeOK
<1>8. Room \in Int /\ Room' \in Int
  <2>1. nInit \in Int /\ nInit' \in Int
    BY DEF IInv, TypeOK
  <2> QED BY <2>1, PoolAssumption DEF Room, PoolSlots
<1>9. nSlabsAvailable' * SlabSize + h[NPorts] + Cardinality(inFlight') <= Room'
  BY <1>1, <1>2, <1>3, <1>5, <1>6, <1>7, <1>8
<1> QED BY <1>5, <1>9 DEF TotalBounded

(* A step that changes no weight, slab count or flight keeps the total. *)
LEMMA TotalUnchanged ==
  ASSUME IInv, phase' \in {"init", "running"} => phase \in {"init", "running"},
         UNCHANGED <<nInit, nSlabsAvailable, inFlight>>,
         \A q \in Ports : PortWeight(q)' = PortWeight(q)
  PROVE  TotalBounded'
<1>1. Weights' = Weights /\ Room' = Room
  BY DEF Weights, Room, PoolSlots
<1> QED BY <1>1 DEF IInv, TotalBounded

(* bcache_prod turns one buffer it is given into one buffer it holds. *)
LEMMA ProdWeight ==
  ASSUME TypeOK, NEW p \in Ports, NEW b, BcacheProd(p, b)
  PROVE  /\ nProd'[p] + nSlabsAvailable' * SlabSize = nProd[p] + nSlabsAvailable * SlabSize + 1
         /\ \A q \in Ports : q # p => nProd'[q] = nProd[q]
<1>1. nProd[p] \in 0..SlabSize /\ nProd \in [Ports -> 0..SlabSize] /\ nSlabsAvailable \in Int
  BY DEF TypeOK
<1>2. CASE nProd[p] < SlabSize
  <2>1. nProd' = [nProd EXCEPT ![p] = nProd[p] + 1] /\ nSlabsAvailable' = nSlabsAvailable
    BY <1>1, <1>2, PoolAssumption DEF BcacheProd
  <2>2. nSlabsAvailable * SlabSize \in Int
    BY <1>1, SlabProducts
  <2> QED BY <1>1, <2>1, <2>2
<1>3. CASE nProd[p] >= SlabSize
  <2>1. nProd' = [nProd EXCEPT ![p] = 1] /\ nSlabsAvailable' = nSlabsAvailable + 1
        /\ nProd[p] = SlabSize
    BY <1>1, <1>3, PoolAssumption DEF BcacheProd
  <2>2. nSlabsAvailable * SlabSize \in Int
        /\ (nSlabsAvailable + 1) * SlabSize = nSlabsAvailable * SlabSize + SlabSize
    BY <1>1, SlabProducts
  <2>3. nProd'[p] = 1 /\ \A q \in Ports : q # p => nProd'[q] = nProd[q]
    BY <1>1, <2>1
  <2>4. SlabSize \in Nat
    BY PoolAssumption
  <2> QED BY <2>1, <2>2, <2>3, <2>4
<1> QED BY <1>1, <1>2, <1>3, PoolAssumption

(* Every step keeps the bound on the total. *)
LEMMA TotalStep == IInv /\ [Next]_vars => TotalBounded'
<1> SUFFICES ASSUME IInv, [Next]_vars PROVE TotalBounded'
  OBVIOUS
<1>0. TypeOK /\ TypeOK' /\ Control /\ IsFiniteSet(inFlight')
  BY TypeStep, ControlStep DEF IInv, Control
<1>a. \A q \in Ports : /\ nCons[q] \in Nat /\ nProd[q] \in Nat /\ burst[q] \in Seq(Addresses)
                       /\ nCons'[q] \in Nat /\ nProd'[q] \in Nat
  BY <1>0, PoolAssumption DEF TypeOK
<1>b. nSlabsAvailable * SlabSize \in Int /\ nSlabsAvailable' * SlabSize \in Int
      /\ nSlabsAvailable \in Int
  BY <1>0, SlabProducts DEF TypeOK
<1>c. Room \in Int /\ Room' \in Int
  <2>1. nInit \in Int /\ nInit' \in Int
    BY <1>0 DEF TypeOK
  <2> QED BY <2>1, PoolAssumption DEF Room, PoolSlots
<1>d. IsFiniteSet(inFlight) /\ Cardinality(inFlight) \in Nat /\ Cardinality(inFlight') \in Nat
  BY <1>0, FS_CardinalityType DEF Control
<1>1. CASE PortInit
  <2>0. PICK p \in Ports : p = nInit
    BY <1>1, PortInitFacts
  <2>1. /\ phase = "init" /\ nInit' = nInit + 1 /\ nSlabsAvailable' = nSlabsAvailable - 2
        /\ inFlight' = inFlight /\ rxPc' = rxPc /\ burst' = burst
        /\ nCons' = [nCons EXCEPT ![p] = SlabSize - FillSize]
        /\ nProd' = [nProd EXCEPT ![p] = 0]
    BY <1>1, <2>0 DEF PortInit
  <2>2. nInit \in Nat /\ nInit \in Int /\ PoolSlots \in Int /\ PoolSlots' = PoolSlots - 2
    BY <1>0, <2>1, PoolAssumption DEF TypeOK, PoolSlots
  <2>3. Room' = Room - 2 * SlabSize + (SlabSize - FillSize)
    <3>1. (PoolSlots - 2) * SlabSize = PoolSlots * SlabSize - 2 * SlabSize
          /\ PoolSlots * SlabSize \in Int
      BY <2>2, SlabProducts
    <3>2. (nInit + 1) * (SlabSize - FillSize)
            = nInit * (SlabSize - FillSize) + (SlabSize - FillSize)
          /\ nInit * (SlabSize - FillSize) \in Int /\ SlabSize \in Int /\ FillSize \in Int
      BY <2>2, PoolAssumption
    <3> QED BY <2>1, <2>2, <3>1, <3>2 DEF Room
  <2>4. nSlabsAvailable' * SlabSize = nSlabsAvailable * SlabSize - 2 * SlabSize
    BY <1>b, <2>1, SlabProducts
  <2>5. PortWeight(p) = 0
    <3>1. p >= nInit
      BY <2>0, <2>2
    <3> QED BY <1>0, <2>1, <3>1 DEF Control, PortWeight
  <2>6. PortWeight(p)' = SlabSize - FillSize
    <3>1. rxPc'[p] = "check" /\ nCons'[p] = SlabSize - FillSize /\ nProd'[p] = 0
      BY <1>0, <2>1 DEF Control, TypeOK
    <3>2. SlabSize - FillSize + 0 + 0 = SlabSize - FillSize
      BY PoolAssumption
    <3> QED BY <3>1, <3>2 DEF PortWeight
  <2>7. \A q \in Ports : q # p => PortWeight(q)' = PortWeight(q)
    <3>1. \A q \in Ports : q # p => nCons'[q] = nCons[q] /\ nProd'[q] = nProd[q]
      BY <1>0, <2>1 DEF TypeOK
    <3> QED BY <2>1, <3>1 DEF PortWeight
  <2>8. PortWeight(p)' + nSlabsAvailable' * SlabSize + Cardinality(inFlight') + Room
          <= PortWeight(p) + nSlabsAvailable * SlabSize + Cardinality(inFlight) + Room'
    <3>1. SlabSize \in Int /\ FillSize \in Int
      BY PoolAssumption
    <3> QED BY <1>b, <1>c, <1>d, <2>1, <2>3, <2>4, <2>5, <2>6, <3>1
  <2> QED BY <1>0, <2>1, <2>7, <2>8, TotalKept
<1>2. CASE PortInitFails \/ JoinThreads \/ PortFree
  BY <1>0, <1>2 DEF PortInitFails, JoinThreads, PortFree, TotalBounded, Control
<1>3. CASE StartThreads
  BY <1>3, TotalUnchanged DEF StartThreads, pool, consumer, producer, PortWeight
<1>4. ASSUME NEW p \in Ports, PortStep(p) PROVE TotalBounded'
  <2>1. CASE KernelReceive(p)
    <3>1. UNCHANGED <<control, pool, consumer, producer, rxPc, burst, inFlight>>
      BY <2>1 DEF KernelReceive
    <3> QED BY <3>1, TotalUnchanged DEF control, pool, consumer, producer, PortWeight
  <2>2. CASE RxCheckLocal(p)
    <3>1. /\ UNCHANGED <<control, pool, consumer, producer, burst, inFlight>>
          /\ rxPc[p] = "check" /\ rxPc' = [rxPc EXCEPT ![p] = "peek"]
      BY <2>2 DEF RxCheckLocal, At
    <3>2. \A q \in Ports : rxPc'[q] = "process" <=> rxPc[q] = "process"
      BY <1>0, <3>1 DEF TypeOK
    <3> QED BY <3>1, <3>2, TotalUnchanged DEF control, pool, consumer, producer, PortWeight
  <2>3. CASE RxCheckTrade(p)
    <3>1. /\ phase = "running" /\ UNCHANGED <<control, producer, burst, inFlight>>
          /\ rxPc[p] = "check" /\ rxPc' = [rxPc EXCEPT ![p] = "peek"]
          /\ nCons[p] = 0 /\ nCons' = [nCons EXCEPT ![p] = SlabSize]
          /\ nSlabsAvailable' = nSlabsAvailable - 1
      BY <2>3 DEF RxCheckTrade, At
    <3>2. /\ \A q \in Ports : rxPc'[q] = "process" <=> rxPc[q] = "process"
          /\ \A q \in Ports : q # p => nCons'[q] = nCons[q]
          /\ nCons'[p] = SlabSize
      BY <1>0, <3>1 DEF TypeOK
    <3>3. \A q \in Ports : q # p => PortWeight(q)' = PortWeight(q)
      BY <3>1, <3>2 DEF PortWeight, producer
    <3>4. PortWeight(p) = nProd[p] /\ PortWeight(p)' = nProd[p] + SlabSize
      <4>1. rxPc'[p] # "process" /\ nProd' = nProd
        BY <3>1, <3>2 DEF producer
      <4> QED BY <1>a, <3>1, <3>2, <4>1, PoolAssumption DEF PortWeight
    <3>5. nSlabsAvailable' * SlabSize = nSlabsAvailable * SlabSize - SlabSize
      BY <1>b, <3>1, SlabProducts
    <3>6. Room' = Room /\ SlabSize \in Int
      BY <3>1, PoolAssumption DEF control, Room, PoolSlots
    <3>7. PortWeight(p)' + nSlabsAvailable' * SlabSize + Cardinality(inFlight') + Room
            <= PortWeight(p) + nSlabsAvailable * SlabSize + Cardinality(inFlight) + Room'
      BY <1>a, <1>b, <1>c, <1>d, <3>1, <3>4, <3>5, <3>6
    <3> QED BY <1>0, <3>1, <3>3, <3>7, TotalKept
  <2>4. CASE RxPeek(p)
    <3>1. UNCHANGED <<control, pool, consumer, producer, fq, inFlight>>
      BY <2>4 DEF RxPeek
    <3>2. PICK n \in 0..Len(rx[p]) :
            /\ rxPc[p] = "peek" /\ rxPc' = [rxPc EXCEPT ![p] = IF n = 0 THEN "check" ELSE "refill"]
            /\ burst' = [burst EXCEPT ![p] = SubSeq(rx[p], 1, n)]
      BY <1>0, <2>4, PeekFacts
    <3>3. \A q \in Ports : /\ rxPc'[q] = "process" <=> rxPc[q] = "process"
                           /\ rxPc[q] = "process" => burst'[q] = burst[q]
      BY <1>0, <3>2 DEF TypeOK
    <3> QED BY <3>1, <3>3, TotalUnchanged DEF control, pool, consumer, producer, PortWeight
  <2>5. CASE RxRefill(p)
    <3>1. UNCHANGED <<control, pool, slabCons, producer, rx, burst, inFlight>>
      BY <2>5 DEF RxRefill
    <3>2. /\ rxPc[p] = "refill" /\ Len(burst[p]) \in 0..nCons[p]
          /\ rxPc'[p] = "process" /\ nCons'[p] = nCons[p] - Len(burst[p])
          /\ \A q \in Ports : q # p => rxPc'[q] = rxPc[q] /\ nCons'[q] = nCons[q]
      BY <1>0, <2>5, RefillFacts DEF TypeOK
    <3>3. PortWeight(p)' = PortWeight(p)
      <4> DEFINE n == Len(burst[p])
      <4>1. PortWeight(p) = nCons[p] + nProd[p] + 0
        BY <3>2 DEF PortWeight
      <4>2. PortWeight(p)' = (nCons[p] - n) + nProd[p] + n
        BY <3>1, <3>2 DEF PortWeight, producer
      <4>3. n \in Int
        BY <3>2
      <4> HIDE DEF n
      <4> QED BY <1>a, <4>1, <4>2, <4>3
    <3>4. \A q \in Ports : q # p => PortWeight(q)' = PortWeight(q)
      BY <3>1, <3>2 DEF PortWeight, producer
    <3> QED BY <3>1, <3>3, <3>4, TotalUnchanged DEF control, pool
  <2>6. ASSUME Processed(p)
        PROVE  LET held == IF rxPc'[p] = "process" THEN Len(burst'[p]) ELSE 0
               IN  /\ PortWeight(p) = nCons[p] + nProd[p] + held + 1 /\ held \in Nat
                   /\ PortWeight(p)' = nCons'[p] + nProd'[p] + held
                   /\ \A q \in Ports : q # p => rxPc'[q] = rxPc[q] /\ burst'[q] = burst[q]
    <3> DEFINE n == Len(burst[p])
    <3>1. /\ rxPc[p] = "process" /\ n \in Nat \ {0}
          /\ Len(burst'[p]) = n - 1
          /\ rxPc'[p] = IF n = 1 THEN "check" ELSE "process"
          /\ \A q \in Ports : q # p => rxPc'[q] = rxPc[q] /\ burst'[q] = burst[q]
      <4>1. /\ rxPc[p] = "process" /\ n \in Nat \ {0} /\ Len(Tail(burst[p])) = n - 1
            /\ burst' = [burst EXCEPT ![p] = Tail(burst[p])]
            /\ rxPc' = [rxPc EXCEPT ![p] = IF n = 1 THEN "check" ELSE "process"]
        BY <1>0, <2>6, ProcessedBurst
      <4> HIDE DEF n
      <4> QED BY <1>0, <4>1 DEF TypeOK
    <3>2. PortWeight(p) = nCons[p] + nProd[p] + n
      BY <3>1 DEF PortWeight
    <3> HIDE DEF n
    <3> DEFINE held == IF rxPc'[p] = "process" THEN Len(burst'[p]) ELSE 0
    <3>3. held = n - 1 /\ held \in Nat
      BY <3>1
    <3>4. PortWeight(p)' = nCons'[p] + nProd'[p] + held
      BY DEF PortWeight
    <3> HIDE DEF held
    <3>5. PortWeight(p) = nCons[p] + nProd[p] + held + 1
      BY <1>a, <3>1, <3>2, <3>3
    <3> QED BY <3>1, <3>3, <3>4, <3>5 DEF held
  <2> DEFINE held == IF rxPc'[p] = "process" THEN Len(burst'[p]) ELSE 0
  <2>7. Processed(p) =>
          /\ phase = "running"
          /\ PortWeight(p) = nCons[p] + nProd[p] + held + 1 /\ held \in Nat
          /\ PortWeight(p)' = nCons'[p] + nProd'[p] + held
          /\ \A q \in Ports : q # p => rxPc'[q] = rxPc[q] /\ burst'[q] = burst[q]
    BY <2>6 DEF Processed, At
  <2> HIDE DEF held
  <2>8. UNCHANGED control => Room' = Room
    BY DEF control, Room, PoolSlots
  <2>9. CASE RxForward(p)
    <3>1. /\ Processed(p) /\ inFlight' = inFlight \cup {Head(burst[p])}
          /\ UNCHANGED <<control, pool, consumer, producer, rings>>
      BY <2>9 DEF RxForward
    <3>2. Cardinality(inFlight') <= Cardinality(inFlight) + 1
      BY SMTT(60), <1>d, <3>1, FS_AddElement
    <3>3. nCons' = nCons /\ nProd' = nProd /\ nSlabsAvailable' = nSlabsAvailable
      BY <3>1 DEF pool, consumer, producer
    <3>4. \A q \in Ports : q # p => PortWeight(q)' = PortWeight(q)
      BY <2>7, <3>1, <3>3 DEF PortWeight
    <3>5. PortWeight(p)' + nSlabsAvailable' * SlabSize + Cardinality(inFlight') + Room
            <= PortWeight(p) + nSlabsAvailable * SlabSize + Cardinality(inFlight) + Room'
      BY SMTT(60), <1>a, <1>b, <1>c, <1>d, <2>7, <2>8, <3>1, <3>2, <3>3
    <3> QED BY <1>0, <2>7, <3>1, <3>4, <3>5, TotalKept
  <2>10. CASE RxDrop(p)
    <3>1. /\ Processed(p) /\ BcacheProd(p, Head(burst[p]))
          /\ UNCHANGED <<control, consumer, rings, inFlight>>
      BY <2>10 DEF RxDrop
    <3>2. /\ nProd'[p] + nSlabsAvailable' * SlabSize = nProd[p] + nSlabsAvailable * SlabSize + 1
          /\ \A q \in Ports : q # p => nProd'[q] = nProd[q]
      BY <1>0, <3>1, ProdWeight
    <3>3. nCons' = nCons /\ inFlight' = inFlight
      BY <3>1 DEF consumer
    <3>4. \A q \in Ports : q # p => PortWeight(q)' = PortWeight(q)
      BY <2>7, <3>1, <3>2, <3>3 DEF PortWeight
    <3>5. /\ PortWeight(p)' = nCons[p] + nProd'[p] + held
          /\ PortWeight(p) = nCons[p] + nProd[p] + held + 1
          /\ held \in Nat
      BY <2>7, <3>1, <3>3
    <3>6. PortWeight(p)' + nSlabsAvailable' * SlabSize = PortWeight(p) + nSlabsAvailable * SlabSize
          /\ PortWeight(p)' \in Int /\ PortWeight(p) \in Int
      <4>1. nCons[p] \in Nat /\ nProd[p] \in Nat /\ nProd'[p] \in Nat
        BY <1>a
      <4> QED BY <1>b, <3>2, <3>5, <4>1
    <3>7. PortWeight(p)' + nSlabsAvailable' * SlabSize + Cardinality(inFlight') + Room
            <= PortWeight(p) + nSlabsAvailable * SlabSize + Cardinality(inFlight) + Room'
      BY <1>b, <1>c, <1>d, <2>8, <3>1, <3>3, <3>6
    <3> QED BY <1>0, <2>7, <3>1, <3>4, <3>7, TotalKept
  <2>11. CASE RxForget(p)
    <3>1. Processed(p) /\ UNCHANGED <<control, pool, consumer, producer, rings, inFlight>>
      BY <2>11 DEF RxForget
    <3>2. nCons' = nCons /\ nProd' = nProd /\ nSlabsAvailable' = nSlabsAvailable
          /\ inFlight' = inFlight
      BY <3>1 DEF pool, consumer, producer
    <3>3. \A q \in Ports : q # p => PortWeight(q)' = PortWeight(q)
      BY <2>7, <3>1, <3>2 DEF PortWeight
    <3>4. PortWeight(p)' + nSlabsAvailable' * SlabSize + Cardinality(inFlight') + Room
            <= PortWeight(p) + nSlabsAvailable * SlabSize + Cardinality(inFlight) + Room'
      BY SMTT(60), <1>a, <1>b, <1>c, <1>d, <2>7, <2>8, <3>1, <3>2
    <3> QED BY <1>0, <2>7, <3>1, <3>3, <3>4, TotalKept
  <2>12. ASSUME NEW b \in inFlight, TxComplete(p, b) PROVE TotalBounded'
    <3>1. /\ phase = "running" /\ inFlight' = inFlight \ {b} /\ BcacheProd(p, b)
          /\ UNCHANGED <<control, consumer, rings, rxPc, burst>>
      BY <2>12 DEF TxComplete
    <3>2. /\ nProd'[p] + nSlabsAvailable' * SlabSize = nProd[p] + nSlabsAvailable * SlabSize + 1
          /\ \A q \in Ports : q # p => nProd'[q] = nProd[q]
      BY <1>0, <3>1, ProdWeight
    <3>3. nCons' = nCons /\ Cardinality(inFlight') = Cardinality(inFlight) - 1
      BY <1>d, <3>1, FS_RemoveElement DEF consumer
    <3>4. \A q \in Ports : q # p => PortWeight(q)' = PortWeight(q)
      BY <3>1, <3>2, <3>3 DEF PortWeight
    <3>5. PortWeight(p)' + nSlabsAvailable' * SlabSize = PortWeight(p) + nSlabsAvailable * SlabSize + 1
      <4> DEFINE kept == IF rxPc[p] = "process" THEN Len(burst[p]) ELSE 0
      <4>1. PortWeight(p) = nCons[p] + nProd[p] + kept
            /\ PortWeight(p)' = nCons'[p] + nProd'[p] + kept
        BY <3>1 DEF PortWeight
      <4>2. kept \in Nat
        BY <1>a, LenProperties
      <4> HIDE DEF kept
      <4>3. PortWeight(p)' = nCons[p] + nProd'[p] + kept
        BY <3>3, <4>1
      <4>4. nCons[p] \in Nat /\ nProd[p] \in Nat /\ nProd'[p] \in Nat
        BY <1>a
      <4> QED BY <1>b, <3>2, <4>1, <4>2, <4>3, <4>4
    <3>6. PortWeight(p)' \in Int /\ PortWeight(p) \in Int
      <4>1. Len(burst[p]) \in Nat
        BY <1>a, LenProperties
      <4> QED BY SMTT(60), <1>a, <3>1, <4>1 DEF PortWeight
    <3>7. PortWeight(p)' + nSlabsAvailable' * SlabSize + Cardinality(inFlight') + Room
            <= PortWeight(p) + nSlabsAvailable * SlabSize + Cardinality(inFlight) + Room'
      BY <1>b, <1>c, <1>d, <2>8, <3>1, <3>3, <3>5, <3>6
    <3> QED BY <1>0, <3>1, <3>4, <3>7, TotalKept
  <2> QED BY <1>4, <2>1, <2>2, <2>3, <2>4, <2>5, <2>9, <2>10, <2>11, <2>12 DEF PortStep
<1>5. CASE UNCHANGED vars
  BY <1>5, TotalUnchanged DEF vars, control, pool, consumer, producer, PortWeight
<1> QED BY <1>1, <1>2, <1>3, <1>4, <1>5, NextSteps

-----------------------------------------------------------------------------
(* SlabPartition depends on the slab pointers and on who owns them only. *)
LEMMA PartitionUnchanged ==
  ASSUME IInv, phase' \in {"init", "running"} => phase \in {"init", "running"},
         UNCHANGED <<nInit, slabs, slabCons, slabProd>>
  PROVE  SlabPartition'
BY DEF IInv, SlabPartition, PoolSlots

(* bcache_prod swaps at most one slab pointer with the pool. *)
LEMMA ProdPartition ==
  ASSUME IInv, phase = "running", NEW p \in Ports, NEW b, BcacheProd(p, b),
         UNCHANGED <<control, slabCons>>,
         inFlight # {} \/ (rxPc[p] = "process" /\ burst[p] # << >>)
  PROVE  SlabPartition'
<1>1. TypeOK /\ SlabPartition /\ nInit = NPorts /\ phase' = phase /\ PoolSlots' = PoolSlots
      /\ nInit' = nInit /\ nProd[p] \in Nat /\ p \in 0..(nInit - 1)
  <2>1. TypeOK /\ SlabPartition /\ nInit = NPorts
    BY Running DEF IInv
  <2>2. phase' = phase /\ nInit' = nInit /\ PoolSlots' = PoolSlots
    BY DEF control, PoolSlots
  <2>3. nProd[p] \in Nat
    BY <2>1, PoolAssumption DEF TypeOK
  <2> QED BY <2>1, <2>2, <2>3 DEF Ports
<1>2. CASE nProd[p] < SlabSize
  BY <1>1, <1>2, PartitionUnchanged, PoolAssumption DEF BcacheProd
<1>3. CASE nProd[p] >= SlabSize
  <2> DEFINE a == nSlabsAvailable
  <2>1. a \in 0..(PoolSlots - 1) /\ a \in SlabIds
        /\ \A i \in 0..(PoolSlots - 1) : i \in SlabIds
    <3>1. PoolSlots \in 0..NSlabs /\ a < PoolSlots
      BY <1>3, ProdSlot
    <3> QED BY <1>1, <3>1, PoolAssumption DEF TypeOK, SlabIds
  <2>2. /\ slabs' = [slabs EXCEPT ![a] = slabProd[p]]
        /\ slabProd' = [slabProd EXCEPT ![p] = slabs[a]]
    BY <1>1, <1>3, PoolAssumption DEF BcacheProd
  <2> HIDE DEF a
  <2>3. /\ \A i \in 0..(PoolSlots - 1) : slabs'[i] = IF i = a THEN slabProd[p] ELSE slabs[i]
        /\ \A q \in 0..(nInit - 1) : slabProd'[q] = IF q = p THEN slabs[a] ELSE slabProd[q]
        /\ slabCons' = slabCons
    BY <1>1, <2>1, <2>2 DEF TypeOK, Ports
  <2> HIDE DEF BcacheProd
  <2>4. \A i, j \in 0..(PoolSlots - 1) : slabs'[i] = slabs'[j] => i = j
    BY <1>1, <2>1, <2>3 DEF SlabPartition
  <2>5. \A q, r \in 0..(nInit - 1) :
          /\ slabCons'[q] = slabCons'[r] => q = r
          /\ slabProd'[q] = slabProd'[r] => q = r
          /\ slabCons'[q] # slabProd'[r]
    BY <1>1, <2>1, <2>3 DEF SlabPartition
  <2>6. \A i \in 0..(PoolSlots - 1), q \in 0..(nInit - 1) :
          slabs'[i] # slabCons'[q] /\ slabs'[i] # slabProd'[q]
    BY <1>1, <2>1, <2>3 DEF SlabPartition
  <2> QED BY <1>1, <2>4, <2>5, <2>6 DEF SlabPartition
<1> QED BY <1>1, <1>2, <1>3, PoolAssumption

(* Every step keeps the slabs partitioned between pool and caches. *)
LEMMA PartitionStep == IInv /\ [Next]_vars => SlabPartition'
<1> SUFFICES ASSUME IInv, [Next]_vars PROVE SlabPartition'
  OBVIOUS
<1>0. TypeOK /\ Control /\ SlabPartition
  BY DEF IInv
<1>1. CASE PortInit
  <2>1. PICK p \in Ports : p = nInit
    BY <1>1, PortInitFacts
  <2>2. PoolSlots \in 0..NSlabs /\ PoolSlots - 1 \in SlabIds /\ PoolSlots - 2 \in SlabIds
        /\ nSlabsAvailable = PoolSlots
    BY <1>0, <1>1, PortInitFacts DEF TypeOK
  <2>3. /\ slabs' = slabs /\ nInit' = nInit + 1 /\ phase = "init" /\ nInit \in Nat
        /\ slabCons' = [slabCons EXCEPT ![p] = slabs[PoolSlots - 1]]
        /\ slabProd' = [slabProd EXCEPT ![p] = slabs[PoolSlots - 2]]
    BY <1>0, <1>1, <2>1, <2>2 DEF PortInit, TypeOK
  <2>4. PoolSlots' = PoolSlots - 2
    BY <2>2, <2>3, PoolAssumption DEF PoolSlots
  <2>5. /\ \A q \in 0..(nInit' - 1) : q \in 0..(nInit - 1) \/ q = p
        /\ \A i \in 0..(PoolSlots' - 1) :
             i \in 0..(PoolSlots - 1) /\ i # PoolSlots - 1 /\ i # PoolSlots - 2
        /\ PoolSlots - 1 \in 0..(PoolSlots - 1) /\ PoolSlots - 2 \in 0..(PoolSlots - 1)
        /\ PoolSlots - 1 # PoolSlots - 2
    BY <2>1, <2>2, <2>3, <2>4 DEF SlabIds
  <2>6. \A q \in 0..(nInit - 1) : q # p /\ q \in Ports
    BY <1>0, <2>1, <2>3, PoolAssumption DEF Ports, TypeOK
  <2>7. /\ slabCons'[p] = slabs[PoolSlots - 1] /\ slabProd'[p] = slabs[PoolSlots - 2]
        /\ \A q \in 0..(nInit - 1) : slabCons'[q] = slabCons[q] /\ slabProd'[q] = slabProd[q]
    BY <1>0, <2>3, <2>6 DEF TypeOK
  <2>8. \A i, j \in 0..(PoolSlots' - 1) : slabs'[i] = slabs'[j] => i = j
    BY <1>0, <2>3, <2>5 DEF SlabPartition
  <2>9. \A q, r \in 0..(nInit' - 1) :
          /\ slabCons'[q] = slabCons'[r] => q = r
          /\ slabProd'[q] = slabProd'[r] => q = r
          /\ slabCons'[q] # slabProd'[r]
    BY <1>0, <2>3, <2>5, <2>7 DEF SlabPartition
  <2>10. \A i \in 0..(PoolSlots' - 1), q \in 0..(nInit' - 1) :
           slabs'[i] # slabCons'[q] /\ slabs'[i] # slabProd'[q]
    BY <1>0, <2>3, <2>5, <2>7 DEF SlabPartition
  <2> QED BY <2>8, <2>9, <2>10 DEF SlabPartition
<1>2. CASE PortInitFails \/ StartThreads \/ JoinThreads \/ PortFree
  BY <1>0, <1>2, PartitionUnchanged
  DEF PortInitFails, StartThreads, JoinThreads, PortFree, SlabPartition, pool, consumer, producer
<1>3. ASSUME NEW p \in Ports, PortStep(p) PROVE SlabPartition'
  <2>1. CASE KernelReceive(p) \/ RxCheckLocal(p) \/ RxPeek(p) \/ RxForward(p) \/ RxForget(p)
    <3>1. UNCHANGED <<control, pool, consumer, producer>>
      BY <2>1 DEF KernelReceive, RxCheckLocal, RxPeek, RxForward, RxForget
    <3> QED BY <3>1, PartitionUnchanged DEF control, pool, consumer, producer
  <2>2. CASE RxRefill(p)
    BY <2>2, PartitionUnchanged DEF RxRefill, control, pool, producer
  <2>3. CASE RxCheckTrade(p)
    <3> DEFINE a == nSlabsAvailable - 1
    <3>1. /\ phase = "running" /\ nSlabsAvailable > 0 /\ UNCHANGED <<control, producer>>
          /\ slabCons' = [slabCons EXCEPT ![p] = slabs[a]]
          /\ slabs' = [slabs EXCEPT ![a] = slabCons[p]]
      BY <2>3 DEF RxCheckTrade, At
    <3>2. /\ phase' = phase /\ nInit' = nInit /\ PoolSlots' = PoolSlots /\ slabProd' = slabProd
          /\ nInit = NPorts /\ nFreed = 0 /\ p \in 0..(nInit - 1)
      BY <3>1, Running DEF control, producer, PoolSlots, Ports
    <3>3. a \in 0..(PoolSlots - 1) /\ a \in SlabIds /\ \A i \in 0..(PoolSlots - 1) : i \in SlabIds
      BY <1>0, <3>1, <3>2, PoolAssumption DEF TypeOK, Control, PoolSlots, SlabIds
    <3> HIDE DEF a
    <3>4. /\ \A i \in 0..(PoolSlots - 1) : slabs'[i] = IF i = a THEN slabCons[p] ELSE slabs[i]
          /\ \A q \in 0..(nInit - 1) : slabCons'[q] = IF q = p THEN slabs[a] ELSE slabCons[q]
      BY <1>0, <3>1, <3>2, <3>3 DEF TypeOK, Ports
    <3>5. \A i, j \in 0..(PoolSlots - 1) : slabs'[i] = slabs'[j] => i = j
      BY <1>0, <3>1, <3>2, <3>3, <3>4 DEF SlabPartition
    <3>6. \A q, r \in 0..(nInit - 1) :
            /\ slabCons'[q] = slabCons'[r] => q = r
            /\ slabProd'[q] = slabProd'[r] => q = r
            /\ slabCons'[q] # slabProd'[r]
      BY <1>0, <3>1, <3>2, <3>3, <3>4 DEF SlabPartition
    <3>7. \A i \in 0..(PoolSlots - 1), q \in 0..(nInit - 1) :
            slabs'[i] # slabCons'[q] /\ slabs'[i] # slabProd'[q]
      BY <1>0, <3>1, <3>2, <3>3, <3>4 DEF SlabPartition
    <3> QED BY <3>2, <3>5, <3>6, <3>7 DEF SlabPartition
  <2>4. CASE RxDrop(p)
    <3>1. Processed(p) /\ BcacheProd(p, Head(burst[p])) /\ UNCHANGED <<control, consumer>>
      BY <2>4 DEF RxDrop
    <3>2. phase = "running" /\ rxPc[p] = "process" /\ burst[p] # << >>
      BY <1>0, <3>1, ProcessedBurst
    <3> QED BY <3>1, <3>2, ProdPartition DEF consumer
  <2>5. ASSUME NEW b \in inFlight, TxComplete(p, b) PROVE SlabPartition'
    <3>1. phase = "running" /\ BcacheProd(p, b) /\ UNCHANGED <<control, slabCons>>
      BY <2>5 DEF TxComplete, consumer
    <3> QED BY <3>1, ProdPartition
  <2> QED BY <1>3, <2>1, <2>2, <2>3, <2>4, <2>5 DEF PortStep
<1>4. CASE UNCHANGED vars
  BY <1>4, PartitionUnchanged DEF vars, control, pool, consumer, producer
<1> QED BY <1>1, <1>2, <1>3, <1>4, NextSteps

-----------------------------------------------------------------------------
(* The invariant holds in every reachable state. *)
THEOREM Invariance == Spec => []IInv
<1>1. Init => IInv
  BY InitInvariant
<1>2. IInv /\ [Next]_vars => IInv'
  BY TypeStep, ControlStep, RefillStep, TotalStep, PartitionStep DEF IInv
<1> QED BY <1>1, <1>2, PTL DEF Spec

(* Every variable of the pool, the caches and the rings keeps its type: no   *)
(* index of bcache_cons, bcache_prod or bcache_cons_check leaves its array.  *)
THEOREM TypeCorrect == Spec => []TypeOK
<1>1. IInv => TypeOK
  BY DEF IInv
<1> QED BY <1>1, Invariance, PTL

(* The guarantee bcache_prod relies on (mempool.h:173-179) holds for every   *)
(* number of ports and slabs, as long as the buffers left over from filling  *)
(* the fill rings do not exceed a slab (FillAssumption), and no two calls of *)
(* bcache_prod on one cache overlap (MCSlabRace_shared shows one that fails  *)
(* when they do).                                                            *)
THEOREM EmptySlabGuaranteed == Spec => []EmptySlabAvailable
<1>1. IInv => EmptySlabAvailable
  BY RoomLeft DEF EmptySlabAvailable
<1> QED BY <1>1, Invariance, PTL

(* Trading slabs never duplicates or loses a slab pointer, if no two calls   *)
(* of bcache_prod on one cache overlap.                                      *)
THEOREM SlabsPartitioned == Spec => []SlabPartition
<1>1. IInv => SlabPartition
  BY DEF IInv
<1> QED BY <1>1, Invariance, PTL

(* The refill loop of port_rx_burst always finds room for its burst and      *)
(* enough fresh buffers in the consumer slab.                                *)
THEOREM RefillAlwaysFits == Spec => []RefillNeverSpins
<1>1. IInv => RefillNeverSpins
  <2> SUFFICES ASSUME IInv, NEW p \in Ports, rxPc[p] = "refill"
               PROVE  Len(fq[p]) + Len(burst[p]) <= FillSize /\ Len(burst[p]) <= nCons[p]
    BY DEF RefillNeverSpins
  <2>1. fq[p] \in Seq(Addresses) /\ rx[p] \in Seq(Addresses) /\ burst[p] \in Seq(Addresses)
    BY DEF IInv, TypeOK
  <2>2. Len(fq[p]) \in Nat /\ Len(rx[p]) \in Nat /\ Len(burst[p]) \in Nat
    BY <2>1, LenProperties
  <2>3. Owed(p) = Len(burst[p])
    BY DEF Owed
  <2>4. p < nInit
    <3>1. burst[p] # << >> /\ Len(burst[p]) # 0
      BY <2>1, EmptySeq DEF IInv, Control
    <3>2. Owed(p) <= nCons[p] /\ nCons[p] \in Nat
      BY PoolAssumption DEF IInv, RefillInv, TypeOK
    <3>3. nCons[p] # 0
      BY <2>2, <2>3, <3>1, <3>2
    <3>4. ~(p >= nInit)
      BY <3>3 DEF IInv, Control
    <3> QED BY <3>4, PoolAssumption DEF Ports, IInv, TypeOK
  <2>5. Len(burst[p]) <= nCons[p]
        /\ Len(fq[p]) + Len(rx[p]) + Len(burst[p]) = FillSize
    BY <2>3, <2>4 DEF IInv, RefillInv
  <2> DEFINE f == Len(fq[p])
             r == Len(rx[p])
             n == Len(burst[p])
  <2>6. f \in Nat /\ r \in Nat /\ n \in Nat /\ n <= nCons[p] /\ f + r + n = FillSize
    BY <2>2, <2>5
  <2> HIDE DEF f, r, n
  <2>7. f + n <= FillSize
    BY <2>6
  <2> QED BY <2>6, <2>7 DEF f, n
<1> QED BY <1>1, Invariance, PTL

-----------------------------------------------------------------------------
(***************************************************************************)
(* NoBufferTwice.  K, O and X say of each address in what kind of place it *)
(* is, whose (which slab, or which port), and at which index: if every     *)
(* place a usable buffer can be in agrees with them, no address is in two. *)
(***************************************************************************)
IsAt(K, O, X, a, kind, owner, index) == K[a] = kind /\ O[a] = owner /\ X[a] = index

SlabsPlaced(K, O, X) ==
  /\ \A i \in 0..(nSlabsAvailable - 1), e \in Entries :
       IsAt(K, O, X, buffers[slabs[i]][e], "slab", slabs[i], e)
  /\ \A p \in 0..(nInit - 1) : \A e \in 0..(nCons[p] - 1) :
       IsAt(K, O, X, buffers[slabCons[p]][e], "slab", slabCons[p], e)
  /\ \A p \in 0..(nInit - 1) : \A e \in 0..(nProd[p] - 1) :
       IsAt(K, O, X, buffers[slabProd[p]][e], "slab", slabProd[p], e)

FillPlaced(K, O, X) ==
  \A p \in Ports : \A i \in 1..Len(fq[p]) : IsAt(K, O, X, fq[p][i], "fq", p, i)
RxPlaced(K, O, X) ==
  \A p \in Ports : \A i \in 1..Len(rx[p]) : IsAt(K, O, X, rx[p][i], "rx", p, i)
BurstPlaced(K, O, X) ==
  \A p \in Ports : \A i \in 1..Len(burst[p]) : IsAt(K, O, X, burst[p][i], "burst", p, i)
FlightPlaced(K) == \A b \in inFlight : K[b] = "flight"

Placed(K, O, X) ==
  SlabsPlaced(K, O, X) /\ FillPlaced(K, O, X) /\ RxPlaced(K, O, X)
    /\ BurstPlaced(K, O, X) /\ FlightPlaced(K)

Distinct == phase \in {"init", "running"} => \E K, O, X : Placed(K, O, X)

-----------------------------------------------------------------------------
\* Initially address <<s, e>> is entry e of slab s.
LEMMA InitDistinct == Init => Distinct
<1> SUFFICES ASSUME Init PROVE \E K, O, X : Placed(K, O, X)
  BY DEF Distinct
<1> DEFINE K == [a \in Addresses |-> "slab"]
           O == [a \in Addresses |-> a[1]]
           X == [a \in Addresses |-> a[2]]
<1>1. ASSUME NEW s \in SlabIds, NEW e \in Entries
      PROVE  IsAt(K, O, X, buffers[s][e], "slab", s, e)
  BY DEF Init, IsAt, Addresses
<1>2. \A i \in 0..(nSlabsAvailable - 1) : i \in SlabIds /\ slabs[i] \in SlabIds
  BY PoolAssumption DEF Init, SlabIds
<1> HIDE DEF K, O, X
<1>3. SlabsPlaced(K, O, X)
  BY <1>1, <1>2, PoolAssumption DEF Init, SlabsPlaced
<1>4. FillPlaced(K, O, X) /\ RxPlaced(K, O, X) /\ BurstPlaced(K, O, X) /\ FlightPlaced(K)
  <2>1. Len(<< >>) = 0
    OBVIOUS
  <2> QED BY <2>1 DEF Init, FillPlaced, RxPlaced, BurstPlaced, FlightPlaced
<1> QED BY <1>3, <1>4 DEF Placed

\* The elements of the rings and of the slabs are addresses.
LEMMA PlaceTypes ==
  ASSUME TypeOK
  PROVE  /\ \A s \in SlabIds, e \in Entries : buffers[s][e] \in Addresses
         /\ \A p \in Ports : /\ \A i \in 1..Len(fq[p]) : fq[p][i] \in Addresses
                             /\ \A i \in 1..Len(rx[p]) : rx[p][i] \in Addresses
                             /\ \A i \in 1..Len(burst[p]) : burst[p][i] \in Addresses
         /\ \A b \in inFlight : b \in Addresses
<1>1. \A p \in Ports :
        fq[p] \in Seq(Addresses) /\ rx[p] \in Seq(Addresses) /\ burst[p] \in Seq(Addresses)
  BY DEF TypeOK
<1>2. \A s \in SlabIds, e \in Entries : buffers[s][e] \in Addresses
  BY DEF TypeOK
<1>3. \A b \in inFlight : b \in Addresses
  BY DEF TypeOK
<1> QED BY <1>1, <1>2, <1>3, ElementOfSeq

\* Slabs that hold usable buffers exist, and so do the entries used.
LEMMA SlabTypes ==
  ASSUME IInv
  PROVE  /\ \A i \in 0..(nSlabsAvailable - 1) : i \in SlabIds /\ slabs[i] \in SlabIds
         /\ \A p \in 0..(nInit - 1) :
              /\ p \in Ports /\ slabCons[p] \in SlabIds /\ slabProd[p] \in SlabIds
              /\ nCons[p] \in Nat /\ nProd[p] \in Nat
              /\ \A e \in 0..(nCons[p] - 1) : e \in Entries
              /\ \A e \in 0..(nProd[p] - 1) : e \in Entries
<1>1. TypeOK
  BY DEF IInv
<1>2. \A i \in 0..(nSlabsAvailable - 1) : i \in SlabIds /\ slabs[i] \in SlabIds
  BY <1>1, PoolAssumption DEF TypeOK, SlabIds
<1>3. ASSUME NEW p \in 0..(nInit - 1) PROVE p \in Ports
  BY <1>1, <1>3, PoolAssumption DEF TypeOK, Ports
<1>4. ASSUME NEW p \in Ports
      PROVE  /\ slabCons[p] \in SlabIds /\ slabProd[p] \in SlabIds
             /\ nCons[p] \in Nat /\ nProd[p] \in Nat
             /\ \A e \in 0..(nCons[p] - 1) : e \in Entries
             /\ \A e \in 0..(nProd[p] - 1) : e \in Entries
  <2>1. nCons[p] \in 0..SlabSize /\ nProd[p] \in 0..SlabSize /\ SlabSize \in Nat
    BY <1>1, PoolAssumption DEF TypeOK
  <2>2. slabCons[p] \in SlabIds /\ slabProd[p] \in SlabIds
    BY <1>1 DEF TypeOK
  <2> QED BY <2>1, <2>2 DEF Entries
<1> QED BY <1>2, <1>3, <1>4

\* A step that leaves pool and caches alone, and the places in the slabs
LEMMA SlabsKept ==
  ASSUME IInv, NEW K, NEW O, NEW X, SlabsPlaced(K, O, X), NEW L, NEW P, NEW Y,
         UNCHANGED <<slabs, nSlabsAvailable, buffers, slabCons, nCons, slabProd, nProd, nInit>>,
         \A a \in Addresses : K[a] = "slab" => L[a] = K[a] /\ P[a] = O[a] /\ Y[a] = X[a]
  PROVE  SlabsPlaced(L, P, Y)'
<1>1. /\ \A i \in 0..(nSlabsAvailable - 1), e \in Entries : buffers[slabs[i]][e] \in Addresses
      /\ \A p \in 0..(nInit - 1) : \A e \in 0..(nCons[p] - 1) : buffers[slabCons[p]][e] \in Addresses
      /\ \A p \in 0..(nInit - 1) : \A e \in 0..(nProd[p] - 1) : buffers[slabProd[p]][e] \in Addresses
  BY SlabTypes, PlaceTypes DEF IInv
<1> QED BY <1>1 DEF SlabsPlaced, IsAt

\* The same for the rings, the bursts and what is in flight: most steps leave all
\* but one of them alone.
LEMMA FillKept ==
  ASSUME TypeOK, NEW K, NEW O, NEW X, FillPlaced(K, O, X), NEW L, NEW P, NEW Y, UNCHANGED fq,
         \A a \in Addresses : K[a] = "fq" => L[a] = K[a] /\ P[a] = O[a] /\ Y[a] = X[a]
  PROVE  FillPlaced(L, P, Y)'
BY PlaceTypes DEF FillPlaced, IsAt

LEMMA RxKept ==
  ASSUME TypeOK, NEW K, NEW O, NEW X, RxPlaced(K, O, X), NEW L, NEW P, NEW Y, UNCHANGED rx,
         \A a \in Addresses : K[a] = "rx" => L[a] = K[a] /\ P[a] = O[a] /\ Y[a] = X[a]
  PROVE  RxPlaced(L, P, Y)'
BY PlaceTypes DEF RxPlaced, IsAt

LEMMA BurstKept ==
  ASSUME TypeOK, NEW K, NEW O, NEW X, BurstPlaced(K, O, X), NEW L, NEW P, NEW Y, UNCHANGED burst,
         \A a \in Addresses : K[a] = "burst" => L[a] = K[a] /\ P[a] = O[a] /\ Y[a] = X[a]
  PROVE  BurstPlaced(L, P, Y)'
BY PlaceTypes DEF BurstPlaced, IsAt

LEMMA FlightKept ==
  ASSUME TypeOK, NEW K, FlightPlaced(K), NEW L, UNCHANGED inFlight,
         \A a \in Addresses : K[a] = "flight" => L[a] = K[a]
  PROVE  FlightPlaced(L)'
BY PlaceTypes DEF FlightPlaced

\* The entry bcache_prod stores in was not in use, and the others stay in place.
LEMMA ProdPlaced ==
  ASSUME IInv, phase = "running", NEW p \in Ports, NEW b \in Addresses, BcacheProd(p, b),
         UNCHANGED <<control, consumer>>,
         inFlight # {} \/ (rxPc[p] = "process" /\ burst[p] # << >>),
         NEW K, NEW O, NEW X, SlabsPlaced(K, O, X), K[b] # "slab", NEW L, NEW P, NEW Y,
         L[b] = "slab",
         P[b] = IF nProd[p] < SlabSize THEN slabProd[p] ELSE slabs[nSlabsAvailable],
         Y[b] = IF nProd[p] < SlabSize THEN nProd[p] ELSE 0,
         \A a \in Addresses : K[a] = "slab" => L[a] = K[a] /\ P[a] = O[a] /\ Y[a] = X[a]
  PROVE  SlabsPlaced(L, P, Y)'
<1>1. TypeOK /\ nInit = NPorts /\ p \in 0..(nInit - 1) /\ p \in Ports /\ nProd[p] \in 0..SlabSize
      /\ nInit \in Nat /\ nSlabsAvailable \in 0..NSlabs /\ nSlabsAvailable <= PoolSlots
      /\ PoolSlots \in 0..NSlabs /\ SlabSize \in Nat \ {0} /\ SlabPartition
      /\ slabProd[p] \in SlabIds /\ nProd[p] \in Nat /\ NSlabs \in Nat /\ PoolSlots \in Nat
  <2>1. TypeOK /\ SlabPartition /\ nInit = NPorts /\ nFreed = 0
    BY Running DEF IInv
  <2>2. /\ p \in 0..(nInit - 1) /\ NSlabs \in Nat /\ SlabSize \in Nat \ {0} /\ nInit \in Nat
    BY <2>1, PoolAssumption DEF Ports
  <2>3. nProd[p] \in 0..SlabSize /\ slabProd[p] \in SlabIds /\ nSlabsAvailable \in 0..NSlabs
    BY <2>1 DEF TypeOK
  <2>4. PoolSlots \in 0..NSlabs
    BY ProdSlot
  <2>5. nSlabsAvailable <= PoolSlots
    BY <2>1, <2>2, <2>3 DEF IInv, Control, PoolSlots
  <2> QED BY <2>1, <2>2, <2>3, <2>4, <2>5
<1>2. UNCHANGED <<nInit, slabCons, nCons>>
  BY DEF control, consumer
<1>3. \A s \in SlabIds, e \in Entries :
        K[buffers[s][e]] = "slab" =>
          /\ buffers[s][e] # b
          /\ L[buffers[s][e]] = "slab"
          /\ P[buffers[s][e]] = O[buffers[s][e]] /\ Y[buffers[s][e]] = X[buffers[s][e]]
  BY <1>1, PlaceTypes
<1>4. /\ \A i \in 0..(nSlabsAvailable - 1) : i \in SlabIds /\ slabs[i] \in SlabIds
      /\ \A q \in 0..(nInit - 1) :
           /\ q \in Ports /\ slabCons[q] \in SlabIds /\ slabProd[q] \in SlabIds
           /\ nCons[q] \in Nat /\ nProd[q] \in Nat
           /\ \A e \in 0..(nCons[q] - 1) : e \in Entries
           /\ \A e \in 0..(nProd[q] - 1) : e \in Entries
  BY SlabTypes
<1>5. CASE nProd[p] < SlabSize
  <2> DEFINE s == slabProd[p]
             n == nProd[p]
  <2>1. /\ buffers' = [buffers EXCEPT ![s][n] = b]
        /\ nProd' = [nProd EXCEPT ![p] = n + 1]
        /\ UNCHANGED <<slabs, nSlabsAvailable, slabProd>>
    BY <1>1, <1>5 DEF BcacheProd
  <2>2. n \in Entries /\ s \in SlabIds /\ n \in Nat
    BY <1>1, <1>5 DEF Entries
  <2> HIDE DEF s, n
  <2>3. /\ buffers'[s][n] = b
        /\ \A t \in SlabIds, e \in Entries : t # s \/ e # n => buffers'[t][e] = buffers[t][e]
    BY <1>1, <2>1, <2>2 DEF TypeOK
  <2>4. /\ \A q \in Ports : nProd'[q] = IF q = p THEN n + 1 ELSE nProd[q]
    BY <1>1, <2>1 DEF TypeOK
  <2>5. P[b] = s /\ Y[b] = n
    BY <1>5 DEF s, n
  <2>6. ASSUME NEW i \in 0..(nSlabsAvailable - 1), NEW e \in Entries
        PROVE  IsAt(L, P, Y, buffers'[slabs[i]][e], "slab", slabs[i], e)
    <3>1. slabs[i] # s
      BY <1>1 DEF SlabPartition, s
    <3> QED BY <1>3, <1>4, <2>3, <3>1 DEF SlabsPlaced, IsAt
  <2>7. ASSUME NEW q \in 0..(nInit - 1), NEW e \in 0..(nCons[q] - 1)
        PROVE  IsAt(L, P, Y, buffers'[slabCons[q]][e], "slab", slabCons[q], e)
    <3>1. slabCons[q] # s
      BY <1>1 DEF SlabPartition, s
    <3> QED BY SMTT(30), <1>3, <1>4, <2>3, <3>1 DEF SlabsPlaced, IsAt
  <2>8. ASSUME NEW q \in 0..(nInit - 1), NEW e \in 0..(nProd'[q] - 1)
        PROVE  IsAt(L, P, Y, buffers'[slabProd[q]][e], "slab", slabProd[q], e)
    <3>1. CASE q = p /\ e = n
      <4>1. slabProd[q] = s
        BY <3>1 DEF s
      <4> QED BY <2>3, <2>5, <3>1, <4>1 DEF IsAt
    <3>2. CASE ~(q = p /\ e = n)
      <4>1. e \in 0..(nProd[q] - 1)
        <5>1. nProd'[q] = IF q = p THEN n + 1 ELSE nProd[q]
          BY <1>4, <2>4
        <5>2. nProd[p] = n
          BY DEF n
        <5> QED BY <1>4, <2>2, <3>2, <5>1, <5>2
      <4>2. slabProd[q] # s \/ e # n
        BY <1>1, <3>2 DEF SlabPartition, s
      <4> QED BY <1>3, <1>4, <2>3, <4>1, <4>2 DEF SlabsPlaced, IsAt
    <3> QED BY <3>1, <3>2
  <2> QED BY <1>2, <2>1, <2>6, <2>7, <2>8 DEF SlabsPlaced
<1>6. CASE nProd[p] >= SlabSize
  <2> DEFINE top == nSlabsAvailable
             s == slabs[nSlabsAvailable]
  <2>1. /\ slabs' = [slabs EXCEPT ![top] = slabProd[p]]
        /\ nSlabsAvailable' = top + 1
        /\ buffers' = [buffers EXCEPT ![s][0] = b]
        /\ slabProd' = [slabProd EXCEPT ![p] = s]
        /\ nProd' = [nProd EXCEPT ![p] = 1]
    BY <1>1, <1>6 DEF BcacheProd
  <2>2. top \in 0..(PoolSlots - 1) /\ nProd[p] = SlabSize /\ top \in SlabIds /\ top \in Nat
    <3>1. nProd[p] = SlabSize /\ nSlabsAvailable < PoolSlots
      BY <1>6, ProdSlot
    <3> QED BY <1>1, <3>1 DEF SlabIds
  <2>3. s \in SlabIds /\ 0 \in Entries
    BY <1>1, <2>2 DEF TypeOK, Entries
  <2>4. P[b] = s /\ Y[b] = 0
    BY <1>1, <1>6
  <2>5. \A i \in 0..(top - 1) : i \in 0..(PoolSlots - 1) /\ i # top /\ slabs[i] # s
    <3>1. \A i \in 0..(top - 1) : i \in 0..(PoolSlots - 1) /\ i # top
      BY <1>1, <2>2
    <3> QED BY <1>1, <2>2, <3>1 DEF SlabPartition
  <2>6. \A q \in 0..(nInit - 1) : slabCons[q] # s /\ slabProd[q] # s
    BY <1>1, <2>2 DEF SlabPartition
  <2> HIDE DEF top, s
  <2>7. /\ buffers'[s][0] = b
        /\ \A t \in SlabIds, e \in Entries : t # s => buffers'[t][e] = buffers[t][e]
    BY <1>1, <2>1, <2>3 DEF TypeOK
  <2>8. /\ \A i \in SlabIds : slabs'[i] = IF i = top THEN slabProd[p] ELSE slabs[i]
        /\ \A q \in Ports : /\ slabProd'[q] = IF q = p THEN s ELSE slabProd[q]
                            /\ nProd'[q] = IF q = p THEN 1 ELSE nProd[q]
    BY <1>1, <2>1 DEF TypeOK
  <2>9. ASSUME NEW i \in 0..top, NEW e \in Entries
        PROVE  IsAt(L, P, Y, buffers'[slabs'[i]][e], "slab", slabs'[i], e)
    <3>1. CASE i = top
      <4>1. slabs'[i] = slabProd[p] /\ slabProd[p] # s /\ e \in 0..(nProd[p] - 1)
        BY <1>1, <2>2, <2>6, <2>8, <3>1 DEF Entries
      <4>2. IsAt(K, O, X, buffers[slabProd[p]][e], "slab", slabProd[p], e)
        BY <1>1, <4>1 DEF SlabsPlaced
      <4>3. buffers'[slabs'[i]][e] = buffers[slabProd[p]][e]
        BY <1>1, <2>7, <4>1
      <4>4. IsAt(L, P, Y, buffers[slabProd[p]][e], "slab", slabProd[p], e)
        BY <1>1, <1>3, <4>2 DEF IsAt
      <4> QED BY <4>1, <4>3, <4>4
    <3>2. CASE i # top
      <4>1. i \in 0..(top - 1)
        BY <2>2, <3>2
      <4>2. i \in SlabIds /\ slabs'[i] = slabs[i] /\ slabs[i] # s /\ slabs[i] \in SlabIds
        BY <1>4, <2>5, <2>8, <3>2, <4>1 DEF top
      <4>3. IsAt(K, O, X, buffers[slabs[i]][e], "slab", slabs[i], e)
        BY <4>1 DEF SlabsPlaced, top
      <4>4. buffers'[slabs'[i]][e] = buffers[slabs[i]][e] /\ slabs[i] \in SlabIds
        BY <2>7, <4>2
      <4>5. IsAt(L, P, Y, buffers[slabs[i]][e], "slab", slabs[i], e)
        BY <1>3, <4>3, <4>4 DEF IsAt
      <4> QED BY <4>2, <4>4, <4>5
    <3> QED BY <3>1, <3>2
  <2>10. ASSUME NEW q \in 0..(nInit - 1), NEW e \in 0..(nCons[q] - 1)
        PROVE  IsAt(L, P, Y, buffers'[slabCons[q]][e], "slab", slabCons[q], e)
    BY <1>3, <1>4, <2>6, <2>7 DEF SlabsPlaced, IsAt
  <2>11. ASSUME NEW q \in 0..(nInit - 1), NEW e \in 0..(nProd'[q] - 1)
        PROVE  IsAt(L, P, Y, buffers'[slabProd'[q]][e], "slab", slabProd'[q], e)
    <3>1. CASE q = p
      <4>1. slabProd'[q] = s /\ e = 0
        BY <1>1, <2>8, <3>1
      <4> QED BY <2>4, <2>7, <4>1 DEF IsAt
    <3>2. CASE q # p
      BY SMTT(30), <1>3, <1>4, <2>6, <2>7, <2>8, <3>2 DEF SlabsPlaced, IsAt
    <3> QED BY <3>1, <3>2
  <2>12. \A i \in 0..(nSlabsAvailable' - 1) : i \in 0..top
    BY <2>1, <2>2
  <2> QED BY <1>2, <2>9, <2>10, <2>11, <2>12 DEF SlabsPlaced
<1> QED BY <1>1, <1>5, <1>6

-----------------------------------------------------------------------------
\* The head of the fill ring becomes the last of the receive ring.
LEMMA KernelReceivePlaced ==
  ASSUME IInv, NEW K, NEW O, NEW X, Placed(K, O, X), NEW p \in Ports, KernelReceive(p)
  PROVE  \E L, P, Y : Placed(L, P, Y)'
<1> DEFINE h == fq[p][1]
           n == Len(rx[p])
<1>1. /\ TypeOK /\ fq[p] # << >> /\ fq[p] \in Seq(Addresses) /\ rx[p] \in Seq(Addresses)
      /\ SlabsPlaced(K, O, X) /\ FillPlaced(K, O, X) /\ RxPlaced(K, O, X)
      /\ BurstPlaced(K, O, X) /\ FlightPlaced(K)
      /\ fq' = [fq EXCEPT ![p] = Tail(fq[p])] /\ rx' = [rx EXCEPT ![p] = Append(rx[p], h)]
      /\ UNCHANGED <<control, pool, consumer, producer, burst, inFlight>>
  BY SMTT(60) DEF IInv, TypeOK, Placed, KernelReceive
<1>2. /\ Len(fq[p]) \in Nat \ {0} /\ n \in Nat /\ h \in Addresses /\ IsAt(K, O, X, h, "fq", p, 1)
      /\ fq \in [Ports -> Seq(Addresses)] /\ rx \in [Ports -> Seq(Addresses)]
  BY SMTT(30), <1>1, EmptySeq, PlaceTypes DEF FillPlaced, TypeOK
<1> HIDE DEF h, n
<1>3. /\ Len(fq'[p]) = Len(fq[p]) - 1 /\ \A i \in 1..Len(fq'[p]) : fq'[p][i] = fq[p][i + 1]
      /\ \A q \in Ports \ {p} : fq'[q] = fq[q] /\ rx'[q] = rx[q]
      /\ Len(rx'[p]) = n + 1 /\ rx'[p][n + 1] = h
      /\ \A i \in 1..n : rx'[p][i] = rx[p][i]
  BY <1>1, <1>2, HeadTailProperties, AppendProperties DEF n
<1>4. PICK L, P, Y :
        /\ L[h] = "rx" /\ P[h] = p /\ Y[h] = n + 1
        /\ \A a \in Addresses \ {h} :
             /\ L[a] = K[a] /\ P[a] = O[a]
             /\ Y[a] = IF K[a] = "fq" /\ O[a] = p THEN X[a] - 1 ELSE X[a]
  <2> DEFINE kinds == [a \in Addresses |-> IF a = h THEN "rx" ELSE K[a]]
             owners == [a \in Addresses |-> IF a = h THEN p ELSE O[a]]
             indices == [a \in Addresses |->
                           IF a = h THEN n + 1
                           ELSE IF K[a] = "fq" /\ O[a] = p THEN X[a] - 1 ELSE X[a]]
  <2>1. /\ kinds[h] = "rx" /\ owners[h] = p /\ indices[h] = n + 1
        /\ \A a \in Addresses \ {h} :
             /\ kinds[a] = K[a] /\ owners[a] = O[a]
             /\ indices[a] = IF K[a] = "fq" /\ O[a] = p THEN X[a] - 1 ELSE X[a]
    BY <1>2
  <2> HIDE DEF kinds, owners, indices
  <2> QED BY <2>1
<1>5. SlabsPlaced(L, P, Y)'
  <2>1. UNCHANGED <<slabs, nSlabsAvailable, buffers, slabCons, nCons, slabProd, nProd, nInit>>
    BY <1>1 DEF pool, consumer, producer, control
  <2>2. \A a \in Addresses : K[a] = "slab" => L[a] = K[a] /\ P[a] = O[a] /\ Y[a] = X[a]
    BY <1>2, <1>4 DEF IsAt
  <2> QED BY <1>1, <2>1, <2>2, SlabsKept
<1>6. FillPlaced(L, P, Y)'
  <2>1. ASSUME NEW q \in Ports \ {p}, NEW i \in 1..Len(fq'[q])
        PROVE  IsAt(L, P, Y, fq'[q][i], "fq", q, i)
    <3>1. IsAt(K, O, X, fq[q][i], "fq", q, i) /\ fq[q][i] \in Addresses /\ fq'[q] = fq[q]
      BY <1>1, <1>3, <2>1, PlaceTypes DEF FillPlaced
    <3> QED BY <1>2, <1>4, <3>1 DEF IsAt
  <2>2. ASSUME NEW i \in 1..Len(fq'[p])
        PROVE  IsAt(L, P, Y, fq'[p][i], "fq", p, i)
    <3>1. i \in Nat /\ i + 1 \in 1..Len(fq[p]) /\ fq'[p][i] = fq[p][i + 1]
      <4>1. fq'[p][i] = fq[p][i + 1]
        BY <1>3
      <4>2. Len(fq'[p]) = Len(fq[p]) - 1 /\ Len(fq[p]) \in Nat \ {0}
        BY <1>2, <1>3
      <4>3. i \in Nat /\ i + 1 \in 1..Len(fq[p])
        BY <4>2
      <4> QED BY <4>1, <4>3
    <3>2. IsAt(K, O, X, fq[p][i + 1], "fq", p, i + 1) /\ fq[p][i + 1] \in Addresses
      BY <1>1, <3>1, PlaceTypes DEF FillPlaced
    <3>3. fq[p][i + 1] # h
      BY <1>2, <3>1, <3>2 DEF IsAt
    <3>4. IsAt(L, P, Y, fq[p][i + 1], "fq", p, i)
      <4>1. PICK a \in Addresses \ {h} : a = fq[p][i + 1]
        BY <3>2, <3>3
      <4>2. K[a] = "fq" /\ O[a] = p /\ X[a] = i + 1
        BY <3>2, <4>1 DEF IsAt
      <4>3. L[a] = "fq" /\ P[a] = p /\ Y[a] = X[a] - 1
        BY <1>4, <4>2
      <4>4. Y[a] = i
        BY <3>1, <4>2, <4>3
      <4> QED BY <4>1, <4>3, <4>4 DEF IsAt
    <3> QED BY <3>1, <3>4
  <2> QED BY <2>1, <2>2 DEF FillPlaced
<1>7. RxPlaced(L, P, Y)'
  <2>1. ASSUME NEW q \in Ports, NEW i \in 1..Len(rx[q])
        PROVE  IsAt(L, P, Y, rx[q][i], "rx", q, i)
    <3>1. IsAt(K, O, X, rx[q][i], "rx", q, i) /\ rx[q][i] \in Addresses
      BY <1>1, PlaceTypes DEF RxPlaced
    <3> QED BY <1>2, <1>4, <3>1 DEF IsAt
  <2>2. ASSUME NEW q \in Ports, NEW i \in 1..Len(rx'[q])
        PROVE  IsAt(L, P, Y, rx'[q][i], "rx", q, i)
    <3>1. CASE q = p /\ i = n + 1
      BY <1>2, <1>3, <1>4, <3>1 DEF IsAt
    <3>2. CASE ~(q = p /\ i = n + 1)
      <4>1. i \in 1..Len(rx[q]) /\ rx'[q][i] = rx[q][i]
        BY <1>2, <1>3, <3>2 DEF n
      <4> QED BY <2>1, <4>1
    <3> QED BY <3>1, <3>2
  <2> QED BY <2>2 DEF RxPlaced
<1>8. BurstPlaced(L, P, Y)' /\ FlightPlaced(L)'
  <2>1. /\ \A a \in Addresses : K[a] = "burst" => L[a] = K[a] /\ P[a] = O[a] /\ Y[a] = X[a]
        /\ \A a \in Addresses : K[a] = "flight" => L[a] = K[a]
    BY <1>2, <1>4 DEF IsAt
  <2> QED BY <1>1, <2>1, BurstKept, FlightKept
<1> QED BY <1>5, <1>6, <1>7, <1>8 DEF Placed

\* The first n of the receive ring become the burst.
LEMMA RxPeekPlaced ==
  ASSUME IInv, NEW K, NEW O, NEW X, Placed(K, O, X), NEW p \in Ports, RxPeek(p)
  PROVE  \E L, P, Y : Placed(L, P, Y)'
<1>1. PICK n \in 0..Len(rx[p]) :
        /\ burst' = [burst EXCEPT ![p] = SubSeq(rx[p], 1, n)]
        /\ rx' = [rx EXCEPT ![p] = SubSeq(rx[p], n + 1, Len(rx[p]))]
        /\ Len(SubSeq(rx[p], 1, n)) = n
        /\ Len(SubSeq(rx[p], n + 1, Len(rx[p]))) = Len(rx[p]) - n
  BY PeekFacts DEF IInv
<1>2. /\ TypeOK /\ rx[p] \in Seq(Addresses) /\ Len(rx[p]) \in Nat /\ n \in Nat
      /\ rx \in [Ports -> Seq(Addresses)] /\ burst \in [Ports -> Seq(Addresses)]
      /\ SlabsPlaced(K, O, X) /\ FillPlaced(K, O, X) /\ RxPlaced(K, O, X)
      /\ BurstPlaced(K, O, X) /\ FlightPlaced(K)
      /\ UNCHANGED <<control, pool, consumer, producer, fq, inFlight>>
  BY LenProperties DEF IInv, TypeOK, Placed, RxPeek
<1>3. /\ Len(burst'[p]) = n /\ \A i \in 1..n : burst'[p][i] = rx[p][i]
      /\ Len(rx'[p]) = Len(rx[p]) - n
      /\ \A i \in 1..(Len(rx[p]) - n) : rx'[p][i] = rx[p][n + i]
      /\ \A q \in Ports \ {p} : burst'[q] = burst[q] /\ rx'[q] = rx[q]
  <2>1. burst'[p] = SubSeq(rx[p], 1, n) /\ rx'[p] = SubSeq(rx[p], n + 1, Len(rx[p]))
    BY <1>1, <1>2
  <2>2. \A i \in 1..n : SubSeq(rx[p], 1, n)[i] = rx[p][i]
    BY <1>1, <1>2
  <2>3. \A i \in 1..(Len(rx[p]) - n) : SubSeq(rx[p], n + 1, Len(rx[p]))[i] = rx[p][n + i]
    BY <1>1, <1>2
  <2>4. \A q \in Ports \ {p} : burst'[q] = burst[q] /\ rx'[q] = rx[q]
    BY <1>1, <1>2
  <2> QED BY <1>1, <2>1, <2>2, <2>3, <2>4
<1>4. PICK L, P, Y :
        \A a \in Addresses :
          LET inRing == K[a] = "rx" /\ O[a] = p
          IN  /\ L[a] = IF inRing /\ X[a] <= n THEN "burst" ELSE K[a]
              /\ P[a] = O[a]
              /\ Y[a] = IF inRing /\ ~ (X[a] <= n) THEN X[a] - n ELSE X[a]
  <2> DEFINE kinds == [a \in Addresses |->
                         IF K[a] = "rx" /\ O[a] = p /\ X[a] <= n THEN "burst" ELSE K[a]]
             indices == [a \in Addresses |->
                           IF K[a] = "rx" /\ O[a] = p /\ ~ (X[a] <= n) THEN X[a] - n ELSE X[a]]
  <2>1. \A a \in Addresses :
          /\ kinds[a] = IF K[a] = "rx" /\ O[a] = p /\ X[a] <= n THEN "burst" ELSE K[a]
          /\ indices[a] = IF K[a] = "rx" /\ O[a] = p /\ ~ (X[a] <= n) THEN X[a] - n ELSE X[a]
    OBVIOUS
  <2> HIDE DEF kinds, indices
  <2> QED BY <2>1
<1>5. SlabsPlaced(L, P, Y)'
  <2>1. UNCHANGED <<slabs, nSlabsAvailable, buffers, slabCons, nCons, slabProd, nProd, nInit>>
    BY <1>2 DEF pool, consumer, producer, control
  <2>2. \A a \in Addresses : K[a] = "slab" => L[a] = K[a] /\ P[a] = O[a] /\ Y[a] = X[a]
    BY <1>4
  <2> QED BY <1>2, <2>1, <2>2, SlabsKept
<1>6. FillPlaced(L, P, Y)' /\ FlightPlaced(L)'
  <2>1. /\ \A a \in Addresses : K[a] = "fq" => L[a] = K[a] /\ P[a] = O[a] /\ Y[a] = X[a]
        /\ \A a \in Addresses : K[a] = "flight" => L[a] = K[a]
    BY <1>4
  <2> QED BY <1>2, <2>1, FillKept, FlightKept
<1>7. RxPlaced(L, P, Y)'
  <2>1. ASSUME NEW q \in Ports \ {p}, NEW i \in 1..Len(rx'[q])
        PROVE  IsAt(L, P, Y, rx'[q][i], "rx", q, i)
    <3>1. IsAt(K, O, X, rx[q][i], "rx", q, i) /\ rx[q][i] \in Addresses /\ rx'[q] = rx[q]
      BY <1>2, <1>3, <2>1, PlaceTypes DEF RxPlaced
    <3> QED BY <1>4, <3>1 DEF IsAt
  <2>2. ASSUME NEW i \in 1..Len(rx'[p])
        PROVE  IsAt(L, P, Y, rx'[p][i], "rx", p, i)
    <3>1. i \in Nat \ {0} /\ n + i \in 1..Len(rx[p]) /\ rx'[p][i] = rx[p][n + i]
      <4>1. i \in 1..(Len(rx[p]) - n)
        BY <1>3
      <4>2. rx'[p][i] = rx[p][n + i]
        BY <1>3, <4>1
      <4>3. i \in Nat \ {0} /\ n + i \in 1..Len(rx[p])
        BY <1>2, <4>1
      <4> QED BY <4>2, <4>3
    <3>2. PICK a \in Addresses : a = rx[p][n + i] /\ K[a] = "rx" /\ O[a] = p /\ X[a] = n + i
      BY <1>2, <3>1, PlaceTypes DEF RxPlaced, IsAt
    <3>3. ~ (X[a] <= n) /\ X[a] - n = i
      BY <1>2, <3>1, <3>2
    <3>4. L[a] = "rx" /\ P[a] = p /\ Y[a] = i
      BY <1>4, <3>2, <3>3
    <3> QED BY <3>1, <3>2, <3>4 DEF IsAt
  <2> QED BY <2>1, <2>2 DEF RxPlaced
<1>8. BurstPlaced(L, P, Y)'
  <2>1. ASSUME NEW q \in Ports \ {p}, NEW i \in 1..Len(burst'[q])
        PROVE  IsAt(L, P, Y, burst'[q][i], "burst", q, i)
    <3>1. /\ IsAt(K, O, X, burst[q][i], "burst", q, i) /\ burst[q][i] \in Addresses
          /\ burst'[q] = burst[q]
      BY <1>2, <1>3, <2>1, PlaceTypes DEF BurstPlaced
    <3> QED BY <1>4, <3>1 DEF IsAt
  <2>2. ASSUME NEW i \in 1..Len(burst'[p])
        PROVE  IsAt(L, P, Y, burst'[p][i], "burst", p, i)
    <3>1. i \in Nat \ {0} /\ i <= n /\ i \in 1..Len(rx[p]) /\ burst'[p][i] = rx[p][i]
      BY <1>1, <1>2, <1>3
    <3>2. PICK a \in Addresses : a = rx[p][i] /\ K[a] = "rx" /\ O[a] = p /\ X[a] = i
      BY <1>2, <3>1, PlaceTypes DEF RxPlaced, IsAt
    <3>3. L[a] = "burst" /\ P[a] = p /\ Y[a] = i
      BY <1>4, <3>1, <3>2
    <3> QED BY <3>1, <3>2, <3>3 DEF IsAt
  <2> QED BY <2>1, <2>2 DEF BurstPlaced
<1> QED BY <1>5, <1>6, <1>7, <1>8 DEF Placed

\* The topmost n buffers of the consumer slab become the last of the fill ring.
LEMMA RxRefillPlaced ==
  ASSUME IInv, NEW K, NEW O, NEW X, Placed(K, O, X), NEW p \in Ports, RxRefill(p)
  PROVE  \E L, P, Y : Placed(L, P, Y)'
<1> DEFINE n == Len(burst[p])
           c == slabCons[p]
           m == nCons[p]
           f == Len(fq[p])
           fresh == [i \in 1..n |-> buffers[c][m - i]]
<1>1. /\ TypeOK /\ SlabPartition
      /\ fq \in [Ports -> Seq(Addresses)] /\ nCons \in [Ports -> 0..SlabSize]
      /\ n \in Nat /\ m \in Nat /\ n <= m /\ m <= SlabSize /\ SlabSize \in Nat /\ f \in Nat
      /\ c \in SlabIds /\ phase = "running" /\ nInit = NPorts /\ p \in 0..(nInit - 1)
      /\ nSlabsAvailable <= PoolSlots /\ fq[p] \in Seq(Addresses)
      /\ SlabsPlaced(K, O, X) /\ FillPlaced(K, O, X) /\ RxPlaced(K, O, X)
      /\ BurstPlaced(K, O, X) /\ FlightPlaced(K)
  <2>1. phase = "running" /\ n \in 0..m
    BY RefillFacts
  <2>2. TypeOK /\ SlabPartition /\ nInit = NPorts /\ nFreed = 0
    BY <2>1, Running DEF IInv
  <2>3. m \in 0..SlabSize /\ SlabSize \in Nat /\ p \in 0..(nInit - 1)
    BY <2>2, PoolAssumption DEF TypeOK, Ports
  <2>4. nSlabsAvailable <= PoolSlots
    <3>1. nInit \in Nat /\ NSlabs \in Nat /\ nSlabsAvailable \in 0..NSlabs
      BY <2>2, PoolAssumption DEF TypeOK
    <3> QED BY <2>2, <3>1 DEF IInv, Control, PoolSlots
  <2>5. f \in Nat /\ fq[p] \in Seq(Addresses) /\ fq \in [Ports -> Seq(Addresses)] /\ c \in SlabIds
        /\ nCons \in [Ports -> 0..SlabSize]
    BY <2>2, LenProperties DEF TypeOK
  <2> QED BY <2>1, <2>2, <2>3, <2>4, <2>5 DEF Placed
<1>2. /\ fq' = [fq EXCEPT ![p] = fq[p] \o fresh] /\ nCons' = [nCons EXCEPT ![p] = m - n]
      /\ UNCHANGED <<control, pool, slabCons, producer, rx, burst, inFlight>>
  BY DEF RxRefill
<1> HIDE DEF n, c, m, f
<1>3. /\ Len(fq'[p]) = f + n
      /\ \A i \in 1..f : fq'[p][i] = fq[p][i]
      /\ \A i \in 1..n : fq'[p][f + i] = buffers[c][m - i]
      /\ \A q \in Ports \ {p} : fq'[q] = fq[q]
  <2>1. \A i \in 1..n : buffers[c][m - i] \in Addresses
    <3>1. \A i \in 1..n : m - i \in Entries
      BY <1>1 DEF Entries
    <3> QED BY <1>1, <3>1, PlaceTypes
  <2>2. fresh \in [1..n -> Addresses]
    BY <2>1
  <2>3. fresh \in Seq(Addresses) /\ Len(fresh) = n
    BY <1>1, <2>2, SeqDef, LenProperties
  <2>4. \A i \in 1..n : fresh[i] = buffers[c][m - i]
    OBVIOUS
  <2> HIDE DEF fresh
  <2>5. fq'[p] = fq[p] \o fresh /\ \A q \in Ports \ {p} : fq'[q] = fq[q]
    BY <1>1, <1>2
  <2>6. /\ Len(fq[p] \o fresh) = f + n
        /\ \A i \in 1..f : (fq[p] \o fresh)[i] = fq[p][i]
        /\ \A i \in 1..n : (fq[p] \o fresh)[f + i] = fresh[i]
    <3>1. /\ Len(fq[p] \o fresh) = Len(fq[p]) + Len(fresh)
          /\ \A i \in 1..(Len(fq[p]) + Len(fresh)) :
               (fq[p] \o fresh)[i] = IF i <= Len(fq[p]) THEN fq[p][i] ELSE fresh[i - Len(fq[p])]
      BY ZenonT(60), <1>1, <2>3, ConcatProperties
    <3>2. \A i \in 1..f : i \in 1..(f + n) /\ i <= f
      BY <1>1
    <3>3. \A i \in 1..n : f + i \in 1..(f + n) /\ ~ (f + i <= f) /\ (f + i) - f = i
      BY <1>1
    <3> QED BY <2>3, <3>1, <3>2, <3>3 DEF f
  <2> QED BY <2>4, <2>5, <2>6
<1> HIDE DEF fresh
<1>4. PICK L, P, Y :
        \A a \in Addresses :
          LET taken == K[a] = "slab" /\ O[a] = c /\ X[a] >= m - n
          IN  /\ L[a] = IF taken THEN "fq" ELSE K[a]
              /\ P[a] = IF taken THEN p ELSE O[a]
              /\ Y[a] = IF taken THEN f + m - X[a] ELSE X[a]
  <2> DEFINE taken(a) == K[a] = "slab" /\ O[a] = c /\ X[a] >= m - n
             kinds == [a \in Addresses |-> IF taken(a) THEN "fq" ELSE K[a]]
             owners == [a \in Addresses |-> IF taken(a) THEN p ELSE O[a]]
             indices == [a \in Addresses |-> IF taken(a) THEN f + m - X[a] ELSE X[a]]
  <2>1. \A a \in Addresses :
          /\ kinds[a] = IF taken(a) THEN "fq" ELSE K[a]
          /\ owners[a] = IF taken(a) THEN p ELSE O[a]
          /\ indices[a] = IF taken(a) THEN f + m - X[a] ELSE X[a]
    OBVIOUS
  <2> HIDE DEF kinds, owners, indices
  <2> QED BY <2>1
<1>5. ASSUME NEW a \in Addresses, NEW s, NEW e, IsAt(K, O, X, a, "slab", s, e),
             s # c \/ ~ (e >= m - n)
      PROVE  IsAt(L, P, Y, a, "slab", s, e)
  BY <1>4, <1>5 DEF IsAt
<1>6. SlabsPlaced(L, P, Y)'
  <2>1. UNCHANGED <<slabs, nSlabsAvailable, buffers, slabCons, slabProd, nProd, nInit>>
    BY <1>2 DEF pool, producer, control
  <2>2. /\ \A i \in 0..(nSlabsAvailable - 1) : i \in SlabIds /\ slabs[i] \in SlabIds
        /\ \A q \in 0..(nInit - 1) :
             /\ q \in Ports /\ slabCons[q] \in SlabIds /\ slabProd[q] \in SlabIds
             /\ nCons[q] \in Nat /\ nProd[q] \in Nat
             /\ \A e \in 0..(nCons[q] - 1) : e \in Entries
             /\ \A e \in 0..(nProd[q] - 1) : e \in Entries
    BY SlabTypes
  <2>3. ASSUME NEW i \in 0..(nSlabsAvailable - 1), NEW e \in Entries
        PROVE  IsAt(L, P, Y, buffers[slabs[i]][e], "slab", slabs[i], e)
    <3>1. IsAt(K, O, X, buffers[slabs[i]][e], "slab", slabs[i], e)
      BY <1>1 DEF SlabsPlaced
    <3>2. slabs[i] # c
      <4>1. i \in 0..(PoolSlots - 1)
        BY <1>1, PoolAssumption DEF TypeOK, PoolSlots
      <4> QED BY <1>1, <4>1 DEF SlabPartition, c
    <3>3. buffers[slabs[i]][e] \in Addresses
      BY <1>1, <2>2, PlaceTypes
    <3> QED BY <1>5, <3>1, <3>2, <3>3
  <2>4. ASSUME NEW q \in 0..(nInit - 1), NEW e \in 0..(nCons'[q] - 1)
        PROVE  IsAt(L, P, Y, buffers[slabCons[q]][e], "slab", slabCons[q], e)
    <3>1. nCons'[q] = IF q = p THEN m - n ELSE nCons[q]
      BY <1>1, <1>2, <2>2
    <3>2. e \in 0..(nCons[q] - 1) /\ (q = p => ~ (e >= m - n))
      BY <1>1, <2>2, <3>1 DEF m
    <3>3. q # p => slabCons[q] # c
      BY <1>1 DEF SlabPartition, c
    <3>4. IsAt(K, O, X, buffers[slabCons[q]][e], "slab", slabCons[q], e)
      BY <1>1, <3>2 DEF SlabsPlaced
    <3>5. buffers[slabCons[q]][e] \in Addresses
      BY <1>1, <2>2, <3>2, PlaceTypes
    <3> QED BY <1>5, <3>2, <3>3, <3>4, <3>5
  <2>5. ASSUME NEW q \in 0..(nInit - 1), NEW e \in 0..(nProd[q] - 1)
        PROVE  IsAt(L, P, Y, buffers[slabProd[q]][e], "slab", slabProd[q], e)
    <3>1. IsAt(K, O, X, buffers[slabProd[q]][e], "slab", slabProd[q], e)
      BY <1>1 DEF SlabsPlaced
    <3>2. slabProd[q] # c
      BY <1>1 DEF SlabPartition, c
    <3>3. buffers[slabProd[q]][e] \in Addresses
      BY <1>1, <2>2, PlaceTypes
    <3> QED BY <1>5, <3>1, <3>2, <3>3
  <2> QED BY <2>1, <2>3, <2>4, <2>5 DEF SlabsPlaced
<1>7. FillPlaced(L, P, Y)'
  <2>1. ASSUME NEW q \in Ports, NEW i \in 1..Len(fq[q])
        PROVE  IsAt(L, P, Y, fq[q][i], "fq", q, i)
    <3>1. IsAt(K, O, X, fq[q][i], "fq", q, i) /\ fq[q][i] \in Addresses
      BY <1>1, PlaceTypes DEF FillPlaced
    <3> QED BY <1>4, <3>1 DEF IsAt
  <2>2. ASSUME NEW i \in 1..n
        PROVE  IsAt(L, P, Y, buffers[c][m - i], "fq", p, f + i)
    <3>1. /\ m - i \in 0..(nCons[p] - 1) /\ m - i \in Entries
          /\ m - i >= m - n /\ f + m - (m - i) = f + i
      BY <1>1 DEF m, Entries
    <3>2. PICK a \in Addresses :
            a = buffers[c][m - i] /\ K[a] = "slab" /\ O[a] = c /\ X[a] = m - i
      BY <1>1, <3>1, PlaceTypes DEF SlabsPlaced, IsAt, c
    <3>3. L[a] = "fq" /\ P[a] = p /\ Y[a] = f + i
      BY <1>4, <3>1, <3>2
    <3> QED BY <3>2, <3>3 DEF IsAt
  <2>3. ASSUME NEW q \in Ports, NEW i \in 1..Len(fq'[q])
        PROVE  IsAt(L, P, Y, fq'[q][i], "fq", q, i)
    <3>1. CASE q # p \/ i <= f
      <4>1. i \in 1..Len(fq[q]) /\ fq'[q][i] = fq[q][i]
        BY <1>1, <1>3, <3>1 DEF f
      <4> QED BY <2>1, <4>1
    <3>2. CASE ~ (q # p \/ i <= f)
      <4>1. i - f \in 1..n /\ f + (i - f) = i /\ q = p
        BY SMTT(60), <1>1, <1>3, <3>2
      <4>2. fq'[q][i] = buffers[c][m - (i - f)]
        BY <1>3, <4>1
      <4> QED BY <2>2, <4>1, <4>2
    <3> QED BY <3>1, <3>2
  <2> QED BY <2>3 DEF FillPlaced
<1>8. RxPlaced(L, P, Y)' /\ BurstPlaced(L, P, Y)' /\ FlightPlaced(L)'
  <2>1. /\ \A a \in Addresses : K[a] = "rx" => L[a] = K[a] /\ P[a] = O[a] /\ Y[a] = X[a]
        /\ \A a \in Addresses : K[a] = "burst" => L[a] = K[a] /\ P[a] = O[a] /\ Y[a] = X[a]
        /\ \A a \in Addresses : K[a] = "flight" => L[a] = K[a]
    BY <1>4
  <2> QED BY <1>1, <1>2, <2>1, RxKept, BurstKept, FlightKept
<1> QED BY <1>6, <1>7, <1>8 DEF Placed

\* bcache_init takes the two topmost slabs; the entries of the first that bcache_cons
\* hands out become the fill ring, those of the second are forgotten.
LEMMA PortInitPlaced ==
  ASSUME IInv, NEW K, NEW O, NEW X, Placed(K, O, X), PortInit
  PROVE  \E L, P, Y : Placed(L, P, Y)'
<1> DEFINE c == slabs[nSlabsAvailable - 1]
           kept == SlabSize - FillSize
<1>1. PICK p \in Ports : p = nInit
  BY PortInitFacts
<1>2. /\ TypeOK /\ SlabPartition /\ phase = "init" /\ nSlabsAvailable = PoolSlots
      /\ SlabsPlaced(K, O, X) /\ FillPlaced(K, O, X) /\ RxPlaced(K, O, X)
      /\ BurstPlaced(K, O, X) /\ FlightPlaced(K)
      /\ nSlabsAvailable - 1 \in SlabIds /\ nSlabsAvailable - 2 \in SlabIds
      /\ fq'[p] \in Seq(Addresses) /\ Len(fq'[p]) = FillSize
      /\ fq \in [Ports -> Seq(Addresses)] /\ nInit \in Nat /\ nSlabsAvailable \in Nat
      /\ SlabSize \in Nat /\ FillSize \in Nat /\ FillSize <= SlabSize /\ kept \in Nat
  <2>1. TypeOK /\ SlabPartition /\ phase = "init"
    BY DEF IInv, PortInit
  <2>2. /\ nSlabsAvailable = PoolSlots
        /\ nSlabsAvailable - 1 \in SlabIds /\ nSlabsAvailable - 2 \in SlabIds
        /\ fq'[p] \in Seq(Addresses) /\ Len(fq'[p]) = FillSize
    BY <1>1, PortInitFacts
  <2>3. /\ fq \in [Ports -> Seq(Addresses)] /\ nInit \in Nat /\ nSlabsAvailable \in Nat
        /\ SlabSize \in Nat /\ FillSize \in Nat /\ FillSize <= SlabSize
    BY <2>1, PoolAssumption DEF TypeOK
  <2> QED BY <2>1, <2>2, <2>3 DEF Placed
<1>3. /\ slabCons' = [slabCons EXCEPT ![p] = c]
      /\ slabProd' = [slabProd EXCEPT ![p] = slabs[nSlabsAvailable - 2]]
      /\ nProd' = [nProd EXCEPT ![p] = 0]
      /\ nSlabsAvailable' = nSlabsAvailable - 2
      /\ nCons' = [nCons EXCEPT ![p] = kept]
      /\ fq' = [fq EXCEPT ![p] = [i \in 1..FillSize |-> buffers[c][SlabSize - i]]]
      /\ nInit' = nInit + 1
      /\ UNCHANGED <<slabs, buffers, rx, burst, inFlight>>
  BY <1>1 DEF PortInit
<1>4. /\ \A q \in 0..(nInit - 1) : q \in Ports /\ q # p
      /\ \A q \in 0..(nInit' - 1) : q \in 0..(nInit - 1) \/ q = p
      /\ \A i \in 0..(nSlabsAvailable' - 1) :
           i \in 0..(nSlabsAvailable - 1) /\ i # nSlabsAvailable - 1
      /\ nSlabsAvailable - 1 \in 0..(nSlabsAvailable - 1)
  <2>1. nInit' = nInit + 1 /\ nSlabsAvailable' = nSlabsAvailable - 2 /\ p = nInit
    BY <1>1, <1>3
  <2>2. \A q \in 0..(nInit - 1) : q \in Ports /\ q # p
    BY <1>1, <1>2, PoolAssumption DEF Ports
  <2>3. nSlabsAvailable - 1 \in Nat
    BY <1>2 DEF SlabIds
  <2> QED BY <1>2, <2>1, <2>2, <2>3
<1>5. /\ c \in SlabIds
      /\ \A i \in 0..(nSlabsAvailable' - 1) : slabs[i] # c
      /\ \A q \in 0..(nInit - 1) : slabCons[q] # c /\ slabProd[q] # c
  BY <1>2, <1>4 DEF SlabPartition, TypeOK
<1>6. /\ slabCons'[p] = c /\ nCons'[p] = kept /\ nProd'[p] = 0
      /\ \A q \in 0..(nInit - 1) :
           /\ slabCons'[q] = slabCons[q] /\ nCons'[q] = nCons[q]
           /\ slabProd'[q] = slabProd[q] /\ nProd'[q] = nProd[q]
  BY <1>2, <1>3, <1>4 DEF TypeOK
<1>7. /\ \A i \in 1..FillSize : fq'[p][i] = buffers[c][SlabSize - i]
      /\ \A q \in Ports \ {p} : fq'[q] = fq[q]
  BY <1>2, <1>3
<1>8. \A e \in Entries : /\ IsAt(K, O, X, buffers[c][e], "slab", c, e)
                         /\ buffers[c][e] \in Addresses
  BY <1>2, <1>4, <1>5, PlaceTypes DEF SlabsPlaced
<1> HIDE DEF c, kept
<1>9. PICK L, P, Y :
        \A a \in Addresses :
          LET taken == K[a] = "slab" /\ O[a] = c /\ X[a] >= kept
          IN  /\ L[a] = IF taken THEN "fq" ELSE K[a]
              /\ P[a] = IF taken THEN p ELSE O[a]
              /\ Y[a] = IF taken THEN SlabSize - X[a] ELSE X[a]
  <2> DEFINE taken(a) == K[a] = "slab" /\ O[a] = c /\ X[a] >= kept
             kinds == [a \in Addresses |-> IF taken(a) THEN "fq" ELSE K[a]]
             owners == [a \in Addresses |-> IF taken(a) THEN p ELSE O[a]]
             indices == [a \in Addresses |-> IF taken(a) THEN SlabSize - X[a] ELSE X[a]]
  <2>1. \A a \in Addresses :
          /\ kinds[a] = IF taken(a) THEN "fq" ELSE K[a]
          /\ owners[a] = IF taken(a) THEN p ELSE O[a]
          /\ indices[a] = IF taken(a) THEN SlabSize - X[a] ELSE X[a]
    OBVIOUS
  <2> HIDE DEF kinds, owners, indices
  <2> QED BY <2>1
<1>10. ASSUME NEW a \in Addresses, NEW s, NEW e, IsAt(K, O, X, a, "slab", s, e),
              s # c \/ ~ (e >= kept)
       PROVE  IsAt(L, P, Y, a, "slab", s, e)
  BY <1>9, <1>10 DEF IsAt
<1>11. SlabsPlaced(L, P, Y)'
  <2>1. /\ \A i \in 0..(nSlabsAvailable - 1) : i \in SlabIds /\ slabs[i] \in SlabIds
        /\ \A q \in 0..(nInit - 1) :
             /\ q \in Ports /\ slabCons[q] \in SlabIds /\ slabProd[q] \in SlabIds
             /\ nCons[q] \in Nat /\ nProd[q] \in Nat
             /\ \A e \in 0..(nCons[q] - 1) : e \in Entries
             /\ \A e \in 0..(nProd[q] - 1) : e \in Entries
    BY SlabTypes
  <2>2. ASSUME NEW i \in 0..(nSlabsAvailable' - 1), NEW e \in Entries
        PROVE  IsAt(L, P, Y, buffers[slabs[i]][e], "slab", slabs[i], e)
    <3>1. IsAt(K, O, X, buffers[slabs[i]][e], "slab", slabs[i], e) /\ slabs[i] # c
      BY <1>2, <1>4, <1>5 DEF SlabsPlaced
    <3>2. buffers[slabs[i]][e] \in Addresses
      BY <1>2, <1>4, <2>1, PlaceTypes
    <3> QED BY <1>10, <3>1, <3>2
  <2>3. ASSUME NEW q \in 0..(nInit - 1), NEW e \in 0..(nCons[q] - 1)
        PROVE  IsAt(L, P, Y, buffers[slabCons[q]][e], "slab", slabCons[q], e)
    <3>1. IsAt(K, O, X, buffers[slabCons[q]][e], "slab", slabCons[q], e) /\ slabCons[q] # c
      BY <1>2, <1>5 DEF SlabsPlaced
    <3>2. buffers[slabCons[q]][e] \in Addresses
      BY <1>2, <2>1, PlaceTypes
    <3> QED BY <1>10, <3>1, <3>2
  <2>4. ASSUME NEW q \in 0..(nInit - 1), NEW e \in 0..(nProd[q] - 1)
        PROVE  IsAt(L, P, Y, buffers[slabProd[q]][e], "slab", slabProd[q], e)
    <3>1. IsAt(K, O, X, buffers[slabProd[q]][e], "slab", slabProd[q], e) /\ slabProd[q] # c
      BY <1>2, <1>5 DEF SlabsPlaced
    <3>2. buffers[slabProd[q]][e] \in Addresses
      BY <1>2, <2>1, PlaceTypes
    <3> QED BY <1>10, <3>1, <3>2
  <2>5. ASSUME NEW e \in 0..(kept - 1)
        PROVE  IsAt(L, P, Y, buffers[c][e], "slab", c, e)
    <3>1. e \in Entries /\ ~ (e >= kept)
      BY <1>2 DEF Entries, kept
    <3> QED BY <1>8, <1>10, <3>1
  <2>6. ASSUME NEW q \in 0..(nInit' - 1), NEW e \in 0..(nCons'[q] - 1)
        PROVE  IsAt(L, P, Y, buffers[slabCons'[q]][e], "slab", slabCons'[q], e)
    <3>1. CASE q = p
      <4>1. slabCons'[q] = c /\ nCons'[q] = kept
        BY <1>6, <3>1
      <4> QED BY <2>5, <4>1
    <3>2. CASE q # p
      <4>1. q \in 0..(nInit - 1) /\ slabCons'[q] = slabCons[q] /\ nCons'[q] = nCons[q]
        BY <1>4, <1>6, <3>2
      <4> QED BY <2>3, <4>1
    <3> QED BY <3>1, <3>2
  <2>7. ASSUME NEW q \in 0..(nInit' - 1), NEW e \in 0..(nProd'[q] - 1)
        PROVE  IsAt(L, P, Y, buffers[slabProd'[q]][e], "slab", slabProd'[q], e)
    <3>1. q # p
      BY <1>6
    <3>2. q \in 0..(nInit - 1) /\ slabProd'[q] = slabProd[q] /\ nProd'[q] = nProd[q]
      BY <1>4, <1>6, <3>1
    <3> QED BY <2>4, <3>2
  <2> QED BY <1>3, <2>2, <2>6, <2>7 DEF SlabsPlaced
<1>12. FillPlaced(L, P, Y)'
  <2>1. ASSUME NEW q \in Ports \ {p}, NEW i \in 1..Len(fq'[q])
        PROVE  IsAt(L, P, Y, fq'[q][i], "fq", q, i)
    <3>1. IsAt(K, O, X, fq[q][i], "fq", q, i) /\ fq[q][i] \in Addresses /\ fq'[q] = fq[q]
      BY <1>2, <1>7, <2>1, PlaceTypes DEF FillPlaced
    <3> QED BY <1>9, <3>1 DEF IsAt
  <2>2. ASSUME NEW i \in 1..Len(fq'[p])
        PROVE  IsAt(L, P, Y, fq'[p][i], "fq", p, i)
    <3>1. i \in 1..FillSize /\ i \in Nat \ {0}
      BY <1>2
    <3>2. SlabSize - i \in Entries /\ SlabSize - i >= kept /\ SlabSize - (SlabSize - i) = i
      BY <1>2, <3>1 DEF Entries, kept
    <3>3. PICK a \in Addresses :
            a = buffers[c][SlabSize - i] /\ K[a] = "slab" /\ O[a] = c /\ X[a] = SlabSize - i
      BY <1>8, <3>2 DEF IsAt
    <3>4. L[a] = "fq" /\ P[a] = p /\ Y[a] = i
      BY <1>9, <3>2, <3>3
    <3>5. fq'[p][i] = a
      BY <1>7, <3>1, <3>3
    <3> QED BY <3>4, <3>5 DEF IsAt
  <2> QED BY <2>1, <2>2 DEF FillPlaced
<1>13. RxPlaced(L, P, Y)' /\ BurstPlaced(L, P, Y)' /\ FlightPlaced(L)'
  <2>1. /\ \A a \in Addresses : K[a] = "rx" => L[a] = K[a] /\ P[a] = O[a] /\ Y[a] = X[a]
        /\ \A a \in Addresses : K[a] = "burst" => L[a] = K[a] /\ P[a] = O[a] /\ Y[a] = X[a]
        /\ \A a \in Addresses : K[a] = "flight" => L[a] = K[a]
    BY <1>9
  <2> QED BY <1>2, <1>3, <2>1, RxKept, BurstKept, FlightKept
<1> QED BY <1>11, <1>12, <1>13 DEF Placed

-----------------------------------------------------------------------------
\* A step after which the buffer of the oldest packet of the burst is at the given kind
\* of place, and everything else is where it was (in the burst: one further to the front)
Leaves(p, K, O, X, kind, owner, index) ==
  \E L, P, Y :
    /\ L[Head(burst[p])] = kind /\ P[Head(burst[p])] = owner /\ Y[Head(burst[p])] = index
    /\ \A a \in Addresses :
         a # Head(burst[p]) => L[a] = K[a] /\ P[a] = O[a] /\ (K[a] # "burst" => Y[a] = X[a])
    /\ BurstPlaced(L, P, Y)'

\* The buffer of the oldest packet of the burst leaves it for any other kind of place.
LEMMA ProcessedPlaced ==
  ASSUME TypeOK, NEW K, NEW O, NEW X, BurstPlaced(K, O, X), NEW p \in Ports, Processed(p),
         NEW kind, NEW owner, NEW index
  PROVE  /\ K[Head(burst[p])] = "burst" /\ Head(burst[p]) \in Addresses
         /\ Leaves(p, K, O, X, kind, owner, index)
<1> DEFINE h == Head(burst[p])
<1>1. /\ burst[p] # << >> /\ h \in Addresses /\ burst[p] \in Seq(Addresses)
      /\ Len(burst[p]) \in Nat \ {0} /\ burst' = [burst EXCEPT ![p] = Tail(burst[p])]
      /\ burst \in [Ports -> Seq(Addresses)] /\ h = burst[p][1]
  BY SMTT(60), ProcessedBurst, HeadTailProperties DEF TypeOK
<1>2. IsAt(K, O, X, h, "burst", p, 1)
  BY <1>1 DEF BurstPlaced
<1> HIDE DEF h
<1>3. /\ Len(burst'[p]) = Len(burst[p]) - 1
      /\ \A i \in 1..Len(burst'[p]) : burst'[p][i] = burst[p][i + 1]
      /\ \A q \in Ports \ {p} : burst'[q] = burst[q]
  BY <1>1, HeadTailProperties
<1>4. PICK L, P, Y :
        /\ L[h] = kind /\ P[h] = owner /\ Y[h] = index
        /\ \A a \in Addresses \ {h} :
             /\ L[a] = K[a] /\ P[a] = O[a]
             /\ Y[a] = IF K[a] = "burst" /\ O[a] = p THEN X[a] - 1 ELSE X[a]
  <2> DEFINE kinds == [a \in Addresses |-> IF a = h THEN kind ELSE K[a]]
             owners == [a \in Addresses |-> IF a = h THEN owner ELSE O[a]]
             indices == [a \in Addresses |->
                           IF a = h THEN index
                           ELSE IF K[a] = "burst" /\ O[a] = p THEN X[a] - 1 ELSE X[a]]
  <2>1. /\ kinds[h] = kind /\ owners[h] = owner /\ indices[h] = index
        /\ \A a \in Addresses \ {h} :
             /\ kinds[a] = K[a] /\ owners[a] = O[a]
             /\ indices[a] = IF K[a] = "burst" /\ O[a] = p THEN X[a] - 1 ELSE X[a]
    BY <1>1
  <2> HIDE DEF kinds, owners, indices
  <2> QED BY <2>1
<1>5. BurstPlaced(L, P, Y)'
  <2>1. ASSUME NEW q \in Ports \ {p}, NEW i \in 1..Len(burst'[q])
        PROVE  IsAt(L, P, Y, burst'[q][i], "burst", q, i)
    <3>1. /\ IsAt(K, O, X, burst[q][i], "burst", q, i) /\ burst[q][i] \in Addresses
          /\ burst'[q] = burst[q]
      BY <1>3, <2>1, PlaceTypes DEF BurstPlaced
    <3> QED BY <1>2, <1>4, <3>1 DEF IsAt
  <2>2. ASSUME NEW i \in 1..Len(burst'[p])
        PROVE  IsAt(L, P, Y, burst'[p][i], "burst", p, i)
    <3>1. i \in Nat \ {0} /\ i + 1 \in 1..Len(burst[p]) /\ burst'[p][i] = burst[p][i + 1]
      BY <1>1, <1>3
    <3>2. PICK a \in Addresses : a = burst[p][i + 1] /\ K[a] = "burst" /\ O[a] = p /\ X[a] = i + 1
      BY <3>1, PlaceTypes DEF BurstPlaced, IsAt
    <3>3. a # h
      BY <1>2, <3>1, <3>2 DEF IsAt
    <3>4. L[a] = "burst" /\ P[a] = p /\ Y[a] = X[a] - 1
      BY <1>4, <3>2, <3>3
    <3>5. Y[a] = i
      BY <3>1, <3>2, <3>4
    <3> QED BY <3>1, <3>2, <3>4, <3>5 DEF IsAt
  <2> QED BY <2>1, <2>2 DEF BurstPlaced
<1>6. \A a \in Addresses :
        a # h => L[a] = K[a] /\ P[a] = O[a] /\ (K[a] # "burst" => Y[a] = X[a])
  BY <1>4
<1>7. K[h] = "burst"
  BY <1>2 DEF IsAt
<1> QED BY <1>1, <1>4, <1>5, <1>6, <1>7 DEF h, Leaves

\* A packet pushed to a queue is in flight; one that is not sent on is gone.
LEMMA RxForwardPlaced ==
  ASSUME IInv, NEW K, NEW O, NEW X, Placed(K, O, X), NEW p \in Ports,
         RxForward(p) \/ RxForget(p)
  PROVE  \E L, P, Y : Placed(L, P, Y)'
<1> DEFINE h == Head(burst[p])
           kind == IF RxForward(p) THEN "flight" ELSE "gone"
<1>1. /\ TypeOK /\ Processed(p)
      /\ SlabsPlaced(K, O, X) /\ FillPlaced(K, O, X) /\ RxPlaced(K, O, X)
      /\ BurstPlaced(K, O, X) /\ FlightPlaced(K)
      /\ UNCHANGED <<control, pool, consumer, producer, rings>>
      /\ inFlight' = inFlight \/ inFlight' = inFlight \cup {h}
      /\ inFlight' # inFlight => kind = "flight"
      /\ kind # "burst"
  BY DEF IInv, Placed, RxForward, RxForget
<1> HIDE DEF kind
<1>2. K[h] = "burst" /\ h \in Addresses
  BY <1>1, ProcessedPlaced
<1>3. PICK L, P, Y :
        /\ L[h] = kind
        /\ \A a \in Addresses :
             a # h => L[a] = K[a] /\ P[a] = O[a] /\ (K[a] # "burst" => Y[a] = X[a])
        /\ BurstPlaced(L, P, Y)'
  <2>1. Leaves(p, K, O, X, kind, 0, 0)
    BY <1>1, ProcessedPlaced
  <2> QED BY <2>1 DEF Leaves
<1> HIDE DEF h
<1>4. \A a \in Addresses : K[a] # "burst" => L[a] = K[a] /\ P[a] = O[a] /\ Y[a] = X[a]
  BY <1>2, <1>3
<1>5. SlabsPlaced(L, P, Y)'
  <2>1. UNCHANGED <<slabs, nSlabsAvailable, buffers, slabCons, nCons, slabProd, nProd, nInit>>
    BY <1>1 DEF pool, consumer, producer, control
  <2>2. \A a \in Addresses : K[a] = "slab" => L[a] = K[a] /\ P[a] = O[a] /\ Y[a] = X[a]
    BY <1>4
  <2> QED BY <1>1, <2>1, <2>2, SlabsKept
<1>6. FillPlaced(L, P, Y)' /\ RxPlaced(L, P, Y)'
  <2>1. /\ \A a \in Addresses : K[a] = "fq" => L[a] = K[a] /\ P[a] = O[a] /\ Y[a] = X[a]
        /\ \A a \in Addresses : K[a] = "rx" => L[a] = K[a] /\ P[a] = O[a] /\ Y[a] = X[a]
    BY <1>4
  <2>2. UNCHANGED fq /\ UNCHANGED rx
    BY <1>1 DEF rings
  <2> QED BY <1>1, <2>1, <2>2, FillKept, RxKept
<1>7. FlightPlaced(L)'
  <2>1. \A b \in inFlight : L[b] = "flight"
    BY <1>1, <1>4, PlaceTypes DEF FlightPlaced
  <2>2. \A b \in inFlight' : L[b] = "flight"
    BY <1>1, <1>3, <2>1
  <2> QED BY <2>2 DEF FlightPlaced
<1> QED BY <1>3, <1>5, <1>6, <1>7 DEF Placed

\* Where bcache_prod stores
ProdSlab(p) == IF nProd[p] < SlabSize THEN slabProd[p] ELSE slabs[nSlabsAvailable]
ProdIndex(p) == IF nProd[p] < SlabSize THEN nProd[p] ELSE 0

\* The buffer of a dropped packet is back in a slab.
LEMMA RxDropPlaced ==
  ASSUME IInv, NEW K, NEW O, NEW X, Placed(K, O, X), NEW p \in Ports, RxDrop(p)
  PROVE  \E L, P, Y : Placed(L, P, Y)'
<1> DEFINE h == Head(burst[p])
<1>1. /\ TypeOK /\ Processed(p) /\ BcacheProd(p, h)
      /\ SlabsPlaced(K, O, X) /\ FillPlaced(K, O, X) /\ RxPlaced(K, O, X)
      /\ BurstPlaced(K, O, X) /\ FlightPlaced(K)
      /\ UNCHANGED <<control, consumer, rings, inFlight>>
      /\ UNCHANGED <<control, consumer>>
      /\ phase = "running" /\ rxPc[p] = "process" /\ burst[p] # << >>
  BY ProcessedBurst DEF IInv, Placed, RxDrop
<1>2. K[h] = "burst" /\ h \in Addresses
  BY <1>1, ProcessedPlaced
<1>3. PICK L, P, Y :
        /\ L[h] = "slab" /\ P[h] = ProdSlab(p) /\ Y[h] = ProdIndex(p)
        /\ \A a \in Addresses :
             a # h => L[a] = K[a] /\ P[a] = O[a] /\ (K[a] # "burst" => Y[a] = X[a])
        /\ BurstPlaced(L, P, Y)'
  <2>1. Leaves(p, K, O, X, "slab", ProdSlab(p), ProdIndex(p))
    BY <1>1, ProcessedPlaced
  <2> QED BY <2>1 DEF Leaves
<1> HIDE DEF h
<1>4. \A a \in Addresses : K[a] # "burst" => L[a] = K[a] /\ P[a] = O[a] /\ Y[a] = X[a]
  BY <1>2, <1>3
<1>5. SlabsPlaced(L, P, Y)'
  <2>1. \A a \in Addresses : K[a] = "slab" => L[a] = K[a] /\ P[a] = O[a] /\ Y[a] = X[a]
    BY <1>4
  <2>2. /\ P[h] = IF nProd[p] < SlabSize THEN slabProd[p] ELSE slabs[nSlabsAvailable]
        /\ Y[h] = IF nProd[p] < SlabSize THEN nProd[p] ELSE 0
    BY <1>3 DEF ProdSlab, ProdIndex
  <2>3. K[h] # "slab"
    BY <1>2
  <2> QED BY <1>1, <1>2, <1>3, <2>1, <2>2, <2>3, ProdPlaced
<1>6. FillPlaced(L, P, Y)' /\ RxPlaced(L, P, Y)' /\ FlightPlaced(L)'
  <2>1. /\ \A a \in Addresses : K[a] = "fq" => L[a] = K[a] /\ P[a] = O[a] /\ Y[a] = X[a]
        /\ \A a \in Addresses : K[a] = "rx" => L[a] = K[a] /\ P[a] = O[a] /\ Y[a] = X[a]
        /\ \A a \in Addresses : K[a] = "flight" => L[a] = K[a]
    BY <1>4
  <2>2. UNCHANGED fq /\ UNCHANGED rx /\ UNCHANGED inFlight
    BY <1>1 DEF rings
  <2> QED BY <1>1, <2>1, <2>2, FillKept, RxKept, FlightKept
<1> QED BY <1>3, <1>5, <1>6 DEF Placed

\* The buffer of a sent packet is back in a slab.
LEMMA TxCompletePlaced ==
  ASSUME IInv, NEW K, NEW O, NEW X, Placed(K, O, X), NEW p \in Ports,
         NEW b \in inFlight, TxComplete(p, b)
  PROVE  \E L, P, Y : Placed(L, P, Y)'
<1>1. /\ TypeOK /\ BcacheProd(p, b) /\ phase = "running" /\ inFlight # {}
      /\ b \in Addresses /\ K[b] = "flight" /\ inFlight' = inFlight \ {b}
      /\ SlabsPlaced(K, O, X) /\ FillPlaced(K, O, X) /\ RxPlaced(K, O, X)
      /\ BurstPlaced(K, O, X) /\ FlightPlaced(K)
      /\ UNCHANGED <<control, consumer>> /\ UNCHANGED <<rings, burst>>
  BY PlaceTypes DEF IInv, Placed, FlightPlaced, TxComplete
<1>2. PICK L, P, Y :
        /\ L[b] = "slab" /\ P[b] = ProdSlab(p) /\ Y[b] = ProdIndex(p)
        /\ \A a \in Addresses : a # b => L[a] = K[a] /\ P[a] = O[a] /\ Y[a] = X[a]
  <2> DEFINE kinds == [a \in Addresses |-> IF a = b THEN "slab" ELSE K[a]]
             owners == [a \in Addresses |-> IF a = b THEN ProdSlab(p) ELSE O[a]]
             indices == [a \in Addresses |-> IF a = b THEN ProdIndex(p) ELSE X[a]]
  <2>1. /\ kinds[b] = "slab" /\ owners[b] = ProdSlab(p) /\ indices[b] = ProdIndex(p)
        /\ \A a \in Addresses :
             a # b => kinds[a] = K[a] /\ owners[a] = O[a] /\ indices[a] = X[a]
    BY <1>1
  <2> HIDE DEF kinds, owners, indices
  <2> QED BY <2>1
<1>3. \A a \in Addresses : K[a] # "flight" => L[a] = K[a] /\ P[a] = O[a] /\ Y[a] = X[a]
  BY <1>1, <1>2
<1>4. SlabsPlaced(L, P, Y)'
  <2>1. \A a \in Addresses : K[a] = "slab" => L[a] = K[a] /\ P[a] = O[a] /\ Y[a] = X[a]
    BY <1>3
  <2>2. /\ P[b] = IF nProd[p] < SlabSize THEN slabProd[p] ELSE slabs[nSlabsAvailable]
        /\ Y[b] = IF nProd[p] < SlabSize THEN nProd[p] ELSE 0
    BY <1>2 DEF ProdSlab, ProdIndex
  <2>3. K[b] # "slab"
    BY <1>1
  <2> QED BY <1>1, <1>2, <2>1, <2>2, <2>3, ProdPlaced
<1>5. FillPlaced(L, P, Y)' /\ RxPlaced(L, P, Y)' /\ BurstPlaced(L, P, Y)'
  <2>1. /\ \A a \in Addresses : K[a] = "fq" => L[a] = K[a] /\ P[a] = O[a] /\ Y[a] = X[a]
        /\ \A a \in Addresses : K[a] = "rx" => L[a] = K[a] /\ P[a] = O[a] /\ Y[a] = X[a]
        /\ \A a \in Addresses : K[a] = "burst" => L[a] = K[a] /\ P[a] = O[a] /\ Y[a] = X[a]
    BY <1>3
  <2>2. UNCHANGED fq /\ UNCHANGED rx /\ UNCHANGED burst
    BY <1>1 DEF rings
  <2> QED BY <1>1, <2>1, <2>2, FillKept, RxKept, BurstKept
<1>6. FlightPlaced(L)'
  <2>1. \A a \in inFlight' : a \in inFlight /\ a # b /\ a \in Addresses
    BY <1>1, PlaceTypes
  <2>2. \A a \in inFlight' : L[a] = "flight"
    BY <1>1, <1>2, <2>1 DEF FlightPlaced
  <2> QED BY <2>2 DEF FlightPlaced
<1> QED BY <1>4, <1>5, <1>6 DEF Placed

\* Trading slabs leaves every buffer where it is: the slab handed to the pool is empty.
LEMMA RxCheckTradePlaced ==
  ASSUME IInv, NEW K, NEW O, NEW X, Placed(K, O, X), NEW p \in Ports, RxCheckTrade(p)
  PROVE  Placed(K, O, X)'
<1> DEFINE top == nSlabsAvailable - 1
<1>1. /\ TypeOK /\ SlabsPlaced(K, O, X) /\ FillPlaced(K, O, X) /\ RxPlaced(K, O, X)
      /\ BurstPlaced(K, O, X) /\ FlightPlaced(K)
      /\ UNCHANGED <<control, buffers, producer, rings, burst, inFlight>>
      /\ slabCons' = [slabCons EXCEPT ![p] = slabs[top]]
      /\ slabs' = [slabs EXCEPT ![top] = slabCons[p]]
      /\ nSlabsAvailable' = top
      /\ nCons' = [nCons EXCEPT ![p] = SlabSize]
      /\ nSlabsAvailable \in Nat \ {0} /\ SlabSize \in Nat
  BY PoolAssumption DEF IInv, TypeOK, Placed, RxCheckTrade
<1>2. /\ top \in 0..(nSlabsAvailable - 1)
      /\ \A i \in 0..(top - 1) : i \in 0..(nSlabsAvailable - 1) /\ i # top
  BY <1>1
<1>3. UNCHANGED <<nInit, buffers, slabProd, nProd>> /\ UNCHANGED fq /\ UNCHANGED rx
      /\ UNCHANGED burst /\ UNCHANGED inFlight
  BY <1>1 DEF control, producer, rings
<1>4. /\ \A i \in 0..(nSlabsAvailable - 1) : i \in SlabIds
      /\ \A q \in 0..(nInit - 1) : q \in Ports
  BY SlabTypes
<1> HIDE DEF top
<1>5. /\ \A i \in 0..(top - 1) : slabs'[i] = slabs[i]
      /\ \A q \in 0..(nInit - 1) :
           /\ slabCons'[q] = IF q = p THEN slabs[top] ELSE slabCons[q]
           /\ nCons'[q] = IF q = p THEN SlabSize ELSE nCons[q]
  BY <1>1, <1>2, <1>4 DEF TypeOK
<1>6. SlabsPlaced(K, O, X)'
  <2>1. ASSUME NEW i \in 0..(top - 1), NEW e \in Entries
        PROVE  IsAt(K, O, X, buffers[slabs'[i]][e], "slab", slabs'[i], e)
    <3>1. IsAt(K, O, X, buffers[slabs[i]][e], "slab", slabs[i], e)
      BY <1>1, <1>2 DEF SlabsPlaced
    <3> QED BY <1>5, <3>1
  <2>2. ASSUME NEW q \in 0..(nInit - 1), NEW e \in 0..(nCons'[q] - 1)
        PROVE  IsAt(K, O, X, buffers[slabCons'[q]][e], "slab", slabCons'[q], e)
    <3>1. CASE q = p
      <4>1. slabCons'[q] = slabs[top] /\ e \in Entries
        BY <1>5, <3>1 DEF Entries
      <4>2. IsAt(K, O, X, buffers[slabs[top]][e], "slab", slabs[top], e)
        BY <1>1, <1>2, <4>1 DEF SlabsPlaced
      <4> QED BY <4>1, <4>2
    <3>2. CASE q # p
      <4>1. slabCons'[q] = slabCons[q] /\ nCons'[q] = nCons[q]
        BY <1>5, <3>2
      <4>2. IsAt(K, O, X, buffers[slabCons[q]][e], "slab", slabCons[q], e)
        BY <1>1, <4>1 DEF SlabsPlaced
      <4> QED BY <4>1, <4>2
    <3> QED BY <3>1, <3>2
  <2> QED BY <1>1, <1>3, <2>1, <2>2 DEF SlabsPlaced
<1>7. FillPlaced(K, O, X)' /\ RxPlaced(K, O, X)' /\ BurstPlaced(K, O, X)' /\ FlightPlaced(K)'
  BY <1>1, <1>3, FillKept, RxKept, BurstKept, FlightKept
<1> QED BY <1>6, <1>7 DEF Placed

\* Every step keeps the addresses apart.
LEMMA DistinctStep == IInv /\ Distinct /\ [Next]_vars => Distinct'
<1> SUFFICES ASSUME IInv, Distinct, [Next]_vars, phase' \in {"init", "running"}
             PROVE  \E L, P, Y : Placed(L, P, Y)'
  BY DEF Distinct
<1>0. phase \in {"init", "running"}
  <2>1. CASE PortStep(0) \/ \E p \in Ports : PortStep(p)
    <3>1. ASSUME NEW p, PortStep(p) PROVE phase' = phase
      BY <3>1
      DEF PortStep, KernelReceive, RxCheckLocal, RxCheckTrade, RxPeek, RxRefill,
          RxForward, RxDrop, RxForget, TxComplete, control
    <3>2. phase' = phase
      BY <2>1, <3>1
    <3> QED BY <3>2
  <2> QED BY <2>1, NextSteps
          DEF PortInit, PortInitFails, StartThreads, JoinThreads, PortFree, vars, control
<1>1. PICK K, O, X : Placed(K, O, X)
  BY <1>0 DEF Distinct
<1>2. ASSUME UNCHANGED <<slabs, nSlabsAvailable, buffers, slabCons, nCons, slabProd, nProd, nInit>>,
             UNCHANGED <<fq, rx, burst, inFlight>>
      PROVE  \E L, P, Y : Placed(L, P, Y)'
  <2>1. TypeOK /\ UNCHANGED fq /\ UNCHANGED rx /\ UNCHANGED burst /\ UNCHANGED inFlight
    BY <1>2 DEF IInv
  <2>2. SlabsPlaced(K, O, X)'
    BY <1>1, <1>2, SlabsKept DEF Placed
  <2>3. FillPlaced(K, O, X)' /\ RxPlaced(K, O, X)' /\ BurstPlaced(K, O, X)' /\ FlightPlaced(K)'
    BY <1>1, <2>1, FillKept, RxKept, BurstKept, FlightKept DEF Placed
  <2>4. Placed(K, O, X)'
    BY <2>2, <2>3 DEF Placed
  <2> QED BY <2>4
<1>3. CASE PortInit
  BY <1>1, <1>3, PortInitPlaced
<1>4. CASE PortInitFails \/ JoinThreads \/ PortFree
  BY <1>4 DEF PortInitFails, JoinThreads, PortFree
<1>5. CASE StartThreads \/ UNCHANGED vars
  <2>1. /\ UNCHANGED <<slabs, nSlabsAvailable, buffers, slabCons, nCons, slabProd, nProd, nInit>>
        /\ UNCHANGED <<fq, rx, burst, inFlight>>
    BY <1>5 DEF StartThreads, vars, control, pool, consumer, producer, rings
  <2> QED BY <1>2, <2>1
<1>6. ASSUME NEW p \in Ports, PortStep(p) PROVE \E L, P, Y : Placed(L, P, Y)'
  <2>1. CASE RxCheckLocal(p)
    <3>1. /\ UNCHANGED <<slabs, nSlabsAvailable, buffers, slabCons, nCons, slabProd, nProd, nInit>>
          /\ UNCHANGED <<fq, rx, burst, inFlight>>
      BY <2>1 DEF RxCheckLocal, control, pool, consumer, producer, rings
    <3> QED BY <1>2, <3>1
  <2>2. CASE RxCheckTrade(p)
    <3>1. Placed(K, O, X)'
      BY <1>1, <2>2, RxCheckTradePlaced
    <3> QED BY <3>1
  <2>3. CASE KernelReceive(p)
    BY <1>1, <2>3, KernelReceivePlaced
  <2>4. CASE RxPeek(p)
    BY <1>1, <2>4, RxPeekPlaced
  <2>5. CASE RxRefill(p)
    BY <1>1, <2>5, RxRefillPlaced
  <2>6. CASE RxForward(p) \/ RxForget(p)
    BY <1>1, <2>6, RxForwardPlaced
  <2>7. CASE RxDrop(p)
    BY <1>1, <2>7, RxDropPlaced
  <2>8. ASSUME NEW b \in inFlight, TxComplete(p, b) PROVE \E L, P, Y : Placed(L, P, Y)'
    BY <1>1, <2>8, TxCompletePlaced
  <2> QED BY <1>6, <2>1, <2>2, <2>3, <2>4, <2>5, <2>6, <2>7, <2>8 DEF PortStep
<1> QED BY <1>3, <1>4, <1>5, <1>6, NextSteps

-----------------------------------------------------------------------------
\* A sequence without repetition has as many elements as it is long.
LEMMA ElementsOfDistinct ==
  ASSUME NEW S, NEW s \in Seq(S), \A i, j \in 1..Len(s) : s[i] = s[j] => i = j
  PROVE  IsFiniteSet(Elements(s)) /\ Cardinality(Elements(s)) = Len(s)
<1>1. Len(s) \in Nat
  BY LenProperties
<1> DEFINE D == 1..Len(s)
           F == [i \in D |-> s[i]]
<1>2. F \in Bijection(D, Elements(s))
  <2>1. F \in [D -> Elements(s)]
    BY DEF Elements
  <2>2. \A i, j \in D : F[i] = F[j] => i = j
    OBVIOUS
  <2>3. \A t \in Elements(s) : \E i \in D : F[i] = t
    BY DEF Elements
  <2> HIDE DEF D, F
  <2> QED BY <2>1, <2>2, <2>3, Fun_IsBij
<1>3. ExistsBijection(D, Elements(s))
  BY <1>2 DEF ExistsBijection
<1>4. ExistsBijection(1..Len(s), Elements(s))
  BY <1>3
<1> HIDE DEF D, F
<1>5. Cardinality(Elements(s)) = Len(s)
  BY <1>1, <1>4, FS_CountingElements
<1> QED BY <1>1, <1>4, <1>5, FS_NatBijection

\* Three finite sets that have nothing in common
LEMMA DisjointUnion ==
  ASSUME NEW A, NEW B, NEW C, IsFiniteSet(A), IsFiniteSet(B), IsFiniteSet(C),
         A \cap B = {}, A \cap C = {}, B \cap C = {}
  PROVE  Cardinality(A \cup B \cup C) = Cardinality(A) + Cardinality(B) + Cardinality(C)
<1>1. /\ Cardinality({}) = 0
      /\ Cardinality(A) \in Nat /\ Cardinality(B) \in Nat /\ Cardinality(C) \in Nat
  BY FS_EmptySet, FS_CardinalityType
<1>2. /\ IsFiniteSet(A \cup B)
      /\ Cardinality(A \cup B) = Cardinality(A) + Cardinality(B) - Cardinality(A \cap B)
  BY FS_Union
<1>3. Cardinality((A \cup B) \cup C)
        = Cardinality(A \cup B) + Cardinality(C) - Cardinality((A \cup B) \cap C)
  BY <1>2, FS_Union
<1>4. (A \cup B) \cap C = {}
  OBVIOUS
<1>5. Cardinality(A \cap B) = 0 /\ Cardinality((A \cup B) \cap C) = 0
  BY <1>1, <1>4, Zenon
<1> QED BY <1>1, <1>2, <1>3, <1>5

\* Every place has one kind, one owner and one index.
LEMMA DistinctSuffices == IInv /\ Distinct => NoBufferTwice
<1> SUFFICES ASSUME IInv, Distinct, phase \in {"init", "running"}
             PROVE  /\ \A x, y \in SlabPlaces : SlabAddress(x) = SlabAddress(y) => x = y
                    /\ \A x \in SlabPlaces : SlabAddress(x) \notin inFlight
                    /\ \A p \in Ports :
                         /\ PortAddresses(p) \cap inFlight = {}
                         /\ Cardinality(PortAddresses(p)) = Len(fq[p]) + Len(rx[p]) + Len(burst[p])
                         /\ \A x \in SlabPlaces : SlabAddress(x) \notin PortAddresses(p)
                         /\ \A q \in Ports \ {p} : PortAddresses(p) \cap PortAddresses(q) = {}
  BY DEF NoBufferTwice
<1>1. PICK K, O, X : Placed(K, O, X)
  BY DEF Distinct
<1>2. ASSUME NEW x \in SlabPlaces
      PROVE  K[SlabAddress(x)] = "slab" /\ x = <<O[SlabAddress(x)], X[SlabAddress(x)]>>
  <2>1. \/ \E i \in 0..(nSlabsAvailable - 1), e \in Entries : x = <<slabs[i], e>>
        \/ \E p \in 0..(nInit - 1) : \E e \in 0..(nCons[p] - 1) : x = <<slabCons[p], e>>
        \/ \E p \in 0..(nInit - 1) : \E e \in 0..(nProd[p] - 1) : x = <<slabProd[p], e>>
    BY DEF SlabPlaces
  <2>2. ASSUME NEW i \in 0..(nSlabsAvailable - 1), NEW e \in Entries, x = <<slabs[i], e>>
        PROVE  K[SlabAddress(x)] = "slab" /\ x = <<O[SlabAddress(x)], X[SlabAddress(x)]>>
    <3>1. IsAt(K, O, X, buffers[slabs[i]][e], "slab", slabs[i], e)
      BY <1>1 DEF Placed, SlabsPlaced
    <3> QED BY <2>2, <3>1 DEF IsAt, SlabAddress
  <2>3. ASSUME NEW p \in 0..(nInit - 1), NEW e \in 0..(nCons[p] - 1), x = <<slabCons[p], e>>
        PROVE  K[SlabAddress(x)] = "slab" /\ x = <<O[SlabAddress(x)], X[SlabAddress(x)]>>
    <3>1. IsAt(K, O, X, buffers[slabCons[p]][e], "slab", slabCons[p], e)
      BY <1>1 DEF Placed, SlabsPlaced
    <3> QED BY <2>3, <3>1 DEF IsAt, SlabAddress
  <2>4. ASSUME NEW p \in 0..(nInit - 1), NEW e \in 0..(nProd[p] - 1), x = <<slabProd[p], e>>
        PROVE  K[SlabAddress(x)] = "slab" /\ x = <<O[SlabAddress(x)], X[SlabAddress(x)]>>
    <3>1. IsAt(K, O, X, buffers[slabProd[p]][e], "slab", slabProd[p], e)
      BY <1>1 DEF Placed, SlabsPlaced
    <3> QED BY <2>4, <3>1 DEF IsAt, SlabAddress
  <2> QED BY <2>1, <2>2, <2>3, <2>4
<1>3. \A b \in inFlight : K[b] = "flight"
  BY <1>1 DEF Placed, FlightPlaced
<1>4. ASSUME NEW p \in Ports
      PROVE  /\ \A i \in 1..Len(fq[p]) : IsAt(K, O, X, fq[p][i], "fq", p, i)
             /\ \A i \in 1..Len(rx[p]) : IsAt(K, O, X, rx[p][i], "rx", p, i)
             /\ \A i \in 1..Len(burst[p]) : IsAt(K, O, X, burst[p][i], "burst", p, i)
  BY <1>1 DEF Placed, FillPlaced, RxPlaced, BurstPlaced
<1>5. ASSUME NEW p \in Ports
      PROVE  /\ \A a \in Elements(fq[p]) : K[a] = "fq" /\ O[a] = p
             /\ \A a \in Elements(rx[p]) : K[a] = "rx" /\ O[a] = p
             /\ \A a \in Elements(burst[p]) : K[a] = "burst" /\ O[a] = p
  BY <1>4 DEF Elements, IsAt
<1>6. ASSUME NEW p \in Ports, NEW a \in PortAddresses(p)
      PROVE  K[a] \in {"fq", "rx", "burst"} /\ O[a] = p
  BY <1>5 DEF PortAddresses
<1>7. \A x, y \in SlabPlaces : SlabAddress(x) = SlabAddress(y) => x = y
  BY <1>2
<1>8. \A x \in SlabPlaces : SlabAddress(x) \notin inFlight
  BY <1>2, <1>3
<1>9. ASSUME NEW p \in Ports
      PROVE  /\ PortAddresses(p) \cap inFlight = {}
             /\ \A x \in SlabPlaces : SlabAddress(x) \notin PortAddresses(p)
             /\ \A q \in Ports \ {p} : PortAddresses(p) \cap PortAddresses(q) = {}
  <2>1. PortAddresses(p) \cap inFlight = {}
    BY <1>3, <1>6
  <2>2. \A x \in SlabPlaces : SlabAddress(x) \notin PortAddresses(p)
    BY <1>2, <1>6
  <2>3. \A q \in Ports \ {p} : PortAddresses(p) \cap PortAddresses(q) = {}
    BY <1>6
  <2> QED BY <2>1, <2>2, <2>3
<1>10. ASSUME NEW p \in Ports
       PROVE  Cardinality(PortAddresses(p)) = Len(fq[p]) + Len(rx[p]) + Len(burst[p])
  <2>1. fq[p] \in Seq(Addresses) /\ rx[p] \in Seq(Addresses) /\ burst[p] \in Seq(Addresses)
    BY DEF IInv, TypeOK
  <2>2. /\ \A i, j \in 1..Len(fq[p]) : fq[p][i] = fq[p][j] => i = j
        /\ \A i, j \in 1..Len(rx[p]) : rx[p][i] = rx[p][j] => i = j
        /\ \A i, j \in 1..Len(burst[p]) : burst[p][i] = burst[p][j] => i = j
    BY SMTT(60), <1>4 DEF IsAt
  <2>3. IsFiniteSet(Elements(fq[p])) /\ Cardinality(Elements(fq[p])) = Len(fq[p])
    BY <2>1, <2>2, ElementsOfDistinct
  <2>4. IsFiniteSet(Elements(rx[p])) /\ Cardinality(Elements(rx[p])) = Len(rx[p])
    BY <2>1, <2>2, ElementsOfDistinct
  <2>5. IsFiniteSet(Elements(burst[p])) /\ Cardinality(Elements(burst[p])) = Len(burst[p])
    BY <2>1, <2>2, ElementsOfDistinct
  <2>6. /\ Elements(fq[p]) \cap Elements(rx[p]) = {}
        /\ Elements(fq[p]) \cap Elements(burst[p]) = {}
        /\ Elements(rx[p]) \cap Elements(burst[p]) = {}
    BY <1>5
  <2> DEFINE A == Elements(fq[p])
             B == Elements(rx[p])
             C == Elements(burst[p])
  <2>7. /\ IsFiniteSet(A) /\ IsFiniteSet(B) /\ IsFiniteSet(C)
        /\ A \cap B = {} /\ A \cap C = {} /\ B \cap C = {}
    BY <2>3, <2>4, <2>5, <2>6
  <2> HIDE DEF A, B, C
  <2>8. Cardinality(A \cup B \cup C) = Cardinality(A) + Cardinality(B) + Cardinality(C)
    BY <2>7, DisjointUnion
  <2> QED BY <2>3, <2>4, <2>5, <2>8 DEF PortAddresses, A, B, C
<1> QED BY <1>7, <1>8, <1>9, <1>10

(* No buffer is ever in two places at once (a slab of the pool or of a cache, *)
(* a ring, a burst, a queue), whatever the order of the calls of mempool.h:   *)
(* each of them, done whole, hands every address on once.  This is about the  *)
(* bookkeeping of the calls.  The code has it only while the two threads of a *)
(* port are not inside bcache_prod of their cache at the same time.           *)
THEOREM NoBufferDuplicated == Spec => []NoBufferTwice
<1>1. Init => Distinct
  BY InitDistinct
<1>2. IInv /\ Distinct /\ [Next]_vars => Distinct'
  BY DistinctStep
<1>3. IInv /\ Distinct => NoBufferTwice
  BY DistinctSuffices
<1> QED BY <1>1, <1>2, <1>3, Invariance, PTL DEF Spec

-----------------------------------------------------------------------------
(* bpool_init succeeds for two slabs a port, and then bcache_init of every   *)
(* port finds the two it takes (mempool.h:136-141).                          *)
THEOREM PortsFindSlabs == NSlabs >= 2 * NPorts => (Spec => []EveryPortFindsSlabs)
<1> SUFFICES ASSUME NSlabs >= 2 * NPorts PROVE Spec => []EveryPortFindsSlabs
  OBVIOUS
<1>1. IInv => EveryPortFindsSlabs
  BY PoolAssumption DEF IInv, TypeOK, Control, PoolSlots, EveryPortFindsSlabs
<1> QED BY Invariance, <1>1, PTL

-----------------------------------------------------------------------------
(***************************************************************************)
(* The functions of mempool.h do what SlabCache says of whole slabs.  The  *)
(* first n entries of a slab are a sequence; a step changes one of them at *)
(* its end, or leaves it as it is.                                         *)
(***************************************************************************)
Contained == [SlabIds -> [Entries -> Addresses]]

\* A slice of a slab is a sequence of buffers.
LEMMA ContentsType ==
  ASSUME NEW B \in Contained, NEW s \in SlabIds, NEW n \in 0..SlabSize
  PROVE  /\ Slice(B, s, n) \in [1..n -> Addresses] /\ Len(Slice(B, s, n)) = n
         /\ Slice(B, s, n) = << >> <=> n = 0
<1>1. n \in Nat /\ \A e \in 0..(n - 1) : B[s][e] \in Addresses
  BY PoolAssumption DEF Contained, Entries
<1>2. \A i \in 1..n : i - 1 \in 0..(n - 1)
  BY <1>1
<1>3. Slice(B, s, n) \in [1..n -> Addresses]
  BY <1>1, <1>2 DEF Slice
<1>4. Len(Slice(B, s, n)) = n
  BY <1>1, <1>3, Length
<1>5. Slice(B, s, n) \in Seq(Addresses)
  BY <1>1, <1>3, SeqDef
<1> QED BY <1>3, <1>4, <1>5, EmptySeq

\* What SlabCache takes from the end of a slice
LEMMA ContentsCut ==
  ASSUME NEW B \in Contained, NEW s \in SlabIds, NEW m \in 0..SlabSize, NEW n \in 0..m
  PROVE  /\ Calls!Without(Slice(B, s, m), n) = Slice(B, s, m - n)
         /\ Calls!Ending(Slice(B, s, m), n) = {B[s][m - i] : i \in 1..n}
<1> DEFINE f == Slice(B, s, m)
<1>1. m \in Nat /\ n \in 0..m
  BY PoolAssumption
<1>2. Len(f) = m
  BY <1>1, SliceCut
<1>3. SubSeq(f, 1, m - n) = Slice(B, s, m - n)
  BY <1>1, SliceCut
<1>4. \A i \in 1..m : f[i] = B[s][i - 1]
  BY DEF Slice
<1> HIDE DEF f
<1>5. ASSUME NEW j \in (m - n + 1)..m PROVE f[j] \in {B[s][m - i] : i \in 1..n}
  <2>1. m - j + 1 \in 1..n /\ j \in 1..m /\ m - (m - j + 1) = j - 1
    BY <1>1
  <2> QED BY <1>4, <2>1
<1>6. ASSUME NEW i \in 1..n PROVE B[s][m - i] \in {f[j] : j \in (m - n + 1)..m}
  <2>1. m - i + 1 \in (m - n + 1)..m /\ m - i + 1 \in 1..m /\ (m - i + 1) - 1 = m - i
    BY <1>1
  <2>2. f[m - i + 1] = B[s][m - i]
    BY <1>4, <2>1
  <2> QED BY <2>1, <2>2
<1>7. {f[j] : j \in (m - n + 1)..m} = {B[s][m - i] : i \in 1..n}
  BY <1>5, <1>6
<1>8. Calls!Without(f, n) = Slice(B, s, m - n) /\ Calls!Ending(f, n) = {B[s][m - i] : i \in 1..n}
  BY <1>2, <1>3, <1>7 DEF Calls!Without, Calls!Ending
<1> QED BY <1>8 DEF f

\* What the state of SlabCache is, before and after a step
LEMMA Mapped ==
  /\ FullSlabs = [i \in 1..(nSlabsAvailable - 2 * nFreed) |-> Slice(buffers, slabs[i - 1], SlabSize)]
  /\ Stock = [p \in Ports |-> Slice(buffers, slabCons[p], nCons[p])]
  /\ Collected = [p \in Ports |-> Slice(buffers, slabProd[p], nProd[p])]
BY DEF FullSlabs, Stock, Collected, Contents, Slice

LEMMA MappedNext ==
  /\ FullSlabs' = [i \in 1..(nSlabsAvailable' - 2 * nFreed') |->
                     Slice(buffers', slabs'[i - 1], SlabSize)]
  /\ Stock' = [p \in Ports |-> Slice(buffers', slabCons'[p], nCons'[p])]
  /\ Collected' = [p \in Ports |-> Slice(buffers', slabProd'[p], nProd'[p])]
BY DEF FullSlabs, Stock, Collected, Contents, Slice

-----------------------------------------------------------------------------
\* What a ring or a burst holds after an operation on it
LEMMA ElementsOfEmpty == Elements(<< >>) = {}
BY DEF Elements

LEMMA ElementsOfHeadTail ==
  ASSUME NEW S, NEW s \in Seq(S), s # << >>
  PROVE  /\ Elements(s) = {Head(s)} \cup Elements(Tail(s))
         /\ \A e \in Elements(Tail(s)) : \E i \in 2..Len(s) : e = s[i]
<1>1. /\ Tail(s) \in Seq(S) /\ Head(s) = s[1] /\ Len(s) \in Nat \ {0}
      /\ Len(Tail(s)) = Len(s) - 1 /\ \A i \in 1..Len(Tail(s)) : Tail(s)[i] = s[i + 1]
  BY HeadTailProperties, EmptySeq, LenProperties
<1>2. \A i \in 1..Len(Tail(s)) : i + 1 \in 2..Len(s)
  BY <1>1
<1>3. \A e \in Elements(Tail(s)) : \E i \in 2..Len(s) : e = s[i]
  BY <1>1, <1>2 DEF Elements
<1>4. ASSUME NEW i \in 1..Len(s) PROVE s[i] \in {Head(s)} \cup Elements(Tail(s))
  <2>1. CASE i = 1
    BY <1>1, <2>1
  <2>2. CASE i # 1
    <3>1. i - 1 \in 1..Len(Tail(s)) /\ (i - 1) + 1 = i
      BY <1>1, <2>2
    <3>2. Tail(s)[i - 1] = s[i]
      BY <1>1, <3>1
    <3> QED BY <3>1, <3>2 DEF Elements
  <2> QED BY <2>1, <2>2
<1>5. Head(s) \in Elements(s)
  <2>1. 1 \in 1..Len(s)
    BY <1>1
  <2> QED BY <1>1, <2>1 DEF Elements
<1>6. Elements(Tail(s)) \subseteq Elements(s)
  <2>1. \A i \in 2..Len(s) : i \in 1..Len(s)
    BY <1>1
  <2> QED BY <1>3, <2>1 DEF Elements
<1>7. Elements(s) \subseteq {Head(s)} \cup Elements(Tail(s))
  BY <1>4 DEF Elements
<1> QED BY <1>3, <1>5, <1>6, <1>7

LEMMA ElementsOfAppend ==
  ASSUME NEW S, NEW s \in Seq(S), NEW e \in S
  PROVE  Elements(Append(s, e)) = Elements(s) \cup {e}
<1> DEFINE t == Append(s, e)
           n == Len(s)
<1>1. /\ n \in Nat /\ Len(t) = n + 1 /\ t[n + 1] = e /\ \A i \in 1..n : t[i] = s[i]
  BY AppendProperties, LenProperties
<1> HIDE DEF t
<1>2. /\ \A i \in 1..(n + 1) : i \in 1..n \/ i = n + 1
      /\ n + 1 \in 1..(n + 1) /\ \A i \in 1..n : i \in 1..(n + 1)
  BY <1>1
<1>3. Elements(s) = {s[i] : i \in 1..n} /\ Elements(t) = {t[i] : i \in 1..(n + 1)}
  BY <1>1 DEF Elements
<1> HIDE DEF n
<1>4. Elements(t) \subseteq Elements(s) \cup {e}
  BY <1>1, <1>2, <1>3
<1>5. Elements(s) \cup {e} \subseteq Elements(t)
  BY <1>1, <1>2, <1>3
<1> QED BY <1>4, <1>5 DEF t

LEMMA ElementsOfConcat ==
  ASSUME NEW S, NEW s \in Seq(S), NEW t \in Seq(S)
  PROVE  Elements(s \o t) = Elements(s) \cup Elements(t)
<1> DEFINE u == s \o t
           m == Len(s)
           n == Len(t)
<1>1. /\ m \in Nat /\ n \in Nat /\ Len(u) = m + n
      /\ \A i \in 1..(m + n) : u[i] = IF i <= m THEN s[i] ELSE t[i - m]
  BY ConcatProperties, LenProperties
<1> HIDE DEF u
<1>2. Elements(s) = {s[i] : i \in 1..m} /\ Elements(t) = {t[i] : i \in 1..n}
      /\ Elements(u) = {u[i] : i \in 1..(m + n)}
  BY <1>1 DEF Elements
<1> HIDE DEF m, n
<1>3. ASSUME NEW i \in 1..(m + n) PROVE u[i] \in Elements(s) \cup Elements(t)
  <2>1. CASE i <= m
    <3>1. i \in 1..m /\ u[i] = s[i]
      BY <1>1, <2>1
    <3> QED BY <1>2, <3>1
  <2>2. CASE ~(i <= m)
    <3>1. i - m \in 1..n /\ u[i] = t[i - m]
      BY <1>1, <2>2
    <3> QED BY <1>2, <3>1
  <2> QED BY <2>1, <2>2
<1>4. ASSUME NEW i \in 1..m PROVE s[i] \in Elements(u)
  <2>1. i \in 1..(m + n) /\ u[i] = s[i]
    BY <1>1
  <2> QED BY <1>2, <2>1
<1>5. ASSUME NEW i \in 1..n PROVE t[i] \in Elements(u)
  <2>1. m + i \in 1..(m + n) /\ ~(m + i <= m) /\ (m + i) - m = i
    BY <1>1
  <2>2. u[m + i] = t[i]
    BY <1>1, <2>1
  <2> QED BY <1>2, <2>1, <2>2
<1> QED BY ZenonT(60), <1>2, <1>3, <1>4, <1>5 DEF u

LEMMA ElementsOfCut ==
  ASSUME NEW S, NEW s \in Seq(S), NEW n \in 0..Len(s)
  PROVE  Elements(s) = Elements(SubSeq(s, 1, n)) \cup Elements(SubSeq(s, n + 1, Len(s)))
<1> DEFINE k == Len(s)
           u == SubSeq(s, 1, n)
           v == SubSeq(s, n + 1, k)
<1>1. k \in Nat /\ n \in Nat /\ n <= k /\ \A i \in 1..k : s[i] \in S
  BY LenProperties, ElementOfSeq
<1>2. Len(u) = n /\ \A i \in 1..n : u[i] = s[i]
  BY <1>1, SubSeqProperties
<1>3. Len(v) = k - n /\ \A i \in 1..(k - n) : v[i] = s[n + i]
  BY <1>1, SubSeqProperties
<1> HIDE DEF u, v
<1>4. /\ Elements(s) = {s[i] : i \in 1..k} /\ Elements(u) = {u[i] : i \in 1..n}
      /\ Elements(v) = {v[i] : i \in 1..(k - n)}
  BY <1>2, <1>3 DEF Elements
<1> HIDE DEF k
<1>5. ASSUME NEW i \in 1..k PROVE s[i] \in Elements(u) \cup Elements(v)
  <2>1. CASE i <= n
    <3>1. i \in 1..n /\ u[i] = s[i]
      BY <1>1, <1>2, <2>1
    <3> QED BY <1>4, <3>1
  <2>2. CASE ~(i <= n)
    <3>1. i - n \in 1..(k - n) /\ n + (i - n) = i
      BY <1>1, <2>2
    <3>2. v[i - n] = s[i]
      BY <1>3, <3>1
    <3> QED BY <1>4, <3>1, <3>2
  <2> QED BY <2>1, <2>2
<1>6. Elements(u) \subseteq Elements(s)
  <2>1. \A i \in 1..n : i \in 1..k
    BY <1>1
  <2> QED BY <1>2, <1>4, <2>1
<1>7. Elements(v) \subseteq Elements(s)
  <2>1. \A i \in 1..(k - n) : n + i \in 1..k
    BY <1>1
  <2> QED BY <1>3, <1>4, <2>1
<1> QED BY <1>4, <1>5, <1>6, <1>7 DEF u, v, k

\* A step on one port leaves what the other ports hold alone.
LEMMA HandedOutStep ==
  ASSUME NEW p \in Ports,
         \A q \in Ports \ {p} : fq'[q] = fq[q] /\ rx'[q] = rx[q] /\ burst'[q] = burst[q]
  PROVE  \E R : /\ HandedOut = inFlight \cup Elements(fq[p]) \cup Elements(rx[p])
                                 \cup Elements(burst[p]) \cup R
                /\ HandedOut' = inFlight' \cup Elements(fq'[p]) \cup Elements(rx'[p])
                                  \cup Elements(burst'[p]) \cup R
                /\ \A x \in R : \E q \in Ports \ {p} : x \in PortAddresses(q)
<1> DEFINE R == UNION {PortAddresses(q) : q \in Ports \ {p}}
<1>1. UNION {PortAddresses(q) : q \in Ports} = PortAddresses(p) \cup R
  OBVIOUS
<1>2. (UNION {PortAddresses(q) : q \in Ports})'
        = (Elements(fq'[p]) \cup Elements(rx'[p]) \cup Elements(burst'[p])) \cup R
  <2>1. \A q \in Ports \ {p} : Elements(fq'[q]) \cup Elements(rx'[q]) \cup Elements(burst'[q])
                                 = PortAddresses(q)
    BY DEF PortAddresses
  <2>2. (UNION {PortAddresses(q) : q \in Ports})'
          = UNION {Elements(fq'[q]) \cup Elements(rx'[q]) \cup Elements(burst'[q]) : q \in Ports}
    BY DEF PortAddresses
  <2> QED BY <2>1, <2>2
<1> HIDE DEF R
<1>3. HandedOut = inFlight \cup Elements(fq[p]) \cup Elements(rx[p]) \cup Elements(burst[p]) \cup R
  BY <1>1 DEF HandedOut, PortAddresses
<1>4. HandedOut' = inFlight' \cup Elements(fq'[p]) \cup Elements(rx'[p]) \cup Elements(burst'[p]) \cup R
  BY <1>2 DEF HandedOut
<1>5. \A x \in R : \E q \in Ports \ {p} : x \in PortAddresses(q)
  BY DEF R
<1> QED BY <1>3, <1>4, <1>5

\* bcache_prod adds the buffer to what the cache collected, or to an empty slab
\* after the full one joined the pool.
LEMMA ProdGives ==
  ASSUME IInv, phase = "running", NEW p \in Ports, NEW b \in Addresses, BcacheProd(p, b),
         UNCHANGED <<control, consumer>>,
         inFlight # {} \/ (rxPc[p] = "process" /\ burst[p] # << >>)
  PROVE  /\ UNCHANGED Stock
         /\ \/ /\ Len(Collected[p]) < SlabSize /\ UNCHANGED FullSlabs
               /\ Collected' = [Collected EXCEPT ![p] = Append(Collected[p], b)]
            \/ /\ Len(Collected[p]) = SlabSize
               /\ FullSlabs' = Append(FullSlabs, Collected[p])
               /\ Collected' = [Collected EXCEPT ![p] = <<b>>]
<1> DEFINE n == nSlabsAvailable
           s == slabProd[p]
           k == nProd[p]
<1>1. /\ buffers \in Contained /\ nProd \in [Ports -> 0..SlabSize] /\ n \in Nat /\ n <= NSlabs
      /\ nCons \in [Ports -> 0..SlabSize] /\ SlabSize \in Nat \ {0} /\ NSlabs \in Nat
      /\ slabProd \in [Ports -> SlabIds] /\ slabCons \in [Ports -> SlabIds]
      /\ slabs \in [SlabIds -> SlabIds] /\ \A q \in Ports : nCons[q] \in Nat /\ nProd[q] \in Nat
  BY PoolAssumption DEF IInv, TypeOK, Contained
<1>2. /\ nInit = NPorts /\ nFreed = 0 /\ nFreed' = 0 /\ nInit' = nInit /\ slabCons' = slabCons
      /\ nCons' = nCons /\ n <= PoolSlots /\ PoolSlots \in 0..NSlabs
      /\ \A q \in Ports : q \in 0..(nInit - 1) /\ q \in Nat
  <2>1. nInit = NPorts /\ nFreed = 0
    BY Running
  <2>2. nFreed' = nFreed /\ nInit' = nInit /\ slabCons' = slabCons /\ nCons' = nCons
    BY DEF control, consumer
  <2>3. PoolSlots \in 0..NSlabs
    BY ProdSlot
  <2>4. n <= PoolSlots
    <3>1. n <= NSlabs - 2 * (nInit - nFreed)
      BY DEF IInv, Control
    <3>2. nInit - nFreed = nInit
      BY <2>1, PoolAssumption
    <3> QED BY <3>1, <3>2 DEF PoolSlots
  <2>5. NPorts \in Nat
    BY PoolAssumption
  <2>6. \A q \in Ports : q \in 0..(nInit - 1) /\ q \in Nat
    BY <2>1, <2>5 DEF Ports
  <2> QED BY <2>1, <2>2, <2>3, <2>4, <2>6
<1>3. /\ FullSlabs = [i \in 1..n |-> Slice(buffers, slabs[i - 1], SlabSize)]
      /\ FullSlabs' = [i \in 1..n' |-> Slice(buffers', slabs'[i - 1], SlabSize)]
  <2>1. n - 2 * nFreed = n /\ n' - 2 * nFreed' = n'
    <3>1. n \in Int /\ n' \in Int
      BY <1>1 DEF BcacheProd
    <3>2. nFreed = 0 /\ nFreed' = 0
      BY <1>2
    <3>3. \A i \in Int : i - 2 * 0 = i
      OBVIOUS
    <3> QED BY <3>1, <3>2, <3>3
  <2> QED BY <2>1, Mapped, MappedNext
<1>4. /\ \A i \in 0..(n - 1) : i \in SlabIds /\ slabs[i] \in SlabIds /\ i \in 0..(PoolSlots - 1)
      /\ \A i \in 1..n : i - 1 \in 0..(n - 1)
  BY SMTT(30), <1>1, <1>2 DEF SlabIds
<1>5. /\ \A i, j \in 0..(PoolSlots - 1) : slabs[i] = slabs[j] => i = j
      /\ \A q, r \in Ports : /\ slabProd[q] = slabProd[r] => q = r
                             /\ slabCons[q] # slabProd[r]
      /\ \A i \in 0..(PoolSlots - 1), q \in Ports : slabs[i] # slabCons[q] /\ slabs[i] # slabProd[q]
  BY <1>2 DEF IInv, SlabPartition
<1>6. \A q \in Ports : Collected[q] = Slice(buffers, slabProd[q], nProd[q])
  BY Mapped
<1>7. Len(Collected[p]) = k /\ Collected[p] \in [1..k -> Addresses]
  <2>1. s \in SlabIds /\ k \in 0..SlabSize /\ buffers \in Contained
    BY <1>1
  <2> HIDE DEF s, k
  <2>2. Len(Slice(buffers, s, k)) = k /\ Slice(buffers, s, k) \in [1..k -> Addresses]
    BY <2>1, ContentsType
  <2> QED BY <1>6, <2>2 DEF s, k
<1>8. CASE k < SlabSize
  <2>1. /\ buffers' = [buffers EXCEPT ![s][k] = b] /\ nProd' = [nProd EXCEPT ![p] = k + 1]
        /\ slabs' = slabs /\ n' = n /\ slabProd' = slabProd
    BY <1>1, <1>8 DEF BcacheProd
  <2>2. /\ \A t \in SlabIds : t # s => buffers'[t] = buffers[t]
        /\ \A e \in Entries : e # k => buffers'[s][e] = buffers[s][e]
        /\ buffers'[s][k] = b /\ k \in Entries /\ k \in 0..(SlabSize - 1)
    BY <1>1, <1>8, <2>1 DEF Contained, Entries
  <2>3. FullSlabs' = FullSlabs
    <3>1. \A i \in 1..n : Slice(buffers', slabs[i - 1], SlabSize) = Slice(buffers, slabs[i - 1], SlabSize)
      BY <1>4, <1>5, <2>2 DEF Slice
    <3> QED BY <1>3, <2>1, <3>1
  <2>4. Stock' = Stock
    <3>1. \A q \in Ports : Slice(buffers', slabCons[q], nCons[q]) = Slice(buffers, slabCons[q], nCons[q])
      BY <1>1, <1>5, <2>2 DEF Slice
    <3> QED BY <1>2, <3>1, Mapped, MappedNext
  <2>5. ASSUME NEW q \in Ports, q # p
        PROVE  Slice(buffers', slabProd[q], nProd'[q]) = Slice(buffers, slabProd[q], nProd[q])
    BY <1>1, <1>5, <2>1, <2>2, <2>5 DEF Slice
  <2>6. Slice(buffers', s, k + 1) = Append(Slice(buffers, s, k), b)
    <3>1. \A e \in 0..(k - 1) : e \in Entries /\ e # k
      BY <1>1, <1>8 DEF Entries
    <3>2. \A e \in 0..(k - 1) : buffers'[s][e] = buffers[s][e]
      BY <2>2, <3>1
    <3>3. Slice(buffers', s, k) = Slice(buffers, s, k)
      <4>1. \A i \in 1..k : i - 1 \in 0..(k - 1)
        BY <1>1
      <4> QED BY <3>2, <4>1 DEF Slice
    <3>4. k \in Nat /\ buffers'[s][k] = b
      BY <1>1, <2>2
    <3> DEFINE C == buffers'
    <3> HIDE DEF C, s, k
    <3>5. Slice(C, s, k + 1) = Append(Slice(C, s, k), C[s][k])
      BY <3>4, SliceGrown
    <3> QED BY <3>3, <3>4, <3>5 DEF C
  <2>7. Collected' = [Collected EXCEPT ![p] = Append(Collected[p], b)]
    <3>1. nProd'[p] = k + 1
      BY <1>1, <2>1
    <3>2. Collected' = [q \in Ports |-> Slice(buffers', slabProd[q], nProd'[q])]
      BY <2>1, MappedNext
    <3>3. Collected = [q \in Ports |-> Slice(buffers, slabProd[q], nProd[q])]
      BY Mapped
    <3>4. Slice(buffers', slabProd[p], nProd'[p]) = Append(Collected[p], b)
      BY <1>6, <2>6, <3>1
    <3> QED BY <2>5, <3>2, <3>3, <3>4
  <2> QED BY <1>7, <1>8, <2>3, <2>4, <2>7
<1>9. CASE k >= SlabSize
  <2> DEFINE empty == slabs[n]
  <2>1. k = SlabSize /\ n < PoolSlots /\ n \in 0..(PoolSlots - 1) /\ n \in SlabIds /\ empty \in SlabIds
        /\ 0 \in Entries
    BY <1>1, <1>2, <1>9, ProdSlot DEF SlabIds, Entries
  <2>2. /\ slabs' = [slabs EXCEPT ![n] = s] /\ n' = n + 1
        /\ buffers' = [buffers EXCEPT ![empty][0] = b]
        /\ slabProd' = [slabProd EXCEPT ![p] = empty] /\ nProd' = [nProd EXCEPT ![p] = 1]
    BY <1>1, <1>9 DEF BcacheProd
  <2>3. /\ \A t \in SlabIds : t # empty => buffers'[t] = buffers[t]
        /\ buffers'[empty][0] = b
    BY <1>1, <2>1, <2>2 DEF Contained
  <2>4. Stock' = Stock
    <3>1. \A q \in Ports : Slice(buffers', slabCons[q], nCons[q]) = Slice(buffers, slabCons[q], nCons[q])
      BY <1>1, <1>5, <2>1, <2>3 DEF Slice
    <3> QED BY <1>2, <3>1, Mapped, MappedNext
  <2>5. Collected' = [Collected EXCEPT ![p] = <<b>>]
    <3>1. ASSUME NEW q \in Ports, q # p
          PROVE  Slice(buffers', slabProd'[q], nProd'[q]) = Slice(buffers, slabProd[q], nProd[q])
      <4>1. slabProd'[q] = slabProd[q] /\ nProd'[q] = nProd[q] /\ slabProd[q] # empty
            /\ slabProd[q] \in SlabIds
        BY <1>1, <1>5, <2>1, <2>2, <3>1
      <4> QED BY <2>3, <4>1 DEF Slice
    <3>2. Slice(buffers', slabProd'[p], nProd'[p]) = <<b>>
      <4>1. slabProd'[p] = empty /\ nProd'[p] = 1
        BY <1>1, <2>2
      <4>2. [i \in 1..1 |-> buffers'[empty][i - 1]] = <<b>>
        BY <2>3
      <4> QED BY <4>1, <4>2 DEF Slice
    <3> QED BY <3>1, <3>2, Mapped, MappedNext
  <2>6. FullSlabs' = Append(FullSlabs, Collected[p])
    <3> DEFINE F == FullSlabs
               S == [1..SlabSize -> Addresses]
               c == Collected[p]
    <3>1. c \in S /\ F \in [1..n -> S] /\ \A i \in 1..n : F[i] = Slice(buffers, slabs[i - 1], SlabSize)
      <4>1. SlabSize \in 0..SlabSize
        BY <1>1
      <4>2. \A i \in 1..n : Slice(buffers, slabs[i - 1], SlabSize) \in S
        BY <1>1, <1>4, <4>1, ContentsType
      <4> QED BY <1>3, <1>7, <2>1, <4>2
    <3>2. Append(F, c) = [i \in 1..(n + 1) |-> IF i = n + 1 THEN c ELSE F[i]]
      <4>1. n \in Nat /\ F \in [1..n -> S] /\ c \in S
        BY <1>1, <3>1
      <4> HIDE DEF F, S, c, n
      <4> QED BY <4>1, Appended
    <3>3. ASSUME NEW i \in 1..(n + 1)
          PROVE  Slice(buffers', slabs'[i - 1], SlabSize) = IF i = n + 1 THEN c ELSE F[i]
      <4>1. CASE i = n + 1
        <5>1. slabs'[i - 1] = s /\ s # empty /\ s \in SlabIds
          BY <1>1, <1>5, <2>1, <2>2, <4>1
        <5>2. Slice(buffers', s, SlabSize) = Slice(buffers, s, SlabSize)
          BY <2>3, <5>1 DEF Slice
        <5> QED BY <1>6, <2>1, <4>1, <5>1, <5>2
      <4>2. CASE i # n + 1
        <5>1. i \in 1..n /\ i - 1 # n /\ i - 1 \in 0..(n - 1)
          BY <1>1, <4>2
        <5>2. slabs'[i - 1] = slabs[i - 1] /\ slabs[i - 1] # empty /\ slabs[i - 1] \in SlabIds
          BY <1>1, <1>4, <1>5, <2>1, <2>2, <5>1
        <5>3. Slice(buffers', slabs[i - 1], SlabSize) = Slice(buffers, slabs[i - 1], SlabSize)
          BY <2>3, <5>2 DEF Slice
        <5> QED BY <3>1, <4>2, <5>1, <5>2, <5>3
      <4> QED BY <4>1, <4>2
    <3> HIDE DEF F, c
    <3>4. FullSlabs' = [i \in 1..(n + 1) |-> Slice(buffers', slabs'[i - 1], SlabSize)]
      BY <1>3, <2>2
    <3>5. FullSlabs' = [i \in 1..(n + 1) |-> IF i = n + 1 THEN c ELSE F[i]]
      BY <3>3, <3>4
    <3> QED BY <3>2, <3>5 DEF F, c
  <2> QED BY <1>7, <2>1, <2>4, <2>5, <2>6
<1> QED BY <1>1, <1>8, <1>9

\* A buffer that the caches handed out is in one place only.
LEMMA HeldOnce ==
  ASSUME TypeOK, NEW K, NEW O, NEW X, Placed(K, O, X)
  PROVE  /\ \A q \in Ports : \A b \in inFlight : b \notin PortAddresses(q)
         /\ \A p \in Ports : burst[p] # << >> =>
              /\ Head(burst[p]) \notin inFlight
              /\ Head(burst[p]) \notin Elements(fq[p]) \cup Elements(rx[p]) \cup Elements(Tail(burst[p]))
              /\ \A q \in Ports \ {p} : Head(burst[p]) \notin PortAddresses(q)
<1>1. /\ \A q \in Ports : \A b \in Elements(fq[q]) : K[b] = "fq"
      /\ \A q \in Ports : \A b \in Elements(rx[q]) : K[b] = "rx"
      /\ \A q \in Ports : \A b \in Elements(burst[q]) : K[b] = "burst" /\ O[b] = q
      /\ \A b \in inFlight : K[b] = "flight"
  BY DEF Placed, FillPlaced, RxPlaced, BurstPlaced, FlightPlaced, IsAt, Elements
<1>2. ASSUME NEW p \in Ports, burst[p] # << >>
      PROVE  /\ K[Head(burst[p])] = "burst" /\ O[Head(burst[p])] = p
             /\ Head(burst[p]) \notin Elements(Tail(burst[p]))
  <2>1. burst[p] \in Seq(Addresses)
    BY DEF TypeOK
  <2>2. Head(burst[p]) = burst[p][1] /\ Len(burst[p]) \in Nat \ {0} /\ 1 \in 1..Len(burst[p])
    BY <1>2, <2>1, HeadTailProperties, EmptySeq, LenProperties
  <2>3. \A i \in 1..Len(burst[p]) : IsAt(K, O, X, burst[p][i], "burst", p, i)
    BY DEF Placed, BurstPlaced
  <2>4. \A i \in 2..Len(burst[p]) : X[burst[p][i]] = i
    BY <2>2, <2>3 DEF IsAt
  <2>5. X[Head(burst[p])] = 1 /\ K[Head(burst[p])] = "burst" /\ O[Head(burst[p])] = p
    BY <2>2, <2>3 DEF IsAt
  <2>6. \A b \in Elements(Tail(burst[p])) : \E i \in 2..Len(burst[p]) : X[b] = i
    BY <1>2, <2>1, <2>4, ElementsOfHeadTail
  <2>7. 1 \notin 2..Len(burst[p])
    BY <2>2
  <2> QED BY <2>5, <2>6, <2>7
<1>3. \A q \in Ports : \A b \in inFlight : b \notin PortAddresses(q)
  BY <1>1 DEF PortAddresses
<1>4. ASSUME NEW p \in Ports, burst[p] # << >>
      PROVE  /\ Head(burst[p]) \notin inFlight
             /\ Head(burst[p]) \notin Elements(fq[p]) \cup Elements(rx[p]) \cup Elements(Tail(burst[p]))
             /\ \A q \in Ports \ {p} : Head(burst[p]) \notin PortAddresses(q)
  BY <1>1, <1>2, <1>4 DEF PortAddresses
<1> QED BY <1>3, <1>4

\* Steps that leave slabs and caches alone leave them alone in SlabCache.
LEMMA CachesKept ==
  ASSUME UNCHANGED <<slabs, buffers, consumer, producer>>,
         nSlabsAvailable' - 2 * nFreed' = nSlabsAvailable - 2 * nFreed
  PROVE  UNCHANGED <<FullSlabs, Stock, Collected>>
BY Mapped, MappedNext DEF consumer, producer

\* Initially every slab is in the pool.
LEMMA CallsInit == Init => Calls!Init
<1> SUFFICES ASSUME Init PROVE Calls!Init
  OBVIOUS
<1>1. NSlabs \in Nat \ {0} /\ SlabSize \in Nat \ {0}
  BY PoolAssumption
<1>2. /\ buffers \in Contained /\ 0 \in SlabIds /\ \A i \in 1..NSlabs : i - 1 \in SlabIds
      /\ \A s \in SlabIds, e \in Entries : buffers[s][e] = <<s, e>>
      /\ \A i \in 1..SlabSize : i - 1 \in Entries
  BY <1>1 DEF Init, Contained, SlabIds, Entries, Addresses
<1>3. FullSlabs = [i \in 1..NSlabs |-> Slice(buffers, i - 1, SlabSize)]
  <2>1. nSlabsAvailable - 2 * nFreed = NSlabs
    BY <1>1 DEF Init
  <2>2. \A i \in 1..NSlabs : slabs[i - 1] = i - 1
    BY <1>2 DEF Init
  <2> QED BY <2>1, <2>2, Mapped
<1>4. FullSlabs \in Seq(Calls!Slabs) /\ Len(FullSlabs) = NSlabs
  <2>1. SlabSize \in 0..SlabSize
    BY <1>1
  <2>2. \A i \in 1..NSlabs : Slice(buffers, i - 1, SlabSize) \in Calls!Slabs
    BY <1>2, <2>1, ContentsType DEF Calls!Slabs
  <2>3. FullSlabs \in [1..NSlabs -> Calls!Slabs]
    BY <1>3, <2>2
  <2> HIDE DEF FullSlabs
  <2> QED BY <1>1, <2>3, SeqDef, Length
<1>5. Slice(buffers, 0, 0) = << >>
  BY <1>1, <1>2, ContentsType
<1>6. Stock = [p \in Ports |-> << >>] /\ Collected = [p \in Ports |-> << >>]
  BY <1>5, Mapped DEF Init
<1>7. HandedOut = {}
  BY ElementsOfEmpty DEF Init, HandedOut, PortAddresses
<1>8. ASSUME NEW i \in 1..NSlabs, NEW k \in 1..SlabSize PROVE FullSlabs[i][k] = <<i - 1, k - 1>>
  BY <1>2, <1>3 DEF Slice
<1>9. \A i, j \in 1..NSlabs, k, l \in 1..SlabSize : FullSlabs[i][k] = FullSlabs[j][l] => i = j /\ k = l
  <2> SUFFICES ASSUME NEW i \in 1..NSlabs, NEW j \in 1..NSlabs, NEW k \in 1..SlabSize,
                      NEW l \in 1..SlabSize, FullSlabs[i][k] = FullSlabs[j][l]
               PROVE  i = j /\ k = l
    OBVIOUS
  <2>1. <<i - 1, k - 1>> = <<j - 1, l - 1>>
    BY <1>8
  <2>2. i - 1 = j - 1 /\ k - 1 = l - 1
    BY <2>1
  <2> QED BY <1>1, <2>2
<1>10. \A p \in Ports : Stock[p] = << >> /\ 1..Len(Stock[p]) = {}
  <2>1. 1..Len(<< >>) = {}
    BY EmptySeq
  <2> QED BY <1>6, <2>1
<1>11. Stock \in [Ports -> {<< >>} \cup Calls!Slabs]
  BY <1>6
<1> HIDE DEF FullSlabs, Stock, Collected, HandedOut
<1> QED BY <1>4, <1>6, <1>7, <1>9, <1>10, <1>11 DEF Calls!Init

\* bcache_init, and bcache_cons for the fill ring
LEMMA PortInitOpens ==
  ASSUME IInv, PortInit
  PROVE  Calls!Open(nInit, FillSize)
<1> DEFINE p == nInit
           n == nSlabsAvailable
           top == slabs[n - 1]
<1>1. /\ p \in Ports /\ n - 1 \in SlabIds /\ n - 2 \in SlabIds /\ top \in SlabIds /\ n - 2 \in Nat
      /\ n \in Nat /\ nFreed = 0 /\ nFreed' = 0 /\ nCons \in [Ports -> 0..SlabSize]
      /\ slabCons \in [Ports -> SlabIds] /\ slabProd \in [Ports -> SlabIds]
      /\ nProd \in [Ports -> 0..SlabSize] /\ fq \in [Ports -> Seq(Addresses)]
      /\ buffers \in Contained /\ SlabSize \in Nat \ {0} /\ FillSize \in 0..SlabSize
      /\ slabs \in [SlabIds -> SlabIds] /\ n <= NSlabs
  <2>1. nInit \in Ports /\ n - 1 \in SlabIds /\ n - 2 \in SlabIds /\ n - 2 \in 0..NSlabs
    BY PortInitFacts
  <2>2. nFreed = 0 /\ nFreed' = 0
    BY DEF IInv, Control, PortInit
  <2> QED BY SMTT(60), <2>1, <2>2, PoolAssumption DEF IInv, TypeOK, Contained
<1>2. /\ slabCons' = [slabCons EXCEPT ![p] = top] /\ nCons' = [nCons EXCEPT ![p] = SlabSize - FillSize]
      /\ slabProd' = [slabProd EXCEPT ![p] = slabs[n - 2]] /\ nProd' = [nProd EXCEPT ![p] = 0]
      /\ n' = n - 2 /\ slabs' = slabs /\ buffers' = buffers
      /\ fq' = [fq EXCEPT ![p] = [i \in 1..FillSize |-> buffers[top][SlabSize - i]]]
      /\ rx' = rx /\ burst' = burst /\ inFlight' = inFlight
  BY DEF PortInit
<1>3. /\ FullSlabs = [i \in 1..n |-> Slice(buffers, slabs[i - 1], SlabSize)]
      /\ FullSlabs' = [i \in 1..(n - 2) |-> Slice(buffers, slabs[i - 1], SlabSize)]
  <2>1. n - 2 * nFreed = n /\ n' - 2 * nFreed' = n - 2
    BY <1>1, <1>2
  <2> QED BY <1>2, <2>1, Mapped, MappedNext
<1>4. Len(FullSlabs) = n /\ FullSlabs \in [1..n -> Calls!Slabs]
  <2>1. \A i \in 1..n : i - 1 \in SlabIds /\ slabs[i - 1] \in SlabIds
    <3>1. NSlabs \in Nat /\ n \in Nat /\ n <= NSlabs
      BY <1>1, PoolAssumption
    <3>2. \A i \in 1..n : i - 1 \in SlabIds
      BY <3>1 DEF SlabIds
    <3> QED BY <1>1, <3>2
  <2>2. SlabSize \in 0..SlabSize
    BY <1>1
  <2>3. \A i \in 1..n : Slice(buffers, slabs[i - 1], SlabSize) \in Calls!Slabs
    BY <1>1, <2>1, <2>2, ContentsType DEF Calls!Slabs
  <2>4. FullSlabs \in [1..n -> Calls!Slabs]
    BY <1>3, <2>3
  <2> HIDE DEF FullSlabs
  <2> QED BY <1>1, <2>4, Length
<1>5. FullSlabs' = Calls!Without(FullSlabs, 2)
  <2> DEFINE F == FullSlabs
             S == Calls!Slabs
  <2>1. n \in Nat /\ F \in [1..n -> S] /\ n - 2 \in 0..n /\ Len(F) = n
    BY <1>1, <1>4
  <2>2. \A i \in 1..(n - 2) : i \in 1..n
    BY <1>1
  <2>3. [i \in 1..(n - 2) |-> F[i]] = FullSlabs'
    BY <1>3, <2>2
  <2> HIDE DEF F, S
  <2>4. SubSeq(F, 1, n - 2) = [i \in 1..(n - 2) |-> F[i]]
    <3> HIDE DEF n
    <3> QED BY <2>1, Shortened
  <2>5. Calls!Without(F, 2) = SubSeq(F, 1, n - 2)
    BY <2>1 DEF Calls!Without
  <2> QED BY <2>3, <2>4, <2>5 DEF F
<1>6. Calls!Last(FullSlabs) = Slice(buffers, top, SlabSize)
  <2>1. n \in 1..n
    BY <1>1
  <2> QED BY <1>3, <1>4, <2>1 DEF Calls!Last
<1>7. /\ Calls!Without(Calls!Last(FullSlabs), FillSize) = Slice(buffers, top, SlabSize - FillSize)
      /\ Calls!Ending(Calls!Last(FullSlabs), FillSize) = {buffers[top][SlabSize - i] : i \in 1..FillSize}
  <2>1. /\ SlabSize \in 0..SlabSize /\ buffers \in Contained /\ top \in SlabIds
        /\ FillSize \in 0..SlabSize
    BY <1>1
  <2> HIDE DEF top
  <2>2. /\ Calls!Without(Slice(buffers, top, SlabSize), FillSize) = Slice(buffers, top, SlabSize - FillSize)
        /\ Calls!Ending(Slice(buffers, top, SlabSize), FillSize)
             = {buffers[top][SlabSize - i] : i \in 1..FillSize}
    BY <2>1, ContentsCut
  <2> QED BY <1>6, <2>2
<1>8. Stock' = [Stock EXCEPT ![p] = Slice(buffers, top, SlabSize - FillSize)]
  BY <1>1, <1>2, Mapped, MappedNext
<1>9. Collected' = [Collected EXCEPT ![p] = << >>]
  <2>1. Slice(buffers, slabs[n - 2], 0) = << >>
    <3>1. slabs[n - 2] \in SlabIds /\ 0 \in 0..SlabSize
      BY <1>1
    <3> QED BY <1>1, <3>1, ContentsType
  <2> QED BY <1>1, <1>2, <2>1, Mapped, MappedNext
<1>10. HandedOut' = HandedOut \cup {buffers[top][SlabSize - i] : i \in 1..FillSize}
  <2>1. \A q \in Ports \ {p} : fq'[q] = fq[q] /\ rx'[q] = rx[q] /\ burst'[q] = burst[q]
    BY <1>1, <1>2
  <2>2. fq[p] = << >> /\ rx'[p] = rx[p] /\ burst'[p] = burst[p] /\ inFlight' = inFlight
    <3>1. p >= p
      BY <1>1 DEF Ports
    <3> QED BY <1>1, <1>2, <3>1 DEF IInv, Control
  <2>3. Elements(fq[p]) = {}
    BY <2>2, ElementsOfEmpty
  <2>4. Elements(fq'[p]) = {buffers[top][SlabSize - i] : i \in 1..FillSize}
    <3> DEFINE f == [i \in 1..FillSize |-> buffers[top][SlabSize - i]]
    <3>1. fq'[p] = f /\ Len(fq'[p]) = FillSize
      BY <1>1, <1>2, PortInitFacts
    <3>2. Elements(f) = {f[i] : i \in 1..FillSize}
      BY <3>1 DEF Elements
    <3> QED BY <3>1, <3>2
  <2> DEFINE A == {buffers[top][SlabSize - i] : i \in 1..FillSize}
  <2> HIDE DEF A, p
  <2>5. PICK R : /\ HandedOut = inFlight \cup Elements(fq[p]) \cup Elements(rx[p])
                                  \cup Elements(burst[p]) \cup R
                 /\ HandedOut' = inFlight' \cup Elements(fq'[p]) \cup Elements(rx'[p])
                                   \cup Elements(burst'[p]) \cup R
    BY <1>1, <2>1, HandedOutStep
  <2>6. HandedOut' = HandedOut \cup A
    BY <2>2, <2>3, <2>4, <2>5 DEF A
  <2> QED BY <2>6 DEF A
<1>11. Len(FullSlabs) >= 2
  BY <1>1, <1>4
<1> HIDE DEF FullSlabs, Stock, Collected, HandedOut
<1> QED BY <1>5, <1>7, <1>8, <1>9, <1>10, <1>11 DEF Calls!Open

\* bcache_cons_check of an empty cache
LEMMA CheckTrades ==
  ASSUME IInv, NEW p \in Ports, RxCheckTrade(p)
  PROVE  Calls!Trade(p)
<1> DEFINE n == nSlabsAvailable
           top == slabs[n - 1]
<1>1. /\ n \in Nat \ {0} /\ nFreed = 0 /\ nFreed' = 0 /\ nInit = NPorts /\ n <= PoolSlots
      /\ PoolSlots \in 0..NSlabs /\ NSlabs \in Nat /\ phase = "running"
  <2>1. phase = "running" /\ n # 0 /\ nFreed' = nFreed
    BY DEF RxCheckTrade, At, control, IInv, TypeOK
  <2>2. nInit = NPorts /\ nFreed = 0
    BY <2>1, Running
  <2> QED BY <2>1, <2>2, PoolAssumption DEF IInv, TypeOK, Control, PoolSlots
<1>2. /\ slabs \in [SlabIds -> SlabIds] /\ buffers \in Contained /\ SlabSize \in Nat \ {0}
      /\ nCons \in [Ports -> 0..SlabSize] /\ slabCons \in [Ports -> SlabIds] /\ nCons[p] = 0
  BY PoolAssumption DEF IInv, TypeOK, Contained, RxCheckTrade
<1>3. /\ slabCons' = [slabCons EXCEPT ![p] = top] /\ slabs' = [slabs EXCEPT ![n - 1] = slabCons[p]]
      /\ n' = n - 1 /\ nCons' = [nCons EXCEPT ![p] = SlabSize]
      /\ UNCHANGED <<buffers, producer, rings, burst, inFlight>>
  BY DEF RxCheckTrade
<1>4. /\ \A i \in 1..n : i - 1 \in SlabIds /\ slabs[i - 1] \in SlabIds
      /\ \A i \in 1..(n - 1) : i \in 1..n /\ i - 1 # n - 1
      /\ n \in 1..n /\ top \in SlabIds
  <2>1. \A i \in 1..n : i - 1 \in SlabIds
    BY <1>1 DEF SlabIds
  <2>2. n \in 1..n /\ \A i \in 1..(n - 1) : i \in 1..n /\ i - 1 # n - 1
    BY <1>1
  <2> QED BY <1>2, <2>1, <2>2
<1>5. /\ FullSlabs = [i \in 1..n |-> Slice(buffers, slabs[i - 1], SlabSize)]
      /\ FullSlabs' = [i \in 1..(n - 1) |-> Slice(buffers, slabs[i - 1], SlabSize)]
  <2>1. n - 2 * nFreed = n /\ n' - 2 * nFreed' = n - 1
    BY <1>1, <1>3
  <2>2. \A i \in 1..(n - 1) : slabs'[i - 1] = slabs[i - 1]
    BY <1>2, <1>3, <1>4
  <2> QED BY <1>3, <2>1, <2>2, Mapped, MappedNext
<1>6. FullSlabs \in [1..n -> Calls!Slabs] /\ Len(FullSlabs) = n
  <2>1. SlabSize \in 0..SlabSize
    BY <1>2
  <2>2. \A i \in 1..n : Slice(buffers, slabs[i - 1], SlabSize) \in Calls!Slabs
    BY <1>2, <1>4, <2>1, ContentsType DEF Calls!Slabs
  <2>3. FullSlabs \in [1..n -> Calls!Slabs]
    BY <1>5, <2>2
  <2> HIDE DEF FullSlabs
  <2> QED BY <1>1, <2>3, Length
<1>7. FullSlabs' = Calls!Without(FullSlabs, 1) /\ FullSlabs # << >>
  <2> DEFINE F == FullSlabs
             S == Calls!Slabs
  <2>1. n \in Nat /\ F \in [1..n -> S] /\ n - 1 \in 0..n /\ Len(F) = n
    BY <1>1, <1>6
  <2>2. [i \in 1..(n - 1) |-> F[i]] = FullSlabs'
    BY <1>4, <1>5
  <2> HIDE DEF F, S
  <2>3. SubSeq(F, 1, n - 1) = [i \in 1..(n - 1) |-> F[i]]
    <3> HIDE DEF n
    <3> QED BY <2>1, Shortened
  <2>4. Calls!Without(F, 1) = SubSeq(F, 1, n - 1)
    BY <2>1 DEF Calls!Without
  <2>5. F # << >>
    BY <1>1, <2>1, EmptySeq
  <2> QED BY <2>2, <2>3, <2>4, <2>5 DEF F
<1>8. Calls!Last(FullSlabs) = Slice(buffers, top, SlabSize)
  BY <1>4, <1>5, <1>6 DEF Calls!Last
<1>9. Stock' = [Stock EXCEPT ![p] = Slice(buffers, top, SlabSize)]
  BY <1>2, <1>3, Mapped, MappedNext
<1>10. Stock[p] = << >>
  <2>1. slabCons[p] \in SlabIds /\ 0 \in 0..SlabSize
    BY <1>2
  <2>2. Slice(buffers, slabCons[p], 0) = << >>
    BY <1>2, <2>1, ContentsType
  <2> QED BY <1>2, <2>2, Mapped
<1>11. UNCHANGED <<Collected, HandedOut>>
  BY <1>3, Mapped, MappedNext DEF producer, rings, HandedOut, PortAddresses
<1> HIDE DEF FullSlabs, Stock, Collected, HandedOut
<1> QED BY <1>7, <1>8, <1>9, <1>10, <1>11 DEF Calls!Trade

\* bcache_cons for every packet of a burst
LEMMA RefillTakes ==
  ASSUME IInv, NEW p \in Ports, RxRefill(p)
  PROVE  Len(burst[p]) \in 1..Len(Stock[p]) /\ Calls!Take(p, Len(burst[p]))
<1> DEFINE n == Len(burst[p])
           m == nCons[p]
           s == slabCons[p]
           fresh == [i \in 1..n |-> buffers[s][m - i]]
<1>1. /\ rxPc[p] = "refill" /\ n \in 0..m /\ nCons' = [nCons EXCEPT ![p] = m - n]
      /\ phase = "running"
  BY RefillFacts
<1>2. /\ fq' = [fq EXCEPT ![p] = fq[p] \o fresh]
      /\ UNCHANGED <<control, pool, slabCons, producer, rx, burst, inFlight>>
  BY DEF RxRefill
<1>3. /\ buffers \in Contained /\ m \in 0..SlabSize /\ s \in SlabIds /\ SlabSize \in Nat
      /\ burst[p] \in Seq(Addresses) /\ fq \in [Ports -> Seq(Addresses)] /\ burst[p] # << >>
      /\ nCons \in [Ports -> 0..SlabSize] /\ slabCons \in [Ports -> SlabIds]
  <2>1. burst[p] # << >>
    BY <1>1 DEF IInv, Control
  <2> QED BY <2>1, PoolAssumption DEF IInv, TypeOK, Contained
<1>4. n \in 1..m
  BY <1>1, <1>3, EmptySeq, LenProperties
<1>5. Stock[p] = Slice(buffers, s, m) /\ Len(Stock[p]) = m
  <2>1. Stock[p] = Slice(buffers, s, m)
    BY Mapped
  <2> QED BY <1>3, <2>1, ContentsType
<1>6. /\ Calls!Without(Stock[p], n) = Slice(buffers, s, m - n)
      /\ Calls!Ending(Stock[p], n) = {buffers[s][m - i] : i \in 1..n}
  <2>1. buffers \in Contained /\ s \in SlabIds /\ m \in 0..SlabSize /\ n \in 0..m
    BY <1>1, <1>3
  <2> HIDE DEF n, m, s
  <2>2. /\ Calls!Without(Slice(buffers, s, m), n) = Slice(buffers, s, m - n)
        /\ Calls!Ending(Slice(buffers, s, m), n) = {buffers[s][m - i] : i \in 1..n}
    BY <2>1, ContentsCut
  <2> QED BY <1>5, <2>2
<1>7. Stock' = [Stock EXCEPT ![p] = Slice(buffers, s, m - n)]
  BY <1>1, <1>2, <1>3, Mapped, MappedNext DEF pool
<1>8. UNCHANGED <<FullSlabs, Collected>>
  BY <1>2, Mapped, MappedNext DEF pool, producer, control
<1>9. HandedOut' = HandedOut \cup {buffers[s][m - i] : i \in 1..n}
  <2>1. fresh \in Seq(Addresses) /\ Elements(fresh) = {buffers[s][m - i] : i \in 1..n}
    <3>1. \A i \in 1..n : m - i \in Entries
      BY <1>3, <1>4 DEF Entries
    <3>2. fresh \in [1..n -> Addresses] /\ n \in Nat
      BY <1>3, <1>4, <3>1 DEF Contained
    <3>3. fresh \in Seq(Addresses) /\ Len(fresh) = n
      <4> HIDE DEF fresh, n
      <4> QED BY <3>2, SeqDef, Length
    <3>4. Elements(fresh) = {fresh[i] : i \in 1..n}
      <4> HIDE DEF fresh
      <4> QED BY <3>3 DEF Elements
    <3> QED BY <3>3, <3>4
  <2> HIDE DEF fresh
  <2>2. Elements(fq'[p]) = Elements(fq[p]) \cup Elements(fresh)
    <3>1. fq'[p] = fq[p] \o fresh /\ fq[p] \in Seq(Addresses)
      BY <1>2, <1>3
    <3> QED BY <2>1, <3>1, ElementsOfConcat
  <2>3. \A q \in Ports \ {p} : fq'[q] = fq[q] /\ rx'[q] = rx[q] /\ burst'[q] = burst[q]
    BY <1>2, <1>3
  <2>4. PICK R : /\ HandedOut = inFlight \cup Elements(fq[p]) \cup Elements(rx[p])
                                  \cup Elements(burst[p]) \cup R
                 /\ HandedOut' = inFlight' \cup Elements(fq'[p]) \cup Elements(rx'[p])
                                   \cup Elements(burst'[p]) \cup R
    BY <2>3, HandedOutStep
  <2>5. rx'[p] = rx[p] /\ burst'[p] = burst[p] /\ inFlight' = inFlight
    BY <1>2
  <2>6. HandedOut' = HandedOut \cup Elements(fresh)
    BY <2>2, <2>4, <2>5
  <2> QED BY <2>1, <2>6
<1> HIDE DEF FullSlabs, Stock, Collected, HandedOut
<1> QED BY <1>4, <1>5, <1>6, <1>7, <1>8, <1>9 DEF Calls!Take

\* The buffer of a packet that is dropped or forgotten leaves the thread's hands.
LEMMA ProcessedLeaves ==
  ASSUME IInv, Distinct, NEW p \in Ports, Processed(p), UNCHANGED <<rings, inFlight>>
  PROVE  Head(burst[p]) \in HandedOut /\ HandedOut' = HandedOut \ {Head(burst[p])}
<1> DEFINE b == Head(burst[p])
<1>1. /\ phase = "running" /\ burst[p] # << >>
      /\ burst' = [burst EXCEPT ![p] = Tail(burst[p])]
  BY ProcessedBurst DEF IInv
<1>2. burst \in [Ports -> Seq(Addresses)] /\ burst[p] \in Seq(Addresses)
  BY DEF IInv, TypeOK
<1>3. /\ b \notin inFlight /\ b \notin Elements(fq[p]) \cup Elements(rx[p]) \cup Elements(Tail(burst[p]))
      /\ \A q \in Ports \ {p} : b \notin PortAddresses(q)
  <2>1. PICK K, O, X : Placed(K, O, X)
    BY <1>1 DEF Distinct
  <2> QED BY <1>1, <2>1, HeldOnce DEF IInv
<1>4. Elements(burst[p]) = {b} \cup Elements(Tail(burst[p]))
  BY <1>1, <1>2, ElementsOfHeadTail
<1>5. /\ \A q \in Ports \ {p} : fq'[q] = fq[q] /\ rx'[q] = rx[q] /\ burst'[q] = burst[q]
      /\ burst'[p] = Tail(burst[p]) /\ fq' = fq /\ rx' = rx /\ inFlight' = inFlight
  BY <1>1, <1>2 DEF rings
<1>6. PICK R : /\ HandedOut = inFlight \cup Elements(fq[p]) \cup Elements(rx[p])
                                \cup Elements(burst[p]) \cup R
               /\ HandedOut' = inFlight' \cup Elements(fq'[p]) \cup Elements(rx'[p])
                                 \cup Elements(burst'[p]) \cup R
               /\ \A x \in R : \E q \in Ports \ {p} : x \in PortAddresses(q)
  BY <1>5, HandedOutStep
<1>7. b \notin R
  BY <1>3, <1>6
<1> HIDE DEF b
<1>8. b \in HandedOut /\ HandedOut' = HandedOut \ {b}
  BY <1>3, <1>4, <1>5, <1>6, <1>7
<1> QED BY <1>8 DEF b

\* bcache_prod for a packet that is dropped
LEMMA DropGives ==
  ASSUME IInv, Distinct, NEW p \in Ports, RxDrop(p)
  PROVE  Calls!Give(p, Head(burst[p])) /\ Head(burst[p]) \in HandedOut
<1> DEFINE b == Head(burst[p])
<1>1. /\ phase = "running" /\ rxPc[p] = "process" /\ burst[p] # << >> /\ b \in Addresses
      /\ Processed(p) /\ BcacheProd(p, b)
      /\ UNCHANGED <<control, consumer>> /\ UNCHANGED <<rings, inFlight>>
  BY ProcessedBurst DEF IInv, RxDrop
<1>2. b \in HandedOut /\ HandedOut' = HandedOut \ {b}
  BY <1>1, ProcessedLeaves
<1>3. /\ UNCHANGED Stock
      /\ \/ /\ Len(Collected[p]) < SlabSize /\ UNCHANGED FullSlabs
            /\ Collected' = [Collected EXCEPT ![p] = Append(Collected[p], b)]
         \/ /\ Len(Collected[p]) = SlabSize
            /\ FullSlabs' = Append(FullSlabs, Collected[p])
            /\ Collected' = [Collected EXCEPT ![p] = <<b>>]
  <2> HIDE DEF b
  <2> QED BY <1>1, ProdGives
<1> HIDE DEF FullSlabs, Stock, Collected, HandedOut
<1> QED BY <1>2, <1>3 DEF Calls!Give

\* bcache_prod for a packet that was sent
LEMMA CompletionGives ==
  ASSUME IInv, Distinct, NEW p \in Ports, NEW b \in inFlight, TxComplete(p, b)
  PROVE  Calls!Give(p, b) /\ b \in HandedOut
<1>1. /\ phase = "running" /\ inFlight # {} /\ BcacheProd(p, b) /\ inFlight' = inFlight \ {b}
      /\ UNCHANGED <<control, consumer>> /\ UNCHANGED <<rings, burst>>
  BY DEF TxComplete
<1>2. b \in Addresses
  BY DEF IInv, TypeOK
<1>3. \A q \in Ports : b \notin PortAddresses(q)
  <2>1. PICK K, O, X : Placed(K, O, X)
    BY <1>1 DEF Distinct
  <2> QED BY <2>1, HeldOnce DEF IInv
<1>4. b \in HandedOut /\ HandedOut' = HandedOut \ {b}
  <2> DEFINE H == UNION {PortAddresses(q) : q \in Ports}
  <2>1. HandedOut = inFlight \cup H /\ HandedOut' = inFlight' \cup H
    BY <1>1 DEF HandedOut, PortAddresses, rings
  <2>2. b \notin H
    BY <1>3
  <2> HIDE DEF H
  <2> QED BY <1>1, <2>1, <2>2
<1>5. /\ UNCHANGED Stock
      /\ \/ /\ Len(Collected[p]) < SlabSize /\ UNCHANGED FullSlabs
            /\ Collected' = [Collected EXCEPT ![p] = Append(Collected[p], b)]
         \/ /\ Len(Collected[p]) = SlabSize
            /\ FullSlabs' = Append(FullSlabs, Collected[p])
            /\ Collected' = [Collected EXCEPT ![p] = <<b>>]
  BY <1>1, <1>2, ProdGives
<1> HIDE DEF FullSlabs, Stock, Collected, HandedOut
<1> QED BY <1>4, <1>5 DEF Calls!Give

\* The buffer of a packet that is not for this node is never given back.
LEMMA ForgetForgets ==
  ASSUME IInv, Distinct, NEW p \in Ports, RxForget(p)
  PROVE  Calls!Forget(Head(burst[p])) /\ Head(burst[p]) \in HandedOut
<1>1. Processed(p) /\ UNCHANGED <<control, pool, consumer, producer>> /\ UNCHANGED <<rings, inFlight>>
  BY DEF RxForget
<1>2. UNCHANGED <<FullSlabs, Stock, Collected>>
  BY <1>1, CachesKept DEF pool, control
<1> HIDE DEF FullSlabs, Stock, Collected, HandedOut
<1> QED BY <1>1, <1>2, ProcessedLeaves DEF Calls!Forget

\* Buffers that move between kernel, thread and queues stay handed out.
LEMMA MovesKeep ==
  ASSUME IInv, NEW p \in Ports, KernelReceive(p) \/ RxPeek(p) \/ RxForward(p)
  PROVE  UNCHANGED HandedOut
<1>1. /\ fq \in [Ports -> Seq(Addresses)] /\ rx \in [Ports -> Seq(Addresses)]
      /\ burst \in [Ports -> Seq(Addresses)]
      /\ fq[p] \in Seq(Addresses) /\ rx[p] \in Seq(Addresses) /\ burst[p] \in Seq(Addresses)
  BY DEF IInv, TypeOK
<1>2. SUFFICES /\ \A q \in Ports \ {p} : fq'[q] = fq[q] /\ rx'[q] = rx[q] /\ burst'[q] = burst[q]
               /\ inFlight' \cup Elements(fq'[p]) \cup Elements(rx'[p]) \cup Elements(burst'[p])
                    = inFlight \cup Elements(fq[p]) \cup Elements(rx[p]) \cup Elements(burst[p])
  <2>1. PICK R : /\ HandedOut = inFlight \cup Elements(fq[p]) \cup Elements(rx[p])
                                  \cup Elements(burst[p]) \cup R
                 /\ HandedOut' = inFlight' \cup Elements(fq'[p]) \cup Elements(rx'[p])
                                   \cup Elements(burst'[p]) \cup R
    BY <1>2, HandedOutStep
  <2> QED BY <1>2, <2>1
<1>3. CASE KernelReceive(p)
  <2>1. /\ fq' = [fq EXCEPT ![p] = Tail(fq[p])] /\ rx' = [rx EXCEPT ![p] = Append(rx[p], Head(fq[p]))]
        /\ fq[p] # << >> /\ burst' = burst /\ inFlight' = inFlight
    BY <1>1, <1>3 DEF KernelReceive
  <2>2. Head(fq[p]) \in Addresses
    BY <1>1, <2>1, HeadTailProperties
  <2>3. Elements(fq[p]) = {Head(fq[p])} \cup Elements(Tail(fq[p]))
    BY <1>1, <2>1, ElementsOfHeadTail
  <2>4. Elements(Append(rx[p], Head(fq[p]))) = Elements(rx[p]) \cup {Head(fq[p])}
    BY <1>1, <2>2, ElementsOfAppend
  <2>5. fq'[p] = Tail(fq[p]) /\ rx'[p] = Append(rx[p], Head(fq[p])) /\ burst'[p] = burst[p]
    BY <1>1, <2>1
  <2>6. \A q \in Ports \ {p} : fq'[q] = fq[q] /\ rx'[q] = rx[q] /\ burst'[q] = burst[q]
    BY <1>1, <2>1
  <2> QED BY <2>1, <2>3, <2>4, <2>5, <2>6
<1>4. CASE RxPeek(p)
  <2>1. PICK n \in 0..Len(rx[p]) :
               /\ rxPc[p] = "peek" /\ burst' = [burst EXCEPT ![p] = SubSeq(rx[p], 1, n)]
               /\ rx' = [rx EXCEPT ![p] = SubSeq(rx[p], n + 1, Len(rx[p]))]
    BY <1>4, PeekFacts DEF IInv
  <2>2. burst[p] = << >> /\ fq' = fq /\ inFlight' = inFlight
    BY <1>4, <2>1 DEF IInv, Control, RxPeek
  <2>3. Elements(rx[p]) = Elements(SubSeq(rx[p], 1, n)) \cup Elements(SubSeq(rx[p], n + 1, Len(rx[p])))
    BY <1>1, ElementsOfCut
  <2>4. Elements(burst[p]) = {}
    BY <2>2, ElementsOfEmpty
  <2>5. /\ rx'[p] = SubSeq(rx[p], n + 1, Len(rx[p])) /\ burst'[p] = SubSeq(rx[p], 1, n)
        /\ \A q \in Ports \ {p} : fq'[q] = fq[q] /\ rx'[q] = rx[q] /\ burst'[q] = burst[q]
    BY <1>1, <2>1, <2>2
  <2> QED BY <2>2, <2>3, <2>4, <2>5
<1>5. CASE RxForward(p)
  <2>1. /\ burst[p] # << >> /\ burst' = [burst EXCEPT ![p] = Tail(burst[p])]
        /\ inFlight' = inFlight \cup {Head(burst[p])} /\ fq' = fq /\ rx' = rx
    BY <1>5, ProcessedBurst DEF IInv, RxForward, rings
  <2>2. Elements(burst[p]) = {Head(burst[p])} \cup Elements(Tail(burst[p]))
    BY <1>1, <2>1, ElementsOfHeadTail
  <2>3. /\ burst'[p] = Tail(burst[p])
        /\ \A q \in Ports \ {p} : fq'[q] = fq[q] /\ rx'[q] = rx[q] /\ burst'[q] = burst[q]
    BY <1>1, <2>1
  <2> QED BY <2>1, <2>2, <2>3
<1> QED BY <1>3, <1>4, <1>5

\* Every step is one call, or none.
LEMMA CallsStep == IInv /\ Distinct /\ [Next]_vars => [Calls!Next]_(Calls!vars)
<1> SUFFICES ASSUME IInv, Distinct, [Next]_vars PROVE Calls!Next \/ UNCHANGED Calls!vars
  OBVIOUS
<1>1. CASE PortInit
  <2>1. nInit \in Ports /\ FillSize \in 0..SlabSize
    BY <1>1, PortInitFacts, PoolAssumption
  <2> QED BY <1>1, <2>1, PortInitOpens DEF Calls!Next
<1>2. CASE PortInitFails \/ StartThreads \/ JoinThreads \/ UNCHANGED vars
  <2>1. UNCHANGED <<nFreed, pool, consumer, producer, rings, burst, inFlight>>
    BY <1>2 DEF PortInitFails, StartThreads, JoinThreads, vars, control
  <2>2. UNCHANGED <<FullSlabs, Stock, Collected>>
    BY <2>1, CachesKept DEF pool
  <2>3. UNCHANGED HandedOut
    BY <2>1 DEF HandedOut, PortAddresses, rings
  <2> QED BY <2>2, <2>3 DEF Calls!vars
<1>3. CASE PortFree
  <2>1. /\ nFreed' = nFreed + 1 /\ nSlabsAvailable' = nSlabsAvailable + 2
        /\ nFreed \in Int /\ nSlabsAvailable \in Int
        /\ UNCHANGED <<slabs, buffers, consumer, producer, rings, burst, inFlight>>
    BY <1>3, PoolAssumption DEF PortFree, IInv, TypeOK
  <2>2. nSlabsAvailable' - 2 * nFreed' = nSlabsAvailable - 2 * nFreed
    BY <2>1
  <2>3. UNCHANGED <<FullSlabs, Stock, Collected>>
    BY <2>1, <2>2, CachesKept
  <2>4. UNCHANGED HandedOut
    BY <2>1 DEF HandedOut, PortAddresses, rings
  <2> QED BY <2>3, <2>4 DEF Calls!vars
<1>4. ASSUME NEW p \in Ports, PortStep(p) PROVE Calls!Next \/ UNCHANGED Calls!vars
  <2>1. CASE KernelReceive(p) \/ RxPeek(p) \/ RxForward(p)
    <3>1. UNCHANGED <<control, pool, consumer, producer>>
      BY <2>1 DEF KernelReceive, RxPeek, RxForward
    <3>2. UNCHANGED <<FullSlabs, Stock, Collected>>
      BY <3>1, CachesKept DEF pool, control
    <3> QED BY <2>1, <3>2, MovesKeep DEF Calls!vars
  <2>2. CASE RxCheckLocal(p)
    <3>1. UNCHANGED <<control, pool, consumer, producer, rings, burst, inFlight>>
      BY <2>2 DEF RxCheckLocal
    <3>2. UNCHANGED <<FullSlabs, Stock, Collected>>
      BY <3>1, CachesKept DEF pool, control
    <3>3. UNCHANGED HandedOut
      BY <3>1 DEF HandedOut, PortAddresses, rings
    <3> QED BY <3>2, <3>3 DEF Calls!vars
  <2>3. CASE RxCheckTrade(p)
    BY <2>3, CheckTrades DEF Calls!Next
  <2>4. CASE RxRefill(p)
    BY <2>4, RefillTakes DEF Calls!Next
  <2>5. CASE RxDrop(p)
    BY <2>5, DropGives DEF Calls!Next
  <2>6. CASE RxForget(p)
    BY <2>6, ForgetForgets DEF Calls!Next
  <2>7. CASE \E b \in inFlight : TxComplete(p, b)
    BY <2>7, CompletionGives DEF Calls!Next
  <2> QED BY <1>4, <2>1, <2>2, <2>3, <2>4, <2>5, <2>6, <2>7 DEF PortStep
<1> QED BY <1>1, <1>2, <1>3, <1>4, NextSteps

(* mempool.h does what SlabCache says, for any number of ports and slabs of  *)
(* any size: buffers are handed out and come back as if every slab were a    *)
(* sequence of its own, and no call changes what another cache holds.  As    *)
(* above, calls of bcache_prod on one cache must not overlap.                *)
THEOREM CallsImplemented == Spec => ImplementsCalls
<1>1. Spec => []Distinct
  <2>1. Init => Distinct
    BY InitDistinct
  <2>2. IInv /\ Distinct /\ [Next]_vars => Distinct'
    BY DistinctStep
  <2> QED BY <2>1, <2>2, Invariance, PTL DEF Spec
<1>2. Init => Calls!Init
  BY CallsInit
<1>3. IInv /\ Distinct /\ [Next]_vars => [Calls!Next]_(Calls!vars)
  BY CallsStep
<1> QED BY <1>1, <1>2, <1>3, Invariance, PTL DEF Spec, ImplementsCalls, Calls!Spec

=============================================================================
