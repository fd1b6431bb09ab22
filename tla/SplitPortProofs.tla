-------------------------- MODULE SplitPortProofs --------------------------
(***************************************************************************)
(* The invariants of SplitPort, for every size of the pool, the slabs, the *)
(* rings, and the bursts a caller of bcache_cons_check may ask for.        *)
(*                                                                         *)
(* BuffersCirculate says how many buffers there are; where they can be is  *)
(* a matter of the two threads: Receiver and Transmitter say what each     *)
(* thread knows of its rings and slabs at each point of its loop.  With    *)
(* them BuffersCirculate bounds the number of full slabs from both sides.  *)
(***************************************************************************)
EXTENDS SplitPort, TLAPS

(* The fill and the receive ring hold FillSize buffers, but for those of a *)
(* burst that is not replaced yet, and slab_cons can replace them: what    *)
(* bcache_cons_check promises is there, as bursts fit into a slab.         *)
Receiver ==
  /\ fq + rx + (IF rxPc = "refill" THEN burst ELSE 0) = FillSize
  /\ rxPc \in {"peek", "process", "refill"} => burst <= nCons
  /\ rxPc = "process" => burst <= rx
  /\ rxPc # "process" => processed = 0

(* slab_cons_tx has a buffer for each packet promised or collected;        *)
(* completions are being processed only between peek and release.          *)
Transmitter ==
  /\ txPc \in {"collect", "peek", "complete", "reserve"} => collected <= nConsTx
  /\ txPc # "complete" => peeked = 0

IInv == TypeOK /\ Receiver /\ Transmitter /\ BuffersCirculate

-----------------------------------------------------------------------------
(* Slabs and buffers: one slab more or less *)

LEMMA OneMore ==
  ASSUME NEW n \in Int, NEW s \in Int
  PROVE  (n + 1) * s = n * s + s /\ (n - 1) * s = n * s - s
  BY SMT

LEMMA MoreSlabs ==
  ASSUME NEW m \in Int, NEW n \in Int, NEW s \in Nat, m < n
  PROVE  m * s + s <= n * s
<1>1. PICK d \in Nat : n = m + 1 + d
  <2>1. n - m - 1 \in Nat /\ n = m + 1 + (n - m - 1)
    OBVIOUS
  <2> QED BY <2>1
<1>2. n * s = m * s + s + d * s
  BY <1>1
<1>3. d * s >= 0
  BY <1>1
<1> QED BY <1>2, <1>3

(* Fewer buffers than n slabs hold are fewer than n slabs. *)
LEMMA FewerSlabs ==
  ASSUME NEW m \in Int, NEW n \in Int, NEW s \in Nat, m * s < n * s
  PROVE  m < n
<1>1. SUFFICES ASSUME n <= m PROVE FALSE
  OBVIOUS
<1>2. n * s <= m * s
  <2>1. CASE n = m
    BY <2>1
  <2>2. CASE n < m
    BY <2>2, MoreSlabs
  <2> QED BY <1>1, <2>1, <2>2
<1> QED BY <1>2

(* A buffer given back is counted once, in the slab or after a trade. *)
LEMMA GivenBack ==
  ASSUME TypeOK
  PROVE  /\ BcacheProd => /\ nSlabsAvailable' * SlabSize \in Int
                          /\ nSlabsAvailable' * SlabSize + nProd'
                             = nSlabsAvailable * SlabSize + nProd + 1
         /\ BcacheProdTx => /\ nSlabsAvailable' * SlabSize \in Int
                            /\ nSlabsAvailable' * SlabSize + nProdTx'
                               = nSlabsAvailable * SlabSize + nProdTx + 1
<1>1. nSlabsAvailable \in Int /\ SlabSize \in Int
  BY SplitPortAssumption DEF TypeOK
<1>2. (nSlabsAvailable + 1) * SlabSize = nSlabsAvailable * SlabSize + SlabSize
  BY <1>1, OneMore
<1>3. nSlabsAvailable * SlabSize \in Int
  BY <1>1
<1>4. ASSUME BcacheProd
      PROVE  /\ nSlabsAvailable' * SlabSize \in Int
             /\ nSlabsAvailable' * SlabSize + nProd' = nSlabsAvailable * SlabSize + nProd + 1
  <2>1. CASE nProd' = nProd + 1 /\ nSlabsAvailable' = nSlabsAvailable
    BY <1>1, <1>3, <2>1 DEF TypeOK
  <2>2. CASE nProd = SlabSize /\ nProd' = 1 /\ nSlabsAvailable' = nSlabsAvailable + 1
    <3>1. nSlabsAvailable' * SlabSize = nSlabsAvailable * SlabSize + SlabSize
      BY <1>2, <2>2
    <3> QED BY <1>1, <1>3, <2>2, <3>1
  <2> QED BY <1>4, <2>1, <2>2 DEF BcacheProd
<1>5. ASSUME BcacheProdTx
      PROVE  /\ nSlabsAvailable' * SlabSize \in Int
             /\ nSlabsAvailable' * SlabSize + nProdTx' = nSlabsAvailable * SlabSize + nProdTx + 1
  <2>1. CASE nProdTx' = nProdTx + 1 /\ nSlabsAvailable' = nSlabsAvailable
    BY <1>1, <1>3, <2>1 DEF TypeOK
  <2>2. CASE nProdTx = SlabSize /\ nProdTx' = 1 /\ nSlabsAvailable' = nSlabsAvailable + 1
    <3>1. nSlabsAvailable' * SlabSize = nSlabsAvailable * SlabSize + SlabSize
      BY <1>2, <2>2
    <3> QED BY <1>1, <1>3, <2>2, <3>1
  <2> QED BY <1>5, <2>1, <2>2 DEF BcacheProdTx
<1> QED BY <1>4, <1>5

(* A slab taken from the pool is counted in the consumer slab instead. *)
LEMMA TakenOut ==
  ASSUME TypeOK, nSlabsAvailable' = nSlabsAvailable - 1
  PROVE  /\ nSlabsAvailable' * SlabSize \in Int
         /\ nSlabsAvailable' * SlabSize + SlabSize = nSlabsAvailable * SlabSize
<1>1. nSlabsAvailable \in Int /\ SlabSize \in Int
  BY SplitPortAssumption DEF TypeOK
<1>2. (nSlabsAvailable - 1) * SlabSize = nSlabsAvailable * SlabSize - SlabSize
  BY <1>1, OneMore
<1> QED BY <1>1, <1>2

(* A slab fits into the pool whenever a producer slab is full. *)
LEMMA SlabFits ==
  ASSUME TypeOK, Receiver, BuffersCirculate, nProd = SlabSize \/ nProdTx = SlabSize
  PROVE  nSlabsAvailable < NSlabs
<1>1. nSlabsAvailable * SlabSize \in Int /\ (NSlabs - 2) * SlabSize \in Int
  BY SplitPortAssumption DEF TypeOK
<1>2. nSlabsAvailable * SlabSize < (NSlabs - 2) * SlabSize
  <2>1. rx - processed >= 0
    BY SplitPortAssumption DEF TypeOK, Receiver
  <2> QED BY <1>1, <2>1, SplitPortAssumption DEF TypeOK, BuffersCirculate
<1>3. nSlabsAvailable < NSlabs - 2
  BY <1>2, FewerSlabs, SplitPortAssumption DEF TypeOK
<1> QED BY <1>3, SplitPortAssumption DEF TypeOK

-----------------------------------------------------------------------------
(* Every step preserves the parts of the invariant. *)

(* The capacities: a slab that is traded in finds room in the pool. *)
LEMMA TypeStep ==
  ASSUME IInv, [Next]_vars
  PROVE  TypeOK'
<1> USE SplitPortAssumption DEF IInv, TypeOK, Receiver, Transmitter, rxSide, txSide
<1>1. CASE RxCheck
  BY <1>1 DEF RxCheck, AtMost
<1>2. CASE RxPeek
  BY <1>2 DEF RxPeek, AtMost
<1>3. CASE RxGiveBack
  <2>1. nProd = SlabSize => nSlabsAvailable < NSlabs
    BY SlabFits
  <2> QED BY <1>3, <2>1 DEF RxGiveBack, Processed, BcacheProd
<1>4. CASE RxForget
  BY <1>4 DEF RxForget, Processed
<1>5. CASE RxRelease
  BY <1>5 DEF RxRelease
<1>6. CASE RxRefill
  BY <1>6 DEF RxRefill
<1>7. CASE TxCheck
  BY <1>7 DEF TxCheck, AtMost
<1>8. CASE TxCollect
  BY <1>8 DEF TxCollect, AtMost
<1>9. CASE TxPeek
  BY <1>9 DEF TxPeek, AtMost
<1>10. CASE TxComplete
  <2>1. nProdTx = SlabSize => nSlabsAvailable < NSlabs
    BY SlabFits
  <2> QED BY <1>10, <2>1 DEF TxComplete, BcacheProdTx
<1>11. CASE TxRelease
  BY <1>11 DEF TxRelease
<1>12. CASE TxSubmit
  BY <1>12 DEF TxSubmit
<1>13. CASE KernelReceive
  BY <1>13 DEF KernelReceive
<1>14. CASE KernelTransmit
  BY <1>14 DEF KernelTransmit
<1>15. CASE UNCHANGED vars
  BY <1>15 DEF vars
<1> QED
  BY <1>1, <1>2, <1>3, <1>4, <1>5, <1>6, <1>7, <1>8, <1>9, <1>10, <1>11, <1>12, <1>13, <1>14, <1>15 DEF Next, RxStep, TxStep

(* What leaves one ring of the receive thread is in the other or owed. *)
LEMMA ReceiverStep ==
  ASSUME IInv, [Next]_vars
  PROVE  Receiver'
<1> USE SplitPortAssumption DEF IInv, TypeOK, Receiver, rxSide, txSide
<1>1. CASE RxCheck
  BY <1>1 DEF RxCheck, AtMost
<1>2. CASE RxPeek
  BY <1>2 DEF RxPeek, AtMost
<1>3. CASE RxGiveBack
  BY <1>3 DEF RxGiveBack, Processed, BcacheProd
<1>4. CASE RxForget
  BY <1>4 DEF RxForget, Processed
<1>5. CASE RxRelease
  BY <1>5 DEF RxRelease
<1>6. CASE RxRefill
  BY <1>6 DEF RxRefill
<1>7. CASE TxCheck
  BY <1>7 DEF TxCheck, AtMost
<1>8. CASE TxCollect
  BY <1>8 DEF TxCollect, AtMost
<1>9. CASE TxPeek
  BY <1>9 DEF TxPeek, AtMost
<1>10. CASE TxComplete
  BY <1>10 DEF TxComplete, BcacheProdTx
<1>11. CASE TxRelease
  BY <1>11 DEF TxRelease
<1>12. CASE TxSubmit
  BY <1>12 DEF TxSubmit
<1>13. CASE KernelReceive
  BY <1>13 DEF KernelReceive
<1>14. CASE KernelTransmit
  BY <1>14 DEF KernelTransmit
<1>15. CASE UNCHANGED vars
  BY <1>15 DEF vars
<1> QED
  BY <1>1, <1>2, <1>3, <1>4, <1>5, <1>6, <1>7, <1>8, <1>9, <1>10, <1>11, <1>12, <1>13, <1>14, <1>15 DEF Next, RxStep, TxStep

(* The transmit thread keeps enough buffers for what it collected. *)
LEMMA TransmitterStep ==
  ASSUME IInv, [Next]_vars
  PROVE  Transmitter'
<1> USE SplitPortAssumption DEF IInv, TypeOK, Transmitter, rxSide, txSide
<1>1. CASE RxCheck
  BY <1>1 DEF RxCheck, AtMost
<1>2. CASE RxPeek
  BY <1>2 DEF RxPeek, AtMost
<1>3. CASE RxGiveBack
  BY <1>3 DEF RxGiveBack, Processed, BcacheProd
<1>4. CASE RxForget
  BY <1>4 DEF RxForget, Processed
<1>5. CASE RxRelease
  BY <1>5 DEF RxRelease
<1>6. CASE RxRefill
  BY <1>6 DEF RxRefill
<1>7. CASE TxCheck
  BY <1>7 DEF TxCheck, AtMost
<1>8. CASE TxCollect
  BY <1>8 DEF TxCollect, AtMost
<1>9. CASE TxPeek
  BY <1>9 DEF TxPeek, AtMost
<1>10. CASE TxComplete
  BY <1>10 DEF TxComplete, BcacheProdTx
<1>11. CASE TxRelease
  BY <1>11 DEF TxRelease
<1>12. CASE TxSubmit
  BY <1>12 DEF TxSubmit
<1>13. CASE KernelReceive
  BY <1>13 DEF KernelReceive
<1>14. CASE KernelTransmit
  BY <1>14 DEF KernelTransmit
<1>15. CASE UNCHANGED vars
  BY <1>15 DEF vars
<1> QED
  BY <1>1, <1>2, <1>3, <1>4, <1>5, <1>6, <1>7, <1>8, <1>9, <1>10, <1>11, <1>12, <1>13, <1>14, <1>15 DEF Next, RxStep, TxStep

(* No step gains or loses a buffer it does not count. *)
LEMMA CirculateStep ==
  ASSUME IInv, [Next]_vars
  PROVE  BuffersCirculate'
<1> USE SplitPortAssumption DEF IInv, TypeOK, BuffersCirculate, rxSide, txSide
<1>0. nSlabsAvailable * SlabSize \in Int /\ (NSlabs - 2) * SlabSize \in Int
  OBVIOUS
<1>00. TypeOK /\ BuffersCirculate
  OBVIOUS
<1>1. CASE RxCheck
  <2>1. CASE nSlabsAvailable' = nSlabsAvailable /\ nCons' = nCons
    BY <1>1, <2>1 DEF RxCheck
  <2>2. CASE nSlabsAvailable' = nSlabsAvailable - 1 /\ nCons = 0 /\ nCons' = SlabSize
    BY <1>0, <1>1, <2>2, TakenOut DEF RxCheck
  <2> QED BY <1>1, <2>1, <2>2 DEF RxCheck, AtMost
<1>2. CASE RxPeek
  BY <1>2 DEF RxPeek, AtMost
<1>3. CASE RxGiveBack
  <2>1. /\ nSlabsAvailable' * SlabSize \in Int
        /\ nSlabsAvailable' * SlabSize + nProd' = nSlabsAvailable * SlabSize + nProd + 1
    BY <1>3, GivenBack DEF RxGiveBack
  <2>2. nProd' \in Int
    BY <1>3 DEF RxGiveBack, BcacheProd
  <2>3. processed' = processed + 1
    BY <1>3 DEF RxGiveBack, Processed
  <2>4. UNCHANGED <<nCons, nConsTx, nProdTx, fq, rx, txq, cq, returned, forgotten>>
    BY <1>3 DEF RxGiveBack, Processed
  <2> DEFINE Rest == nCons + nConsTx + nProdTx + fq + rx + txq + (cq - returned) + forgotten
  <2>5. Rest \in Int /\ Rest' = Rest /\ nProd \in Int /\ processed \in Int
    BY <1>00, <2>4
  <2>6. BuffersCirculate <=>
          nSlabsAvailable * SlabSize + nProd + Rest - processed = (NSlabs - 2) * SlabSize
    BY <1>0, <1>00
  <2>7. BuffersCirculate' <=>
          nSlabsAvailable' * SlabSize + nProd' + Rest' - processed' = (NSlabs - 2) * SlabSize
    BY <1>0, <1>00, <2>1, <2>2, <2>3, <2>4
  <2> HIDE DEF Rest, BuffersCirculate, IInv, TypeOK
  <2> QED BY <1>0, <1>00, <2>1, <2>2, <2>3, <2>5, <2>6, <2>7
<1>4. CASE RxForget
  BY <1>4 DEF RxForget, Processed
<1>5. CASE RxRelease
  BY <1>5 DEF RxRelease, Receiver
<1>6. CASE RxRefill
  BY <1>6 DEF RxRefill, Receiver
<1>7. CASE TxCheck
  <2>1. CASE nSlabsAvailable' = nSlabsAvailable /\ nConsTx' = nConsTx
    BY <1>7, <2>1 DEF TxCheck
  <2>2. CASE nSlabsAvailable' = nSlabsAvailable - 1 /\ nConsTx = 0 /\ nConsTx' = SlabSize
    BY <1>0, <1>7, <2>2, TakenOut DEF TxCheck
  <2> QED BY <1>7, <2>1, <2>2 DEF TxCheck, AtMost
<1>8. CASE TxCollect
  BY <1>8 DEF TxCollect, AtMost
<1>9. CASE TxPeek
  BY <1>9 DEF TxPeek, AtMost
<1>10. CASE TxComplete
  <2>1. /\ nSlabsAvailable' * SlabSize \in Int
        /\ nSlabsAvailable' * SlabSize + nProdTx' = nSlabsAvailable * SlabSize + nProdTx + 1
    BY <1>10, GivenBack DEF TxComplete
  <2>2. nProdTx' \in Int
    BY <1>10 DEF TxComplete, BcacheProdTx
  <2>3. returned' = returned + 1
    BY <1>10 DEF TxComplete
  <2>4. UNCHANGED <<nCons, nProd, nConsTx, fq, rx, processed, txq, cq, forgotten>>
    BY <1>10 DEF TxComplete
  <2> DEFINE Rest == nCons + nProd + nConsTx + fq + (rx - processed) + txq + cq + forgotten
  <2>5. Rest \in Int /\ Rest' = Rest /\ nProdTx \in Int /\ returned \in Int
    BY <1>00, <2>4
  <2>6. BuffersCirculate <=>
          nSlabsAvailable * SlabSize + nProdTx + Rest - returned = (NSlabs - 2) * SlabSize
    BY <1>0, <1>00
  <2>7. BuffersCirculate' <=>
          nSlabsAvailable' * SlabSize + nProdTx' + Rest' - returned' = (NSlabs - 2) * SlabSize
    BY <1>0, <1>00, <2>1, <2>2, <2>3, <2>4
  <2> HIDE DEF Rest, BuffersCirculate, IInv, TypeOK
  <2> QED BY <1>0, <1>00, <2>1, <2>2, <2>3, <2>5, <2>6, <2>7
<1>11. CASE TxRelease
  BY <1>11 DEF TxRelease
<1>12. CASE TxSubmit
  BY <1>12 DEF TxSubmit, Transmitter
<1>13. CASE KernelReceive
  BY <1>13 DEF KernelReceive
<1>14. CASE KernelTransmit
  BY <1>14 DEF KernelTransmit
<1>15. CASE UNCHANGED vars
  BY <1>15 DEF vars
<1> QED
  BY <1>1, <1>2, <1>3, <1>4, <1>5, <1>6, <1>7, <1>8, <1>9, <1>10, <1>11, <1>12, <1>13, <1>14, <1>15
     DEF Next, RxStep, TxStep

LEMMA InvariantHolds == Spec => []IInv
<1>1. Init => IInv
  <2>1. (NSlabs - 4) * SlabSize + SlabSize + SlabSize = (NSlabs - 2) * SlabSize
    BY SplitPortAssumption
  <2> QED
    BY <2>1, SplitPortAssumption
       DEF Init, IInv, TypeOK, Receiver, Transmitter, BuffersCirculate
<1>2. IInv /\ [Next]_vars => IInv'
  BY TypeStep, ReceiverStep, TransmitterStep, CirculateStep DEF IInv
<1> QED BY <1>1, <1>2, PTL DEF Spec

-----------------------------------------------------------------------------
(* No count leaves the capacity of what it counts: bcache_cons and          *)
(* bcache_cons_tx, which subtract without a check, never go below zero, for *)
(* every size of the pool, the slabs, the rings and the bursts that fits    *)
(* the contract of bcache_cons_check: a burst is no larger than a slab.     *)
THEOREM TypeCorrect == Spec => []TypeOK
<1>1. IInv => TypeOK
  BY DEF IInv
<1> QED BY <1>1, InvariantHolds, PTL

(* Whatever the two threads and the kernel do, in whatever order: buffers   *)
(* are neither lost nor duplicated, except for the packets without a queue. *)
THEOREM NoBufferLost == Spec => []BuffersCirculate
<1>1. IInv => BuffersCirculate
  BY DEF IInv
<1> QED BY <1>1, InvariantHolds, PTL

(* The comment of bcache_prod and bcache_prod_tx is right for a port of     *)
(* v6-multi-pool: when the slab traded in is full, an empty one is there.   *)
THEOREM EmptySlabGuaranteed == Spec => []EmptySlabLeft
<1> DEFINE Others == nConsTx + nProdTx + txq + (cq - returned) + forgotten
<1>1. ASSUME IInv, FillSize = SlabSize,
             \/ rxPc = "process" /\ processed < burst /\ nProd = SlabSize
             \/ returned < peeked /\ nProdTx = SlabSize
      PROVE  nSlabsAvailable < NSlabs - 4
  <2> USE SplitPortAssumption, <1>1 DEF IInv, TypeOK
  <2>1. nSlabsAvailable * SlabSize \in Int /\ (NSlabs - 4) * SlabSize \in Int
    OBVIOUS
  <2>2. (NSlabs - 2) * SlabSize = (NSlabs - 4) * SlabSize + SlabSize + SlabSize
    OBVIOUS
  <2>3. fq + (rx - processed) + nCons >= SlabSize
    BY DEF Receiver
  <2>4. fq + (rx - processed) + nCons + nProd + Others > SlabSize + SlabSize
    <3>1. CASE rxPc = "process" /\ processed < burst /\ nProd = SlabSize
      <4>1. fq + (rx - processed) + nCons > SlabSize
        BY <3>1 DEF Receiver
      <4>2. Others >= 0
        OBVIOUS
      <4> QED BY <3>1, <4>1, <4>2
    <3>2. CASE returned < peeked /\ nProdTx = SlabSize
      <4>1. Others > SlabSize
        BY <3>2
      <4> QED BY <2>3, <4>1
    <3> QED BY <3>1, <3>2
  <2>5. nSlabsAvailable * SlabSize < (NSlabs - 4) * SlabSize
    <3>1. nSlabsAvailable * SlabSize + (fq + (rx - processed) + nCons + nProd + Others)
          = (NSlabs - 2) * SlabSize
      BY <2>1 DEF BuffersCirculate
    <3>2. fq + (rx - processed) + nCons + nProd + Others \in Int
      OBVIOUS
    <3> HIDE DEF Others
    <3> QED BY <2>1, <2>2, <2>4, <3>1, <3>2
  <2> QED BY <2>5, FewerSlabs
<1>2. IInv => EmptySlabLeft
  BY <1>1 DEF EmptySlabLeft
<1> QED BY <1>2, InvariantHolds, PTL

(* With EnoughBuffers a thread that has used up its slab gets another one:  *)
(* neither thread of a port can be left waiting for buffers that nobody     *)
(* will give back.                                                          *)
THEOREM ThreadsSupplied == Spec => []NeverStarved
<1> DEFINE Slack == nProd + nProdTx + fq + (rx - processed)
<1>1. ASSUME IInv, EnoughBuffers, nCons = 0 \/ nConsTx = 0
      PROVE  nSlabsAvailable > 0
  <2> USE SplitPortAssumption, <1>1 DEF IInv, TypeOK
  <2>1. nSlabsAvailable * SlabSize \in Int /\ (NSlabs - 6) * SlabSize \in Int
    OBVIOUS
  <2>2. (NSlabs - 2) * SlabSize
        = (NSlabs - 6) * SlabSize + SlabSize + SlabSize + SlabSize + SlabSize
    OBVIOUS
  <2>3. fq + (rx - processed) <= SlabSize
    BY DEF Receiver
  <2>4. Slack <= SlabSize + SlabSize + SlabSize /\ Slack \in Int
    BY <2>3
  <2>5. nCons + nConsTx <= SlabSize
    OBVIOUS
  <2>6. txq + (cq - returned) <= TxSize + CompSize
    OBVIOUS
  <2>7. nSlabsAvailable * SlabSize > 0
    <3>1. nSlabsAvailable * SlabSize + Slack + (nCons + nConsTx)
            + (txq + (cq - returned)) + forgotten = (NSlabs - 2) * SlabSize
      BY <2>1 DEF BuffersCirculate
    <3> HIDE DEF Slack
    <3> QED BY <2>1, <2>2, <2>4, <2>5, <2>6, <3>1 DEF EnoughBuffers
  <2>8. 0 * SlabSize = 0
    OBVIOUS
  <2> QED BY <2>7, <2>8, FewerSlabs
<1>2. IInv => NeverStarved
  BY <1>1 DEF NeverStarved
<1> QED BY <1>2, InvariantHolds, PTL
=============================================================================
