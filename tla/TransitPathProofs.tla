------------------------- MODULE TransitPathProofs -------------------------
(***************************************************************************)
(* The invariants of TransitPath, for every size of slabs, rings, bursts   *)
(* and queues, and of TransitTokens, for any number of receive threads.    *)
(*                                                                         *)
(* Until when the buffer of a packet is intact depends on where the buffer *)
(* goes.  Number the packets of the port.  Each buffer in the receive      *)
(* ring, the fill ring and the two slabs of the receive thread then        *)
(* belongs to one packet number: the packet it holds, or the one it will   *)
(* receive.  A buffer keeps its number while it moves from slab_cons to    *)
(* the fill ring, to the receive ring and to slab_prod, and only gets      *)
(* another one on its way through the pool.  The new one is at least       *)
(* 2 * SlabSize higher, unless the transmit thread had the buffer, and     *)
(* wrote to it, in between.                                                *)
(***************************************************************************)
EXTENDS MCTransitPath, DataLemmas

-----------------------------------------------------------------------------
(* The inductive invariant *)

Entries == [addr : Buffers, packet : Nat]

TypeOK ==
  /\ pool \in Seq(Seq(Buffers))
  /\ slabCons \in Seq(Buffers) /\ slabProd \in Seq(Buffers)
  /\ slabConsTx \in Seq(Buffers) /\ slabProdTx \in Seq(Buffers) /\ sending \in Seq(Buffers)
  /\ fq \in Seq(Buffers) /\ rx \in Seq(Buffers)
  /\ content \in [Buffers -> Nat] /\ received \in Nat
  /\ rxPc \in {"check", "peek", "process", "back"} /\ burst \in Nat /\ processed \in Nat
  /\ txPc \in {"check", "complete", "send"} /\ txBurst \in Nat /\ lastTaken \in Int
  /\ queue \in Seq(Entries) /\ collected \in Seq(Entries)
  /\ destPc \in {"pull", "copy"}

(* What the receive thread knows of its rings and slabs.  What is missing   *)
(* in slab_cons of a multiple of a slab is in slab_prod, but for the        *)
(* buffers of the burst that the fill ring does not have yet: so when       *)
(* slab_prod is full, slab_cons is, too, and the burst has just begun.      *)
Receiver ==
  /\ Len(fq) + Len(rx) = SlabSize /\ Len(rx) <= RxSize
  /\ processed <= burst /\ burst <= Len(slabCons)
  /\ rxPc # "peek" => burst <= Len(rx)
  /\ rxPc = "peek" => processed = 0
  /\ rxPc = "check" => burst = 0
  /\ rxPc = "back" => processed < burst
  /\ Len(slabProd) <= SlabSize /\ Len(slabCons) <= SlabSize
  /\ Len(slabProd) + Len(slabCons) - processed \in {0, SlabSize, 2 * SlabSize}
  /\ Len(rx) <= received
  /\ \A i \in 1..Len(pool) : Len(pool[i]) = SlabSize

\* What the transmit thread of the port knows of its slabs
Sender ==
  /\ txBurst <= Len(slabConsTx) /\ Len(slabProdTx) <= SlabSize
  /\ txPc # "check" => txBurst > 0

\* Packets whose place in the receive ring has been released
Released == received - Len(rx)

\* Buffer a is entry x of slab k of the pool, or belongs to packet x if k is 0.
\* The places of the transmit thread are -1, -2 and -3.
IsAt(K, X, a, k, x) == K[a] = k /\ X[a] = x

PlacedRx(K, X) ==
  /\ \A i \in 1..Len(fq) : IsAt(K, X, fq[i], 0, received + i)
  /\ \A i \in (processed + 1)..Len(rx) : IsAt(K, X, rx[i], 0, Released + i)
  /\ \A i \in 1..Len(slabProd) :
       IsAt(K, X, slabProd[i], 0, Released + processed - Len(slabProd) + i)
  /\ \A i \in 1..Len(slabCons) :
       IsAt(K, X, slabCons[i], 0, Released + SlabSize + Len(slabCons) + 1 - i)

PlacedPool(K, X) ==
  \A k \in 1..Len(pool) : \A i \in 1..SlabSize : IsAt(K, X, pool[k][i], k, i)

PlacedTx(K, X) ==
  /\ \A i \in 1..Len(slabConsTx) : IsAt(K, X, slabConsTx[i], -1, i)
  /\ \A i \in 1..Len(sending) : IsAt(K, X, sending[i], -2, i)
  /\ \A i \in 1..Len(slabProdTx) : IsAt(K, X, slabProdTx[i], -3, i)

(* How old the packets in the buffers are.  Those that the transmit thread  *)
(* has written to hold none of this port.                                  *)
Aged(K, X) ==
  \A a \in Buffers :
    LET c == content[a]
    IN  /\ c <= received
        /\ K[a] = 0 => c = 0 \/ c = X[a] \/ c + 2 * SlabSize < X[a]
        /\ K[a] > 0 => c = 0 \/ c + X[a] <= Released + Len(slabCons)
        /\ K[a] < -1 => c = 0

\* The receive ring holds the packets in the order of their numbers.
InOrder ==
  \A i \in (processed + 1)..Len(rx) : content[rx[i]] = Released + i

Located(K, X) ==
  /\ K \in [Buffers -> Int] /\ X \in [Buffers -> Int]
  /\ PlacedRx(K, X) /\ PlacedPool(K, X) /\ PlacedTx(K, X) /\ Aged(K, X)
Port == Receiver /\ Sender /\ InOrder /\ \E K, X : Located(K, X)

(* A packet that waits was received, and its buffer is the one being given  *)
(* back, or in the producer slab, or has been traded for.  The transmit     *)
(* thread does not have it if it has taken no slab since.                   *)
Base == GivenBack - Len(slabProd)
Untaken(e) == e.packet > lastTaken => \A i \in 1..Len(slabConsTx) : slabConsTx[i] # e.addr
Held(e) ==
  e.packet > Base =>
    /\ Intact(e)
    /\ e.packet <= GivenBack => e.addr = slabProd[e.packet - Base]
    /\ e.packet > GivenBack => e.addr = Current
Late(e) == e.packet > lastTaken /\ received - e.packet <= 2 * SlabSize => Intact(e)

Waits(e) == 0 < e.packet /\ e.packet <= Done /\ Untaken(e) /\ Held(e) /\ Late(e)
Waiters == lastTaken <= Done /\ \A e \in Waiting : Waits(e)

\* The transmit thread of the destination copies what it has collected.
Collector == destPc = "copy" => collected # <<>>

IInv == TypeOK /\ Port /\ Waiters /\ Collector

-----------------------------------------------------------------------------
(* Lengths and elements of the sequences the operations build *)

\* Tail, as HeadTailProperties states it, with its first element
LEMMA Shifted ==
  ASSUME NEW T, NEW q \in Seq(T), q # <<>>
  PROVE  /\ Tail(q) \in Seq(T) /\ Len(Tail(q)) = Len(q) - 1 /\ Len(q) \in Nat \ {0}
         /\ Head(q) = q[1] /\ q[1] \in T
         /\ \A i \in 1..(Len(q) - 1) : Tail(q)[i] = q[i + 1]
<1>1. Len(q) \in Nat \ {0} /\ Head(q) = q[1]
  BY EmptySeq
<1>2. /\ Tail(q) \in Seq(T) /\ Len(Tail(q)) = Len(q) - 1 /\ Head(q) \in T
      /\ \A i \in 1..Len(Tail(q)) : Tail(q)[i] = q[i + 1]
  BY HeadTailProperties
<1> QED BY <1>1, <1>2

\* The last n elements in reverse order
LEMMA Reversed ==
  ASSUME NEW T, NEW q \in Seq(T), NEW n \in 0..Len(q)
  PROVE  LET r == Reverse(SubSeq(q, Len(q) - n + 1, Len(q)))
         IN  /\ r \in Seq(T) /\ Len(r) = n
             /\ \A i \in 1..n : r[i] = q[Len(q) + 1 - i]
<1> DEFINE m == Len(q) - n + 1
           u == SubSeq(q, m, Len(q))
           r == Reverse(u)
<1>1. Len(q) \in Nat /\ \A i \in m..Len(q) : q[i] \in T
  BY LenProperties
<1>2. /\ u \in Seq(T) /\ Len(u) = n
      /\ \A i \in 1..n : u[i] = q[m + i - 1]
  BY <1>1, SubSeqProperties
<1>3. \A i \in 1..n : u[n - i + 1] \in T /\ u[n - i + 1] = q[Len(q) + 1 - i]
  BY <1>1, <1>2
<1>4. r = [i \in 1..n |-> u[n - i + 1]]
  BY <1>2 DEF Reverse
<1> HIDE DEF r, u
<1>5. r \in [1..n -> T] /\ \A i \in 1..n : r[i] = q[Len(q) + 1 - i]
  BY <1>3, <1>4
<1>6. r \in Seq(T) /\ Len(r) = n
  BY <1>5
<1> QED BY <1>5, <1>6 DEF r, u

\* The first n elements, and those after them
LEMMA Split ==
  ASSUME NEW T, NEW q \in Seq(T), NEW n \in 0..Len(q)
  PROVE  /\ SubSeq(q, 1, n) \in Seq(T) /\ Len(SubSeq(q, 1, n)) = n
         /\ \A i \in 1..n : SubSeq(q, 1, n)[i] = q[i]
         /\ SubSeq(q, n + 1, Len(q)) \in Seq(T) /\ Len(SubSeq(q, n + 1, Len(q))) = Len(q) - n
         /\ \A i \in 1..(Len(q) - n) : SubSeq(q, n + 1, Len(q))[i] = q[n + i]
<1>1. Len(q) \in Nat /\ \A i \in 1..Len(q) : q[i] \in T
  BY LenProperties
<1>2. \A i \in 1..n : q[i] \in T
  BY <1>1
<1>3. \A i \in (n + 1)..Len(q) : q[i] \in T
  BY <1>1
<1>4. /\ SubSeq(q, 1, n) \in Seq(T) /\ Len(SubSeq(q, 1, n)) = n
      /\ \A i \in 1..n : SubSeq(q, 1, n)[i] = q[i]
  BY <1>1, <1>2, SubSeqProperties
<1>5. /\ SubSeq(q, n + 1, Len(q)) \in Seq(T) /\ Len(SubSeq(q, n + 1, Len(q))) = Len(q) - n
      /\ \A i \in 1..(Len(q) - n) : SubSeq(q, n + 1, Len(q))[i] = q[(n + 1) + i - 1]
  BY <1>1, <1>3, SubSeqProperties
<1> QED BY <1>4, <1>5, <1>1

\* The last element taken off
LEMMA Unstacked ==
  ASSUME NEW T, NEW q \in Seq(T), q # <<>>
  PROVE  /\ Front(q) \in Seq(T) /\ Len(Front(q)) = Len(q) - 1 /\ Len(q) \in Nat \ {0}
         /\ Last(q) = q[Len(q)] /\ q[Len(q)] \in T
         /\ \A i \in 1..(Len(q) - 1) : Front(q)[i] = q[i]
<1>1. Len(q) \in Nat \ {0}
  BY EmptySeq
<1>2. PICK n \in 0..Len(q) : n = Len(q) - 1
  BY SMTT(60), <1>1
<1>3. /\ SubSeq(q, 1, n) \in Seq(T) /\ Len(SubSeq(q, 1, n)) = n
      /\ \A i \in 1..n : SubSeq(q, 1, n)[i] = q[i]
  BY Split
<1> QED BY <1>1, <1>2, <1>3 DEF Front, Last

-----------------------------------------------------------------------------
(* Types *)

\* Lengths and counts are numbers.
LEMMA Lengths ==
  ASSUME TypeOK
  PROVE  /\ Len(pool) \in Nat /\ Len(slabCons) \in Nat /\ Len(slabProd) \in Nat
         /\ Len(slabConsTx) \in Nat /\ Len(slabProdTx) \in Nat /\ Len(sending) \in Nat
         /\ Len(fq) \in Nat /\ Len(rx) \in Nat
         /\ Len(queue) \in Nat /\ Len(collected) \in Nat
         /\ received \in Nat /\ burst \in Nat /\ processed \in Nat /\ txBurst \in Nat
  BY DEF TypeOK

\* The constants the bounds are about
LEMMA Sizes ==
  /\ SlabSize \in Nat \ {0} /\ RxSize \in Nat \ {0} /\ QueueSize \in Nat \ {0}
  /\ MaxBurstRx \in Nat \ {0} /\ MaxBurstTx \in Nat \ {0}
  /\ MaxBurstRx <= SlabSize /\ MaxBurstTx <= SlabSize
  BY TransitAssumption

\* The packet being processed is in the receive ring.
LEMMA CurrentBuffer ==
  ASSUME TypeOK, Receiver, rxPc # "peek", processed < burst
  PROVE  /\ Current \in Buffers /\ Current = rx[processed + 1]
         /\ processed + 1 \in 1..Len(rx)
<1>1. processed \in Nat /\ burst \in Nat /\ Len(rx) \in Nat /\ burst <= Len(rx)
  BY Lengths DEF TypeOK, Receiver
<1>2. processed + 1 \in 1..Len(rx)
  BY <1>1
<1>3. rx \in Seq(Buffers)
  BY DEF TypeOK
<1> QED BY <1>2, <1>3 DEF Current

\* The last buffer of a slab in use
LEMMA LastBuffer ==
  ASSUME NEW T, NEW q \in Seq(T), NEW n \in Nat, n > 0, n <= Len(q)
  PROVE  q # <<>>
<1>1. Len(q) \in Nat /\ Len(q) # 0
  OBVIOUS
<1> QED BY <1>1

\* All slabs consist of buffers of the pool.
LEMMA SlabBuffers ==
  ASSUME NEW k \in 0..(PoolSlabs + 1), NEW i \in 1..SlabSize
  PROVE  k * SlabSize + i \in Buffers
<1>2. k * SlabSize \in Nat
  BY TransitAssumption
<1>3. (PoolSlabs + 2) * SlabSize \in Nat
  BY TransitAssumption
<1>4. k * SlabSize + SlabSize <= (PoolSlabs + 2) * SlabSize
  <2>1. (PoolSlabs + 2) * SlabSize = k * SlabSize + SlabSize + (PoolSlabs + 1 - k) * SlabSize
    BY TransitAssumption
  <2>2. (PoolSlabs + 1 - k) * SlabSize \in Nat
    BY TransitAssumption
  <2> QED BY <1>2, <2>1, <2>2, TransitAssumption
<1> QED BY <1>2, <1>3, <1>4, TransitAssumption DEF Buffers

\* The initial state has the types of TypeOK.
LEMMA TypeInit == Init => TypeOK
<1> SUFFICES ASSUME Init PROVE TypeOK
  OBVIOUS
<1>1. \A k \in 0..(PoolSlabs + 1) : \A i \in 1..SlabSize : k * SlabSize + i \in Buffers
  BY SlabBuffers
<1>2. \A k \in 0..(PoolSlabs + 1) : Slab(k) \in Seq(Buffers)
  <2> HIDE DEF Buffers
  <2> SUFFICES ASSUME NEW k \in 0..(PoolSlabs + 1) PROVE Slab(k) \in Seq(Buffers)
    OBVIOUS
  <2>1. \A i \in 1..SlabSize : k * SlabSize + i \in Buffers
    BY <1>1
  <2>2. Slab(k) \in [1..SlabSize -> Buffers]
    BY <2>1 DEF Slab
  <2> QED BY <2>2, Sizes
<1>3. [i \in 1..PoolSlabs |-> Slab(i)] \in Seq(Seq(Buffers))
  <2>1. \A i \in 1..PoolSlabs : Slab(i) \in Seq(Buffers)
    BY <1>2, TransitAssumption
  <2> HIDE DEF Slab, Buffers
  <2> QED BY SMTT(60), <2>1, TransitAssumption
<1>4. Slab(0) \in Seq(Buffers) /\ Slab(PoolSlabs + 1) \in Seq(Buffers)
  BY <1>2, TransitAssumption
<1> HIDE DEF Slab, Buffers, Entries
<1>5. pool \in Seq(Seq(Buffers)) /\ fq \in Seq(Buffers) /\ slabConsTx \in Seq(Buffers)
  BY <1>3, <1>4 DEF Init
<1>6. \A T : <<>> \in Seq(T)
  BY EmptySeq
<1>7. /\ slabCons \in Seq(Buffers) /\ slabProd \in Seq(Buffers) /\ rx \in Seq(Buffers)
      /\ slabProdTx \in Seq(Buffers) /\ sending \in Seq(Buffers)
      /\ queue \in Seq(Entries) /\ collected \in Seq(Entries)
  BY <1>6 DEF Init
<1>8. content \in [Buffers -> Nat]
  BY DEF Init
<1> QED BY <1>5, <1>7, <1>8 DEF Init, TypeOK

\* A slab taken off the pool
LEMMA SlabTaken ==
  ASSUME TypeOK, pool # <<>>
  PROVE  /\ Last(pool) \in Seq(Buffers) /\ Front(pool) \in Seq(Seq(Buffers))
         /\ Len(pool) \in Nat \ {0} /\ Len(Front(pool)) = Len(pool) - 1
         /\ Last(pool) = pool[Len(pool)]
         /\ \A k \in 1..(Len(pool) - 1) : Front(pool)[k] = pool[k]
<1> DEFINE T == Seq(Buffers)
<1>1. pool \in Seq(T)
  BY DEF TypeOK
<1> HIDE DEF T
<1>2. /\ Front(pool) \in Seq(T) /\ Len(Front(pool)) = Len(pool) - 1 /\ Len(pool) \in Nat \ {0}
      /\ Last(pool) = pool[Len(pool)] /\ pool[Len(pool)] \in T
      /\ \A i \in 1..(Len(pool) - 1) : Front(pool)[i] = pool[i]
  BY <1>1, Unstacked
<1> QED BY <1>2 DEF T

\* A slab put on the pool
LEMMA SlabReturned ==
  ASSUME TypeOK, NEW q \in Seq(Buffers)
  PROVE  /\ Append(pool, q) \in Seq(Seq(Buffers)) /\ Len(Append(pool, q)) = Len(pool) + 1
         /\ Append(pool, q)[Len(pool) + 1] = q
         /\ \A k \in 1..Len(pool) : Append(pool, q)[k] = pool[k]
<1> DEFINE T == Seq(Buffers)
<1>1. pool \in Seq(T) /\ q \in T
  BY DEF TypeOK
<1> HIDE DEF T
<1>2. /\ Append(pool, q) \in Seq(T) /\ Len(Append(pool, q)) = Len(pool) + 1
      /\ Append(pool, q)[Len(pool) + 1] = q
      /\ \A k \in 1..Len(pool) : Append(pool, q)[k] = pool[k]
  BY <1>1, AppendProperties
<1> QED BY <1>2 DEF T

\* So does the state after a packet was received,
LEMMA TypeReceive ==
  ASSUME TypeOK, KernelReceive
  PROVE  TypeOK'
<1> HIDE DEF Buffers, Entries
<1>1. fq \in Seq(Buffers) /\ fq # <<>> /\ rx \in Seq(Buffers)
  BY DEF KernelReceive, TypeOK
<1>2. Head(fq) \in Buffers /\ Tail(fq) \in Seq(Buffers)
  BY <1>1, Shifted
<1>3. Append(rx, Head(fq)) \in Seq(Buffers)
  BY <1>1, <1>2
<1>4. content' \in [Buffers -> Nat] /\ received' \in Nat
  BY <1>2 DEF KernelReceive, TypeOK
<1>5. UNCHANGED <<pool, slabCons, slabProd, rxPc, burst, processed, txSide, destination>>
  BY DEF KernelReceive
<1> QED BY <1>2, <1>3, <1>4, <1>5 DEF TypeOK, KernelReceive, txSide, destination

\* after a step of the receive thread,
LEMMA TypeReceiver ==
  ASSUME TypeOK, Receiver, RxStep
  PROVE  TypeOK'
<1> HIDE DEF Buffers, Entries
<1>1. CASE RxCheck
  <2>1. AtMost(Len(slabCons), MaxBurstRx) \in Nat
    BY Lengths, Sizes DEF AtMost
  <2>2. burst' \in Nat /\ slabCons' \in Seq(Buffers) /\ pool' \in Seq(Seq(Buffers))
    <3>1. CASE slabCons # <<>>
      BY <1>1, <2>1, <3>1 DEF RxCheck, TypeOK
    <3>2. CASE slabCons = <<>>
      BY <1>1, <3>2, SlabTaken, Sizes DEF RxCheck
    <3> QED BY <3>1, <3>2
  <2> QED BY <1>1, <2>2 DEF TypeOK, RxCheck, txSide, destination
<1>2. CASE RxPeek
  <2>1. AtMost(burst, Len(rx)) \in Nat
    BY Lengths DEF AtMost, TypeOK
  <2> QED BY <1>2, <2>1 DEF TypeOK, RxPeek, txSide, destination
<1>3. CASE RxDrop
  BY <1>3 DEF TypeOK, RxDrop, txSide, destination
<1>4. CASE RxQueue
  <2>1. Current \in Buffers
    BY <1>4, CurrentBuffer DEF RxQueue
  <2>2. Entry \in Entries
    BY <2>1 DEF Entry, Entries, TypeOK
  <2>3. queue' \in Seq(Entries)
    BY <1>4, <2>2 DEF TypeOK, RxQueue
  <2> QED BY <1>4, <2>3 DEF TypeOK, RxQueue, txSide
<1>5. CASE RxGiveBack
  <2>1. Current \in Buffers
    BY <1>5, CurrentBuffer DEF RxGiveBack, Receiver
  <2>2. Append(slabProd, Current) \in Seq(Buffers) /\ <<Current>> \in Seq(Buffers)
    BY <2>1 DEF TypeOK
  <2>3. Append(pool, slabProd) \in Seq(Seq(Buffers))
    BY SlabReturned DEF TypeOK
  <2>4. slabProd' \in Seq(Buffers) /\ pool' \in Seq(Seq(Buffers))
    BY <1>5, <2>2, <2>3 DEF TypeOK, RxGiveBack
  <2>5. processed' \in Nat
    BY <1>5 DEF TypeOK, RxGiveBack
  <2> QED BY <1>5, <2>4, <2>5 DEF TypeOK, RxGiveBack, txSide, destination
<1>6. CASE RxRefill
  <2> DEFINE r == Reverse(SubSeq(slabCons, Len(slabCons) - burst + 1, Len(slabCons)))
  <2>1. /\ burst \in 0..Len(slabCons) /\ burst \in 0..Len(rx)
        /\ slabCons \in Seq(Buffers) /\ rx \in Seq(Buffers) /\ fq \in Seq(Buffers)
    BY <1>6, Lengths DEF Receiver, RxRefill, TypeOK
  <2>2. r \in Seq(Buffers)
    BY <2>1, Reversed
  <2>3. fq \o r \in Seq(Buffers)
    <3> HIDE DEF r
    <3> QED BY <2>1, <2>2, ConcatProperties
  <2>4. SubSeq(rx, burst + 1, Len(rx)) \in Seq(Buffers)
    BY <2>1, Split
  <2>5. SubSeq(slabCons, 1, Len(slabCons) - burst) \in Seq(Buffers)
    <3>1. Len(slabCons) - burst \in 0..Len(slabCons)
      BY <2>1
    <3> QED BY <2>1, <3>1, Split
  <2> QED BY <1>6, <2>3, <2>4, <2>5 DEF TypeOK, RxRefill, txSide, destination
<1> QED BY <1>1, <1>2, <1>3, <1>4, <1>5, <1>6 DEF RxStep

\* after a step of the transmit thread of the port,
LEMMA TypeSender ==
  ASSUME TypeOK, Receiver, Sender, TxStep
  PROVE  TypeOK'
<1> HIDE DEF Buffers, Entries
<1>1. CASE TxCheck
  <2>1. txBurst' \in Nat /\ txPc' \in {"check", "complete"}
    <3>1. PICK m \in Nat : TxCollect(m)
      <4>1. AtMost(Len(slabConsTx), MaxBurstTx) \in Nat /\ MaxBurstTx \in Nat
        BY Lengths, Sizes DEF AtMost
      <4> QED BY <1>1, <4>1 DEF TxCheck
    <3> QED BY <3>1 DEF TxCollect
  <2>2. Done \in Int
    BY Lengths DEF Done, GivenBack, TypeOK
  <2>3. slabConsTx' \in Seq(Buffers) /\ pool' \in Seq(Seq(Buffers)) /\ lastTaken' \in Int
    <3>1. CASE slabConsTx # <<>>
      BY <1>1, <3>1 DEF TxCheck, TypeOK
    <3>2. CASE slabConsTx = <<>>
      BY <1>1, <2>2, <3>2, SlabTaken DEF TxCheck
    <3> QED BY <3>1, <3>2
  <2> QED BY <1>1, <2>1, <2>3 DEF TypeOK, TxCheck, rxSide, destination
<1>2. CASE TxComplete
  <2>1. sending \in Seq(Buffers) /\ sending # <<>> /\ slabProdTx \in Seq(Buffers)
    BY <1>2 DEF TxComplete, TypeOK
  <2>2. Head(sending) \in Buffers /\ Tail(sending) \in Seq(Buffers)
    BY <2>1, Shifted
  <2>3. Append(slabProdTx, Head(sending)) \in Seq(Buffers) /\ <<Head(sending)>> \in Seq(Buffers)
    BY <2>1, <2>2
  <2>4. Append(pool, slabProdTx) \in Seq(Seq(Buffers))
    BY <2>1, SlabReturned
  <2>5. slabProdTx' \in Seq(Buffers) /\ pool' \in Seq(Seq(Buffers))
    BY <1>2, <2>3, <2>4 DEF TypeOK, TxComplete
  <2> QED BY <1>2, <2>2, <2>5 DEF TypeOK, TxComplete, rxSide, destination
<1>3. CASE TxSend
  <2>1. slabConsTx \in Seq(Buffers) /\ slabConsTx # <<>> /\ sending \in Seq(Buffers)
    BY <1>3, Lengths, LastBuffer DEF TxSend, Sender, TypeOK
  <2>2. Last(slabConsTx) \in Buffers /\ Front(slabConsTx) \in Seq(Buffers)
    BY <2>1, Unstacked
  <2>3. sending' \in Seq(Buffers)
    BY <1>3, <2>1, <2>2 DEF TxSend
  <2>4. content' \in [Buffers -> Nat]
    BY <1>3, <2>2 DEF TxSend, TypeOK
  <2>5. txBurst' \in Nat /\ txPc' \in {"check", "send"}
    BY <1>3 DEF TxSend, Sender, TypeOK
  <2> QED BY <1>3, <2>2, <2>3, <2>4, <2>5 DEF TypeOK, TxSend, rxSide, destination
<1> QED BY <1>1, <1>2, <1>3 DEF TxStep

\* and after a step of the transmit thread of the destination.
LEMMA TypeDestination ==
  ASSUME TypeOK, Collector, DestStep
  PROVE  TypeOK'
<1> HIDE DEF Buffers, Entries
<1>1. CASE DestPull
  <2>1. queue \in Seq(Entries) /\ queue # <<>> /\ collected \in Seq(Entries)
    BY <1>1 DEF TypeOK, DestPull
  <2>2. Head(queue) \in Entries /\ Tail(queue) \in Seq(Entries)
    BY <2>1, Shifted
  <2>3. Append(collected, Head(queue)) \in Seq(Entries)
    BY <2>1, <2>2
  <2> QED BY <1>1, <2>2, <2>3 DEF TypeOK, DestPull, rxSide, txSide
<1>2. CASE DestStart
  BY <1>2 DEF TypeOK, DestStart, rxSide, txSide
<1>3. CASE DestCopy
  <2>1. Tail(collected) \in Seq(Entries)
    BY <1>3, Shifted DEF TypeOK, DestCopy, Collector
  <2> QED BY <1>3, <2>1 DEF TypeOK, DestCopy, rxSide, txSide
<1> QED BY <1>1, <1>2, <1>3 DEF DestStep

\* Numbers, sequences of buffers, and their elements
LEMMA PortTypes ==
  ASSUME TypeOK
  PROVE  /\ received \in Nat /\ burst \in Nat /\ processed \in Nat /\ txBurst \in Nat
         /\ pool \in Seq(Seq(Buffers)) /\ content \in [Buffers -> Nat]
         /\ slabCons \in Seq(Buffers) /\ slabProd \in Seq(Buffers)
         /\ slabConsTx \in Seq(Buffers) /\ slabProdTx \in Seq(Buffers)
         /\ sending \in Seq(Buffers) /\ fq \in Seq(Buffers) /\ rx \in Seq(Buffers)
         /\ Len(pool) \in Nat /\ Len(slabCons) \in Nat /\ Len(slabProd) \in Nat
         /\ Len(slabConsTx) \in Nat /\ Len(slabProdTx) \in Nat /\ Len(sending) \in Nat
         /\ Len(fq) \in Nat /\ Len(rx) \in Nat
         /\ \A i \in 1..Len(slabCons) : slabCons[i] \in Buffers
         /\ \A i \in 1..Len(slabProd) : slabProd[i] \in Buffers
         /\ \A i \in 1..Len(slabConsTx) : slabConsTx[i] \in Buffers
         /\ \A i \in 1..Len(slabProdTx) : slabProdTx[i] \in Buffers
         /\ \A i \in 1..Len(sending) : sending[i] \in Buffers
         /\ \A i \in 1..Len(fq) : fq[i] \in Buffers
         /\ \A i \in 1..Len(rx) : rx[i] \in Buffers
         /\ \A k \in 1..Len(pool) : pool[k] \in Seq(Buffers)
<1> HIDE DEF Buffers
<1>1. /\ received \in Nat /\ burst \in Nat /\ processed \in Nat /\ txBurst \in Nat
      /\ pool \in Seq(Seq(Buffers)) /\ content \in [Buffers -> Nat]
      /\ slabCons \in Seq(Buffers) /\ slabProd \in Seq(Buffers)
      /\ slabConsTx \in Seq(Buffers) /\ slabProdTx \in Seq(Buffers)
      /\ sending \in Seq(Buffers) /\ fq \in Seq(Buffers) /\ rx \in Seq(Buffers)
  BY DEF TypeOK
<1>2. ASSUME NEW T, NEW q \in Seq(T)
      PROVE  Len(q) \in Nat /\ \A i \in 1..Len(q) : q[i] \in T
  OBVIOUS
<1>3. Len(pool) \in Nat /\ \A k \in 1..Len(pool) : pool[k] \in Seq(Buffers)
  BY <1>1, <1>2
<1> QED BY <1>1, <1>2, <1>3

-----------------------------------------------------------------------------
(* The buffers of a port *)

\* Initially, each slab is at its place, and no packet was received.
LEMMA PortInit == Init => Port
<1> SUFFICES ASSUME Init PROVE Port
  OBVIOUS
<1>1. /\ pool = [i \in 1..PoolSlabs |-> Slab(i)] /\ fq = Slab(0)
      /\ slabCons = <<>> /\ slabProd = <<>> /\ rx = <<>>
      /\ content = [b \in Buffers |-> 0] /\ received = 0
      /\ rxPc = "check" /\ burst = 0 /\ processed = 0
      /\ slabConsTx = Slab(PoolSlabs + 1) /\ slabProdTx = <<>> /\ sending = <<>>
      /\ txPc = "check" /\ txBurst = 0
  BY DEF Init
<1>2. /\ Len(pool) = PoolSlabs /\ Len(fq) = SlabSize /\ Len(slabConsTx) = SlabSize
      /\ \A k \in 1..PoolSlabs : pool[k] = Slab(k)
      /\ \A k \in 0..(PoolSlabs + 1) : Len(Slab(k)) = SlabSize
  BY <1>1, TransitAssumption DEF Slab
<1>3. /\ Len(slabCons) = 0 /\ Len(slabProd) = 0 /\ Len(rx) = 0
      /\ Len(slabProdTx) = 0 /\ Len(sending) = 0
  BY <1>1
<1>4. Receiver /\ Sender
  BY <1>1, <1>2, <1>3, Sizes, TransitAssumption DEF Receiver, Sender
<1>5. InOrder
  BY <1>1, <1>3 DEF InOrder
<1> DEFINE I == [a \in Buffers |-> (a - 1) \div SlabSize]
           X == [a \in Buffers |-> ((a - 1) % SlabSize) + 1]
           K == [a \in Buffers |-> IF I[a] = PoolSlabs + 1 THEN -1 ELSE I[a]]
<1>6. ASSUME NEW k \in 0..(PoolSlabs + 1), NEW i \in 1..SlabSize
      PROVE  Slab(k)[i] \in Buffers /\ I[Slab(k)[i]] = k /\ X[Slab(k)[i]] = i
  <2> DEFINE a == k * SlabSize + i
  <2>1. Slab(k)[i] = a /\ a \in Int /\ a - 1 = SlabSize * k + (i - 1) /\ i - 1 \in 0..(SlabSize - 1)
    BY Sizes, TransitAssumption DEF Slab
  <2> HIDE DEF a
  <2>2. (a - 1) % SlabSize = i - 1
    <3>1. SlabSize \in Nat \ {0} /\ a - 1 \in Int /\ k \in Int
      BY <2>1, Sizes, TransitAssumption
    <3> QED BY <2>1, <3>1, Remainder
  <2>3. a - 1 = SlabSize * ((a - 1) \div SlabSize) + ((a - 1) % SlabSize) /\ (a - 1) \div SlabSize \in Int
    BY <2>1, Sizes, Division
  <2> DEFINE d == (a - 1) \div SlabSize
  <2>4. SlabSize * (d - k) = 0
    <3>1. SlabSize * d = SlabSize * k /\ d \in Int
      BY <2>1, <2>2, <2>3, Sizes, TransitAssumption
    <3> HIDE DEF d
    <3>2. SlabSize * (d - k) = SlabSize * d - SlabSize * k
      BY <3>1, Sizes, TransitAssumption, Distributive
    <3>3. SlabSize * k \in Int
      BY Sizes, TransitAssumption, Distributive
    <3> QED BY <3>1, <3>2, <3>3
  <2>5. d = k
    <3>1. d \in Int
      BY <2>3
    <3> HIDE DEF d
    <3>2. d - k = 0
      BY <3>1, <2>4, Sizes, TransitAssumption, Product
    <3> QED BY <3>1, <3>2, TransitAssumption
  <2>6. a \in Buffers
    BY SlabBuffers DEF a
  <2> QED BY <2>1, <2>2, <2>5, <2>6
<1>t. /\ K \in [Buffers -> Int] /\ X \in [Buffers -> Int]
      /\ \A a \in Buffers : I[a] \in Int
  <2>1. ASSUME NEW a \in Buffers
        PROVE  (a - 1) \div SlabSize \in Int /\ ((a - 1) % SlabSize) + 1 \in Int
    <3>1. a - 1 \in Int
      BY DEF Buffers
    <3> QED BY <3>1, Sizes, Division
  <2> HIDE DEF Buffers
  <2> QED BY <2>1
<1>k. \A a \in Buffers : K[a] = IF I[a] = PoolSlabs + 1 THEN -1 ELSE I[a]
  OBVIOUS
<1> HIDE DEF K, X, I
<1>7. ASSUME NEW k \in 0..PoolSlabs, NEW i \in 1..SlabSize
      PROVE  IsAt(K, X, Slab(k)[i], k, i)
  <2>1. k # PoolSlabs + 1 /\ k \in 0..(PoolSlabs + 1)
    BY TransitAssumption
  <2> QED BY <1>6, <1>k, <2>1 DEF IsAt
<1>8. ASSUME NEW i \in 1..SlabSize
      PROVE  IsAt(K, X, Slab(PoolSlabs + 1)[i], -1, i)
  <2>1. PoolSlabs + 1 \in 0..(PoolSlabs + 1)
    BY TransitAssumption
  <2> QED BY <1>6, <1>k, <2>1 DEF IsAt
<1>9. PlacedRx(K, X)
  <2>1. \A i \in 1..SlabSize : IsAt(K, X, fq[i], 0, i)
    BY SMTT(60), <1>1, <1>7, TransitAssumption
  <2>3. \A i \in 1..Len(fq) : received + i = i
    BY <1>1, <1>2, Sizes
  <2>4. (processed + 1)..Len(rx) = {} /\ 1..Len(slabProd) = {} /\ 1..Len(slabCons) = {}
    BY <1>1, <1>3
  <2>5. 1..Len(fq) = 1..SlabSize
    BY <1>2
  <2> QED BY <2>1, <2>3, <2>4, <2>5 DEF PlacedRx
<1>10. PlacedPool(K, X)
  <2>2. \A k \in 1..PoolSlabs : \A i \in 1..SlabSize : IsAt(K, X, pool[k][i], k, i)
    BY <1>2, <1>7, TransitAssumption
  <2> QED BY <1>2, <2>2 DEF PlacedPool
<1>11. PlacedTx(K, X)
  <2>1. \A i \in 1..SlabSize : IsAt(K, X, slabConsTx[i], -1, i)
    BY <1>1, <1>8
  <2>2. 1..Len(slabProdTx) = {} /\ 1..Len(sending) = {} /\ 1..Len(slabConsTx) = 1..SlabSize
    BY <1>2, <1>3
  <2> QED BY <2>1, <2>2 DEF PlacedTx
<1>12. Aged(K, X)
  BY <1>1 DEF Aged
<1> QED BY <1>4, <1>5, <1>9, <1>10, <1>11, <1>12, <1>t DEF Port, Located

\* Steps that move no buffer
LEMMA BuffersKept ==
  ASSUME Port, Receiver', Sender',
         pool' = pool, slabCons' = slabCons, slabProd' = slabProd,
         fq' = fq, rx' = rx, content' = content,
         received' = received, processed' = processed,
         slabConsTx' = slabConsTx, slabProdTx' = slabProdTx, sending' = sending
  PROVE  Port'
<1>1. InOrder'
  BY DEF Port, InOrder, Released
<1>2. PICK K, X : Located(K, X)
  BY DEF Port
<1>3. PlacedRx(K, X)' /\ PlacedPool(K, X)' /\ PlacedTx(K, X)' /\ Aged(K, X)'
  BY <1>2 DEF Located, PlacedRx, PlacedPool, PlacedTx, Aged, Released
<1>4. Located(K, X)'
  BY <1>2, <1>3 DEF Located
<1> QED BY <1>1, <1>4 DEF Port

\* A step of the receive thread leaves the slabs of the transmit thread alone.
LEMMA SenderKept ==
  ASSUME Sender, UNCHANGED txSide
  PROVE  Sender' /\ slabConsTx' = slabConsTx /\ slabProdTx' = slabProdTx /\ sending' = sending
BY DEF Sender, txSide

\* The first buffer of the fill ring belongs to the packet that comes next.
LEMMA PortReceive ==
  ASSUME TypeOK, TypeOK', Port, KernelReceive
  PROVE  Port'
<1> DEFINE h == Head(fq)
<1> HIDE DEF Buffers
<1>0. /\ fq # <<>> /\ Len(rx) < RxSize
      /\ fq' = Tail(fq) /\ rx' = Append(rx, h)
  BY DEF KernelReceive
<1>1. /\ Len(fq') = Len(fq) - 1 /\ Len(fq) \in Nat \ {0}
      /\ h = fq[1] /\ h \in Buffers
      /\ \A i \in 1..(Len(fq) - 1) : fq'[i] = fq[i + 1]
  BY <1>0, PortTypes, Shifted
<1>2. /\ Len(rx') = Len(rx) + 1 /\ Len(rx) < RxSize
      /\ \A i \in 1..Len(rx) : rx'[i] = rx[i]
      /\ rx'[Len(rx) + 1] = h
  BY <1>0, <1>1, PortTypes, AppendProperties
<1>3. /\ received' = received + 1
      /\ content' = [content EXCEPT ![h] = received + 1]
      /\ pool' = pool /\ slabCons' = slabCons /\ slabProd' = slabProd
      /\ rxPc' = rxPc /\ burst' = burst /\ processed' = processed /\ UNCHANGED txSide
  BY DEF KernelReceive
<1>s. Sender' /\ slabConsTx' = slabConsTx /\ slabProdTx' = slabProdTx /\ sending' = sending
  BY <1>3, SenderKept DEF Port
<1> HIDE DEF h
<1>4. /\ received \in Nat /\ burst \in Nat /\ processed \in Nat
      /\ Len(rx) \in Nat /\ Len(slabCons) \in Nat /\ Len(slabProd) \in Nat
      /\ \A i \in 1..Len(rx) : rx[i] \in Buffers
      /\ content \in [Buffers -> Nat]
  BY PortTypes
<1>5. Receiver'
  <2>1. Receiver
    BY DEF Port
  <2>2. Len(fq') + Len(rx') = SlabSize /\ Len(rx') <= RxSize
    <3>1. /\ Len(rx') = Len(rx) + 1 /\ Len(fq') = Len(fq) - 1
          /\ Len(fq) \in Nat /\ Len(rx) \in Nat /\ Len(rx) < RxSize
      BY <1>1, <1>2, <1>4
    <3>2. Len(fq) + Len(rx) = SlabSize
      BY <2>1 DEF Receiver
    <3>3. PICK f \in Nat, r \in Nat : f = Len(fq) /\ r = Len(rx)
      BY <3>1
    <3>4. f + r = SlabSize /\ r < RxSize
      BY <3>1, <3>2, <3>3
    <3>5. (f - 1) + (r + 1) = SlabSize /\ r + 1 <= RxSize
      BY <3>4, Sizes
    <3>6. Len(fq') = f - 1 /\ Len(rx') = r + 1
      BY <3>1, <3>3
    <3> QED BY <3>5, <3>6
  <2> QED BY <1>2, <1>3, <1>4, <2>1, <2>2 DEF Receiver
<1>6. Released' = Released /\ Released = received - Len(rx)
  BY <1>2, <1>3, <1>4 DEF Released
<1>7. PICK K, X : Located(K, X)
  BY DEF Port
<1>8. IsAt(K, X, h, 0, received + 1)
  BY <1>1, <1>7 DEF Located, PlacedRx
<1>9. \A i \in (processed + 1)..Len(rx) : rx[i] # h
  BY SMTT(60), <1>4, <1>6, <1>7, <1>8 DEF Located, PlacedRx, IsAt
<1>10. InOrder'
  <2> SUFFICES ASSUME NEW i \in (processed + 1)..(Len(rx) + 1)
      PROVE content'[rx'[i]] = Released + i
    BY <1>2, <1>3, <1>6 DEF InOrder
  <2>1. CASE i = Len(rx) + 1
    BY <2>1, <1>1, <1>2, <1>3, <1>4, <1>6
  <2>2. CASE i <= Len(rx)
    <3>1. i \in 1..Len(rx) /\ i \in (processed + 1)..Len(rx)
      BY <2>2, <1>4
    <3>2. rx'[i] = rx[i] /\ rx[i] # h /\ rx[i] \in Buffers
      BY <3>1, <1>2, <1>4, <1>9
    <3>3. content[rx[i]] = Released + i
      BY <3>1 DEF Port, InOrder
    <3> QED BY <3>2, <3>3, <1>3, <1>4
  <2> QED BY <2>1, <2>2, <1>4
<1>11. PlacedRx(K, X)' /\ PlacedPool(K, X)' /\ PlacedTx(K, X)'
  <2>1. ASSUME NEW i \in 1..Len(fq')
        PROVE  IsAt(K, X, fq'[i], 0, received' + i)
    <3>1. i + 1 \in 1..Len(fq) /\ fq'[i] = fq[i + 1]
      BY <1>1
    <3>2. IsAt(K, X, fq[i + 1], 0, received + (i + 1))
      BY <3>1, <1>7 DEF Located, PlacedRx
    <3>3. received' + i = received + (i + 1)
      BY <1>1, <1>3, <1>4
    <3> QED BY <3>1, <3>2, <3>3
  <2>2. ASSUME NEW i \in (processed + 1)..Len(rx')
        PROVE  IsAt(K, X, rx'[i], 0, Released + i)
    <3>1. CASE i = Len(rx) + 1
      <4>1. Released + i = received + 1
        BY <3>1, <1>4, <1>6
      <4> QED BY <3>1, <4>1, <1>2, <1>8
    <3>2. CASE i <= Len(rx)
      <4>1. i \in 1..Len(rx) /\ i \in (processed + 1)..Len(rx)
        BY <3>2, <1>4
      <4> QED BY <4>1, <1>2, <1>7 DEF Located, PlacedRx
    <3> QED BY <3>1, <3>2, <1>2, <1>4
  <2>3. PlacedRx(K, X)'
    BY <1>3, <1>6, <1>7, <2>1, <2>2 DEF Located, PlacedRx
  <2>4. PlacedPool(K, X)' /\ PlacedTx(K, X)'
    BY <1>3, <1>s, <1>7 DEF Located, PlacedPool, PlacedTx
  <2> QED BY <2>3, <2>4
<1>12. Aged(K, X)'
  <2> SUFFICES ASSUME NEW a \in Buffers
      PROVE LET c == content'[a]
            IN  /\ c <= received'
                /\ K[a] = 0 => c = 0 \/ c = X[a] \/ c + 2 * SlabSize < X[a]
                /\ K[a] > 0 => c = 0 \/ c + X[a] <= Released + Len(slabCons)
                /\ K[a] < -1 => c = 0
    BY <1>3, <1>6 DEF Aged
  <2>1. CASE a = h
    BY <2>1, <1>1, <1>3, <1>4, <1>8 DEF IsAt
  <2>2. CASE a # h
    BY <2>2, <1>3, <1>4, <1>7 DEF Located, Aged
  <2> QED BY <2>1, <2>2
<1> QED BY <1>s, <1>5, <1>7, <1>10, <1>11, <1>12 DEF Port, Located

\* The receive thread looks for packets, drops or queues one.
LEMMA PortSameBuffers ==
  ASSUME TypeOK, TypeOK', Port, RxPeek \/ RxDrop \/ RxQueue
  PROVE  Port'
<1> HIDE DEF Buffers
<1>1. /\ pool' = pool /\ slabCons' = slabCons /\ slabProd' = slabProd
      /\ fq' = fq /\ rx' = rx /\ content' = content
      /\ received' = received /\ processed' = processed /\ UNCHANGED txSide
  BY DEF RxPeek, RxDrop, RxQueue
<1>2. Receiver
  BY DEF Port
<1>3. Receiver'
  <2>1. CASE RxPeek
    <3> DEFINE n == AtMost(burst, Len(rx))
    <3>1. n \in Nat /\ n <= burst /\ n <= Len(rx)
      BY SMTT(60), PortTypes DEF AtMost
    <3>2. /\ burst' = n /\ rxPc = "peek"
          /\ rxPc' = IF n = 0 THEN "check" ELSE "process"
      BY <2>1 DEF RxPeek
    <3> HIDE DEF n
    <3>3. processed = 0 /\ burst <= Len(slabCons)
      BY <1>2, <3>2 DEF Receiver
    <3>4. n <= Len(slabCons)
      BY <3>1, <3>3, PortTypes
    <3> QED BY <1>1, <1>2, <3>1, <3>2, <3>3, <3>4 DEF Receiver
  <2>2. CASE RxDrop \/ RxQueue
    <3>1. burst' = burst /\ processed < burst /\ rxPc = "process" /\ rxPc' = "back"
      BY <2>2 DEF RxDrop, RxQueue
    <3> QED BY <1>1, <1>2, <3>1 DEF Receiver
  <2> QED BY <2>1, <2>2
<1>4. Sender' /\ slabConsTx' = slabConsTx /\ slabProdTx' = slabProdTx /\ sending' = sending
  BY <1>1, SenderKept DEF Port
<1> QED BY <1>1, <1>3, <1>4, BuffersKept

\* A slab of the pool replaces slab_cons when that is empty.  Its buffers get
\* the packet numbers behind those of the fill ring.
LEMMA PortCheck ==
  ASSUME TypeOK, TypeOK', Port, RxCheck
  PROVE  Port'
<1> DEFINE n == Len(pool)
<1> HIDE DEF Buffers
<1>0. Receiver
  BY DEF Port
<1>1. /\ slabProd' = slabProd /\ fq' = fq /\ rx' = rx
      /\ content' = content /\ received' = received
      /\ processed' = processed
      /\ rxPc = "check" /\ rxPc' = "peek" /\ UNCHANGED txSide
  BY DEF RxCheck
<1>s. Sender' /\ slabConsTx' = slabConsTx /\ slabProdTx' = slabProdTx /\ sending' = sending
  BY <1>1, SenderKept DEF Port
<1>2. /\ received \in Nat /\ burst \in Nat /\ processed \in Nat
      /\ Len(fq) \in Nat /\ Len(rx) \in Nat /\ Len(slabProd) \in Nat
  BY PortTypes
<1>3. burst = 0 /\ processed = 0
  BY <1>0, <1>1, <1>2 DEF Receiver
<1>4. CASE pool' = pool /\ slabCons' = slabCons /\ burst' = AtMost(Len(slabCons), MaxBurstRx)
  <2>1. burst' \in Nat /\ burst' <= Len(slabCons)
    BY <1>4, Sizes, PortTypes DEF AtMost
  <2>2. Receiver'
    BY <1>0, <1>1, <1>3, <1>4, <2>1 DEF Receiver
  <2> QED BY <1>1, <1>s, <1>4, <2>2, BuffersKept
<1>5. CASE /\ slabCons = <<>> /\ pool # <<>> /\ burst' = MaxBurstRx
           /\ slabCons' = Last(pool) /\ pool' = Front(pool)
  <2>1. /\ Len(pool') = n - 1 /\ n \in Nat \ {0} /\ slabCons' = pool[n]
        /\ \A k \in 1..(n - 1) : pool'[k] = pool[k]
    BY <1>5, SlabTaken
  <2> HIDE DEF n
  <2>2. Len(slabCons) = 0 /\ Len(slabCons') = SlabSize
    <3>1. Len(slabCons) = 0
      BY <1>5
    <3>2. \A k \in 1..n : Len(pool[k]) = SlabSize
      BY <1>0 DEF Receiver, n
    <3> QED BY <2>1, <3>1, <3>2
  <2>3. Receiver'
    <3>1. \A k \in 1..Len(pool') : Len(pool'[k]) = SlabSize
      BY SMTT(60), <1>0, <2>1 DEF Receiver, n
    <3>2. Len(slabProd) + Len(slabCons') - processed \in {0, SlabSize, 2 * SlabSize}
      <4>1. Len(slabProd) \in {0, SlabSize, 2 * SlabSize} /\ Len(slabProd) <= SlabSize
        BY <1>0, <1>2, <1>3, <2>2 DEF Receiver
      <4> QED BY SMTT(60), <1>2, <1>3, <2>2, <4>1, Sizes
    <3>3. burst' \in Nat /\ burst' <= Len(slabCons')
      BY <1>5, <2>2, Sizes
    <3> QED BY <1>0, <1>1, <1>2, <1>3, <2>2, <3>1, <3>2, <3>3, Sizes DEF Receiver
  <2>4. InOrder'
    BY <1>1 DEF Port, InOrder, Released
  <2>5. PICK K, X : Located(K, X)
    BY DEF Port
  <2> DEFINE F == Released
             G == [a \in Buffers |-> IF K[a] = n THEN 0 ELSE K[a]]
             V == [a \in Buffers |-> IF K[a] = n THEN F + 2 * SlabSize + 1 - X[a] ELSE X[a]]
  <2>6. F \in Int /\ Released' = F
    BY <1>1, <1>2 DEF Released
  <2> HIDE DEF F
  <2>7. PICK L, Y : /\ L \in [Buffers -> Int] /\ Y \in [Buffers -> Int]
                    /\ \A a \in Buffers : K[a] # n => L[a] = K[a] /\ Y[a] = X[a]
                    /\ \A a \in Buffers : K[a] = n =>
                         L[a] = 0 /\ Y[a] = F + 2 * SlabSize + 1 - X[a]
    <3>1. G \in [Buffers -> Int] /\ V \in [Buffers -> Int]
      BY <2>5, <2>6, Sizes DEF Located
    <3>2. \A a \in Buffers : K[a] # n => G[a] = K[a] /\ V[a] = X[a]
      OBVIOUS
    <3>3. \A a \in Buffers : K[a] = n => G[a] = 0 /\ V[a] = F + 2 * SlabSize + 1 - X[a]
      OBVIOUS
    <3> HIDE DEF G, V
    <3> QED BY <3>1, <3>2, <3>3
  <2>8. ASSUME NEW a \in Buffers, NEW k \in Int, NEW x, IsAt(K, X, a, k, x), k # n
        PROVE  IsAt(L, Y, a, k, x)
    BY <2>7, <2>8 DEF IsAt
  <2>9. PlacedRx(L, Y)' /\ PlacedPool(L, Y)' /\ PlacedTx(L, Y)'
    <3>0. ASSUME NEW a \in Buffers, NEW x, IsAt(K, X, a, 0, x) PROVE IsAt(L, Y, a, 0, x)
      <4>1. 0 # n /\ 0 \in Int
        BY <2>1
      <4> QED BY <2>8, <3>0, <4>1
    <3>1. ASSUME NEW i \in 1..Len(fq) PROVE IsAt(L, Y, fq[i], 0, received + i)
      <4>1. IsAt(K, X, fq[i], 0, received + i) /\ fq[i] \in Buffers
        BY <2>5, PortTypes DEF Located, PlacedRx
      <4> QED BY <3>0, <4>1
    <3>2. ASSUME NEW i \in (processed + 1)..Len(rx) PROVE IsAt(L, Y, rx[i], 0, F + i)
      <4>1. i \in 1..Len(rx)
        BY <1>2
      <4>2. IsAt(K, X, rx[i], 0, F + i) /\ rx[i] \in Buffers
        BY <2>5, <4>1, PortTypes DEF Located, PlacedRx, F
      <4> QED BY <3>0, <4>2
    <3>3. ASSUME NEW i \in 1..Len(slabProd)
          PROVE  IsAt(L, Y, slabProd[i], 0, F + processed - Len(slabProd) + i)
      <4>1. /\ IsAt(K, X, slabProd[i], 0, F + processed - Len(slabProd) + i)
            /\ slabProd[i] \in Buffers
        BY <2>5, PortTypes DEF Located, PlacedRx, F
      <4> QED BY <3>0, <4>1
    <3>4. ASSUME NEW i \in 1..SlabSize
          PROVE  IsAt(L, Y, slabCons'[i], 0, F + SlabSize + SlabSize + 1 - i)
      <4>1. IsAt(K, X, pool[n][i], n, i)
        BY <2>1, <2>5 DEF Located, PlacedPool, n
      <4>2. slabCons'[i] = pool[n][i] /\ slabCons'[i] \in Buffers
        <5>1. slabCons' \in Seq(Buffers)
          BY DEF TypeOK
        <5> QED BY <2>1, <2>2, <5>1
      <4> QED BY <2>6, <2>7, <4>1, <4>2, Sizes DEF IsAt
    <3>5. ASSUME NEW k \in 1..(n - 1), NEW i \in 1..SlabSize
          PROVE  IsAt(L, Y, pool'[k][i], k, i)
      <4>1. k \in 1..n /\ k # n /\ k \in Int
        BY <2>1
      <4>2. IsAt(K, X, pool[k][i], k, i)
        BY <2>5, <4>1 DEF Located, PlacedPool, n
      <4>3. pool[k] \in Seq(Buffers) /\ Len(pool[k]) = SlabSize
        BY SMTT(60), <1>0, <4>1, PortTypes DEF Receiver, n
      <4>4. pool[k][i] \in Buffers
        BY <4>3
      <4>5. pool'[k] = pool[k]
        BY <2>1
      <4> QED BY <2>8, <4>1, <4>2, <4>4, <4>5
    <3>6. F + SlabSize + Len(slabCons') = F + SlabSize + SlabSize
      BY <2>2
    <3>7. PlacedRx(L, Y)'
      BY <1>1, <2>2, <2>6, <3>1, <3>2, <3>3, <3>4, <3>6 DEF PlacedRx
    <3>8. PlacedPool(L, Y)'
      BY <2>1, <3>5 DEF PlacedPool
    <3>9. ASSUME NEW k \in {-1, -2, -3} PROVE k # n /\ k \in Int
      BY <2>1
    <3>10. \A i \in 1..Len(slabConsTx) : IsAt(L, Y, slabConsTx[i], -1, i)
      BY <2>5, <2>8, <3>9, PortTypes DEF Located, PlacedTx
    <3>11. \A i \in 1..Len(sending) : IsAt(L, Y, sending[i], -2, i)
      BY <2>5, <2>8, <3>9, PortTypes DEF Located, PlacedTx
    <3>12. \A i \in 1..Len(slabProdTx) : IsAt(L, Y, slabProdTx[i], -3, i)
      BY <2>5, <2>8, <3>9, PortTypes DEF Located, PlacedTx
    <3>13. PlacedTx(L, Y)'
      BY <1>s, <3>10, <3>11, <3>12 DEF PlacedTx
    <3> QED BY <3>7, <3>8, <3>13
  <2>10. Aged(L, Y)'
    <3> SUFFICES ASSUME NEW a \in Buffers
        PROVE LET c == content[a]
              IN  /\ c <= received
                  /\ L[a] = 0 => c = 0 \/ c = Y[a] \/ c + 2 * SlabSize < Y[a]
                  /\ L[a] > 0 => c = 0 \/ c + Y[a] <= F + SlabSize
                  /\ L[a] < -1 => c = 0
      BY <1>1, <2>2, <2>6 DEF Aged
    <3> DEFINE c == content[a]
    <3>1. /\ c <= received
          /\ K[a] = 0 => c = 0 \/ c = X[a] \/ c + 2 * SlabSize < X[a]
          /\ K[a] > 0 => c = 0 \/ c + X[a] <= F
          /\ K[a] < -1 => c = 0
      BY <2>2, <2>5, <2>6 DEF Located, Aged, F
    <3>2. c \in Nat /\ X[a] \in Int
      BY <2>5, PortTypes DEF Located
    <3> HIDE DEF c
    <3>3. CASE K[a] = n
      BY SMTT(60), <2>1, <2>6, <2>7, <3>1, <3>2, <3>3, Sizes DEF c
    <3>4. CASE K[a] # n
      BY <2>6, <2>7, <3>1, <3>2, <3>4, Sizes DEF c
    <3> QED BY <3>3, <3>4
  <2> QED BY <1>s, <2>3, <2>4, <2>7, <2>9, <2>10 DEF Port, Located
<1>6. \/ pool' = pool /\ slabCons' = slabCons /\ burst' = AtMost(Len(slabCons), MaxBurstRx)
      \/ /\ slabCons = <<>> /\ pool # <<>> /\ burst' = MaxBurstRx
         /\ slabCons' = Last(pool) /\ pool' = Front(pool)
  BY DEF RxCheck
<1> QED BY <1>4, <1>5, <1>6

\* The packet that has been processed gives its buffer back.  If slab_prod is
\* full it goes to the pool, where its buffers await new packet numbers.
LEMMA PortGiveBack ==
  ASSUME TypeOK, TypeOK', Port, RxGiveBack
  PROVE  Port'
<1> DEFINE n == Len(pool)
           p == Len(slabProd)
           F == Released
           c == Current
<1> HIDE DEF Buffers
<1>0. Receiver
  BY DEF Port
<1>1. /\ slabCons' = slabCons /\ fq' = fq /\ rx' = rx
      /\ content' = content /\ received' = received /\ burst' = burst
      /\ rxPc = "back" /\ rxPc' = "process" /\ processed' = processed + 1
      /\ UNCHANGED txSide
  BY DEF RxGiveBack
<1>s. Sender' /\ slabConsTx' = slabConsTx /\ slabProdTx' = slabProdTx /\ sending' = sending
  BY <1>1, SenderKept DEF Port
<1>2. /\ received \in Nat /\ burst \in Nat /\ processed \in Nat
      /\ Len(fq) \in Nat /\ Len(rx) \in Nat /\ p \in Nat
      /\ Len(slabCons) \in Nat /\ n \in Nat
  BY PortTypes
<1>3. processed < burst
  BY <1>0, <1>1 DEF Receiver
<1>4. c \in Buffers /\ c = rx[processed + 1] /\ processed + 1 \in 1..Len(rx)
  BY <1>0, <1>1, <1>3, CurrentBuffer DEF c
<1>5. F \in Int /\ Released' = F /\ F = received - Len(rx)
  BY <1>1, <1>2 DEF Released
<1> HIDE DEF n, p, F, c
<1>6. InOrder'
  <2>1. ASSUME NEW i \in (processed + 1 + 1)..Len(rx)
        PROVE  content[rx[i]] = Released + i
    <3>1. i \in (processed + 1)..Len(rx)
      BY <1>2
    <3> QED BY <3>1 DEF Port, InOrder
  <2> QED BY <1>1, <1>5, <2>1 DEF InOrder, F
<1>7. PICK K, X : Located(K, X)
  BY DEF Port
<1>8. IsAt(K, X, c, 0, F + (processed + 1))
  <2>1. processed + 1 \in (processed + 1)..Len(rx)
    BY <1>2, <1>4
  <2>2. IsAt(K, X, rx[processed + 1], 0, Released + (processed + 1))
    BY <1>7, <2>1 DEF Located, PlacedRx
  <2> QED BY <1>4, <2>2 DEF F
<1>9. ASSUME NEW i \in (processed + 1 + 1)..Len(rx)
      PROVE  IsAt(K, X, rx[i], 0, F + i) /\ rx[i] \in Buffers
  <2>1. i \in (processed + 1)..Len(rx) /\ i \in 1..Len(rx)
    BY <1>2
  <2> QED BY <2>1, <1>7, PortTypes DEF Located, PlacedRx, F
<1>10. CASE /\ p < SlabSize /\ slabProd' = Append(slabProd, c)
            /\ pool' = pool
  <2>1. /\ Len(slabProd') = p + 1 /\ slabProd'[p + 1] = c
        /\ \A i \in 1..p : slabProd'[i] = slabProd[i]
    BY <1>4, <1>10, PortTypes, AppendProperties DEF p
  <2>2. Receiver'
    <3>1. p + Len(slabCons) - processed \in {0, SlabSize, 2 * SlabSize}
      BY <1>0 DEF Receiver, p
    <3>2. Len(slabProd') + Len(slabCons) - processed' = p + Len(slabCons) - processed
      BY SMTT(60), <1>1, <1>2, <2>1
    <3>3. Len(slabProd') <= SlabSize
      BY <1>2, <1>10, <2>1, Sizes
    <3>4. processed' <= burst
      BY <1>1, <1>2, <1>3
    <3> QED BY <1>0, <1>1, <1>10, <3>1, <3>2, <3>3, <3>4 DEF Receiver
  <2>3. PlacedRx(K, X)' /\ PlacedPool(K, X)' /\ PlacedTx(K, X)'
    <3>1. ASSUME NEW i \in 1..(p + 1)
          PROVE  IsAt(K, X, slabProd'[i], 0, F + processed' - (p + 1) + i)
      <4>1. F + processed' - (p + 1) + i = F + processed - p + i
        BY <1>1, <1>2, <1>5
      <4>2. CASE i = p + 1
        <5>1. F + processed - p + i = F + (processed + 1)
          BY SMTT(60), <1>2, <1>5, <4>2
        <5> QED BY <1>8, <2>1, <4>1, <4>2, <5>1
      <4>3. CASE i <= p
        <5>1. i \in 1..p
          BY <1>2, <4>3
        <5> QED BY <1>7, <2>1, <4>1, <5>1 DEF Located, PlacedRx, F, p
      <4> QED BY <1>2, <4>2, <4>3
    <3>2. \A i \in (processed' + 1)..Len(rx') : IsAt(K, X, rx'[i], 0, F + i)
      BY <1>1, <1>9
    <3>3. \A i \in 1..Len(slabProd') :
            IsAt(K, X, slabProd'[i], 0, F + processed' - Len(slabProd') + i)
      BY <2>1, <3>1
    <3>4. PlacedRx(K, X)'
      BY <1>1, <1>5, <1>7, <3>2, <3>3 DEF Located, PlacedRx, F
    <3>5. PlacedPool(K, X)' /\ PlacedTx(K, X)'
      BY <1>s, <1>7, <1>10 DEF Located, PlacedPool, PlacedTx
    <3> QED BY <3>4, <3>5
  <2>4. Aged(K, X)'
    BY <1>1, <1>5, <1>7 DEF Located, Aged, F
  <2> QED BY <1>s, <1>6, <1>7, <2>2, <2>3, <2>4 DEF Port, Located
<1>11. CASE /\ p = SlabSize /\ slabProd' = <<c>>
            /\ pool' = Append(pool, slabProd)
  <2>1. /\ Len(pool') = n + 1 /\ pool'[n + 1] = slabProd
        /\ \A k \in 1..n : pool'[k] = pool[k]
    BY <1>11, SlabReturned, PortTypes DEF n
  <2>2. Len(slabProd') = 1 /\ slabProd'[1] = c
    BY <1>11
  <2>3. Len(slabCons) = SlabSize /\ processed = 0
    <3>1. /\ p + Len(slabCons) - processed \in {0, SlabSize, 2 * SlabSize}
          /\ burst <= Len(slabCons) /\ Len(slabCons) <= SlabSize
      BY <1>0 DEF Receiver, p
    <3> QED BY SMTT(60), <1>2, <1>3, <1>11, <3>1, Sizes
  <2>4. Receiver'
    <3>1. \A k \in 1..n : Len(pool[k]) = SlabSize
      BY <1>0 DEF Receiver, n
    <3>2. \A k \in 1..(n + 1) : k \in 1..n \/ k = n + 1
      BY <1>2
    <3>3. \A k \in 1..Len(pool') : Len(pool'[k]) = SlabSize
      <4>1. Len(pool'[n + 1]) = SlabSize
        BY <1>11, <2>1 DEF p
      <4>2. \A k \in 1..n : Len(pool'[k]) = SlabSize
        BY <2>1, <3>1
      <4> QED BY <2>1, <3>2, <4>1, <4>2
    <3>4. /\ Len(slabProd') + Len(slabCons) - processed' = SlabSize
          /\ processed' <= burst /\ Len(slabProd') <= SlabSize
      BY <1>1, <1>2, <1>3, <2>2, <2>3, Sizes
    <3> QED BY <1>0, <1>1, <3>3, <3>4 DEF Receiver
  <2> DEFINE G == [a \in Buffers |-> IF K[a] = 0 /\ X[a] <= F THEN n + 1 ELSE K[a]]
             V == [a \in Buffers |-> IF K[a] = 0 /\ X[a] <= F THEN X[a] - F + SlabSize ELSE X[a]]
  <2>5. PICK L, Y : /\ L \in [Buffers -> Int] /\ Y \in [Buffers -> Int]
                    /\ \A a \in Buffers : ~ (K[a] = 0 /\ X[a] <= F) => L[a] = K[a] /\ Y[a] = X[a]
                    /\ \A a \in Buffers : K[a] = 0 /\ X[a] <= F =>
                         L[a] = n + 1 /\ Y[a] = X[a] - F + SlabSize
    <3>1. G \in [Buffers -> Int] /\ V \in [Buffers -> Int]
      BY SMTT(60), <1>2, <1>5, <1>7, Sizes DEF Located
    <3>2. \A a \in Buffers : ~ (K[a] = 0 /\ X[a] <= F) => G[a] = K[a] /\ V[a] = X[a]
      OBVIOUS
    <3>3. \A a \in Buffers : K[a] = 0 /\ X[a] <= F => G[a] = n + 1 /\ V[a] = X[a] - F + SlabSize
      OBVIOUS
    <3> HIDE DEF G, V
    <3> QED BY <3>1, <3>2, <3>3
  <2>6. ASSUME NEW a \in Buffers, NEW x \in Int, IsAt(K, X, a, 0, x), F < x
        PROVE  IsAt(L, Y, a, 0, x)
    BY <1>5, <2>5, <2>6 DEF IsAt
  <2>7. PlacedRx(L, Y)' /\ PlacedPool(L, Y)' /\ PlacedTx(L, Y)'
    <3>1. ASSUME NEW i \in 1..Len(fq) PROVE IsAt(L, Y, fq[i], 0, received + i)
      <4>1. IsAt(K, X, fq[i], 0, received + i) /\ fq[i] \in Buffers
        BY <1>7, PortTypes DEF Located, PlacedRx
      <4>2. received + i \in Int /\ F < received + i
        BY <1>2, <1>5
      <4> QED BY <2>6, <4>1, <4>2
    <3>2. ASSUME NEW i \in (processed + 1 + 1)..Len(rx) PROVE IsAt(L, Y, rx[i], 0, F + i)
      <4>1. F + i \in Int /\ F < F + i
        BY SMTT(60), <1>2, <1>5
      <4> QED BY <1>9, <2>6, <4>1
    <3>3. IsAt(L, Y, c, 0, F + 1)
      <4>1. IsAt(K, X, c, 0, F + 1) /\ F + 1 \in Int /\ F < F + 1
        BY <1>5, <1>8, <2>3
      <4> QED BY <1>4, <2>6, <4>1
    <3>4. ASSUME NEW i \in 1..Len(slabCons)
          PROVE  IsAt(L, Y, slabCons[i], 0, F + SlabSize + Len(slabCons) + 1 - i)
      <4>1. /\ IsAt(K, X, slabCons[i], 0, F + SlabSize + Len(slabCons) + 1 - i)
            /\ slabCons[i] \in Buffers
        BY <1>7, PortTypes DEF Located, PlacedRx, F
      <4>2. /\ F + SlabSize + Len(slabCons) + 1 - i \in Int
            /\ F < F + SlabSize + Len(slabCons) + 1 - i
        BY SMTT(60), <1>2, <1>5, Sizes
      <4> QED BY <2>6, <4>1, <4>2
    <3>5. ASSUME NEW k \in 1..(n + 1), NEW i \in 1..SlabSize
          PROVE  IsAt(L, Y, pool'[k][i], k, i)
      <4>1. CASE k = n + 1
        <5>1. i \in 1..p
          BY <1>11
        <5>2. IsAt(K, X, slabProd[i], 0, F + processed - p + i) /\ slabProd[i] \in Buffers
          <6>1. slabProd[i] \in Buffers
            BY <5>1, PortTypes DEF p
          <6> QED BY <6>1, <1>7, <5>1 DEF Located, PlacedRx, F, p
        <5>3. F + processed - p + i <= F /\ (F + processed - p + i) - F + SlabSize = i
          BY SMTT(60), <1>2, <1>5, <1>11, <2>3, Sizes
        <5>4. pool'[k] = slabProd
          BY <2>1, <4>1
        <5> QED BY <2>5, <4>1, <5>2, <5>3, <5>4 DEF IsAt
      <4>2. CASE k <= n
        <5>1. k \in 1..n /\ k # 0
          BY <1>2, <4>2
        <5>2. IsAt(K, X, pool[k][i], k, i)
          BY <1>7, <5>1 DEF Located, PlacedPool, n
        <5>3. pool[k] \in Seq(Buffers) /\ Len(pool[k]) = SlabSize
          BY SMTT(60), <1>0, <5>1, PortTypes DEF Receiver, n
        <5>4. pool[k][i] \in Buffers
          BY <5>3
        <5>5. pool'[k] = pool[k]
          BY <2>1, <5>1
        <5> QED BY <2>5, <5>1, <5>2, <5>4, <5>5 DEF IsAt
      <4> QED BY <1>2, <4>1, <4>2
    <3>6. \A i \in 1..Len(slabProd') :
            IsAt(L, Y, slabProd'[i], 0, F + processed' - Len(slabProd') + i)
      <4>1. F + processed' - Len(slabProd') + 1 = F + 1
        BY <1>1, <1>5, <2>2, <2>3
      <4>2. \A i \in 1..Len(slabProd') : i = 1
        BY <2>2
      <4> QED BY <2>2, <3>3, <4>1, <4>2
    <3>7. \A i \in (processed' + 1)..Len(rx') : IsAt(L, Y, rx'[i], 0, F + i)
      BY <1>1, <3>2
    <3>8. PlacedRx(L, Y)'
      BY <1>1, <1>5, <3>1, <3>4, <3>6, <3>7 DEF PlacedRx
    <3>9. PlacedPool(L, Y)'
      BY <2>1, <3>5 DEF PlacedPool
    <3>10. ASSUME NEW a \in Buffers, NEW k \in {-1, -2, -3}, NEW x, IsAt(K, X, a, k, x)
           PROVE  IsAt(L, Y, a, k, x)
      BY <2>5, <3>10 DEF IsAt
    <3>11. \A i \in 1..Len(slabConsTx) : IsAt(L, Y, slabConsTx[i], -1, i)
      BY <1>7, <3>10, PortTypes DEF Located, PlacedTx
    <3>12. \A i \in 1..Len(sending) : IsAt(L, Y, sending[i], -2, i)
      BY <1>7, <3>10, PortTypes DEF Located, PlacedTx
    <3>13. \A i \in 1..Len(slabProdTx) : IsAt(L, Y, slabProdTx[i], -3, i)
      BY <1>7, <3>10, PortTypes DEF Located, PlacedTx
    <3>14. PlacedTx(L, Y)'
      BY <1>s, <3>11, <3>12, <3>13 DEF PlacedTx
    <3> QED BY <3>8, <3>9, <3>14
  <2>8. Aged(L, Y)'
    <3> SUFFICES ASSUME NEW a \in Buffers
        PROVE LET d == content[a]
              IN  /\ d <= received
                  /\ L[a] = 0 => d = 0 \/ d = Y[a] \/ d + 2 * SlabSize < Y[a]
                  /\ L[a] > 0 => d = 0 \/ d + Y[a] <= F + Len(slabCons)
                  /\ L[a] < -1 => d = 0
      BY <1>1, <1>5 DEF Aged
    <3> DEFINE d == content[a]
    <3>1. /\ d <= received
          /\ K[a] = 0 => d = 0 \/ d = X[a] \/ d + 2 * SlabSize < X[a]
          /\ K[a] > 0 => d = 0 \/ d + X[a] <= F + Len(slabCons)
          /\ K[a] < -1 => d = 0
      BY <1>7 DEF Located, Aged, F
    <3>2. d \in Nat /\ X[a] \in Int
      BY <1>7, PortTypes DEF Located
    <3> HIDE DEF d
    <3>3. CASE K[a] = 0 /\ X[a] <= F
      <4>1. L[a] = n + 1 /\ Y[a] = X[a] - F + SlabSize /\ n + 1 > 0
        BY <1>2, <2>5, <3>3
      <4>2. d = 0 \/ d <= X[a]
        BY <3>1, <3>2, <3>3, Sizes
      <4>3. d = 0 \/ d + Y[a] <= F + SlabSize
        BY SMTT(60), <1>5, <3>2, <3>3, <4>1, <4>2, Sizes
      <4>4. L[a] > 0 /\ L[a] # 0 /\ ~ (L[a] < -1)
        BY <1>2, <4>1
      <4> QED BY <2>3, <3>1, <4>3, <4>4 DEF d
    <3>4. CASE ~ (K[a] = 0 /\ X[a] <= F)
      BY <2>5, <3>1, <3>4 DEF d
    <3> QED BY <3>3, <3>4
  <2> QED BY <1>s, <1>6, <2>4, <2>5, <2>7, <2>8 DEF Port, Located
<1>12. \/ /\ p < SlabSize /\ slabProd' = Append(slabProd, c)
          /\ pool' = pool
       \/ /\ p = SlabSize /\ slabProd' = <<c>>
          /\ pool' = Append(pool, slabProd)
  BY DEF RxGiveBack, p, c
<1> QED BY <1>10, <1>11, <1>12

\* The fill ring gets the buffers at the end of slab_cons.
LEMMA PortRefill ==
  ASSUME TypeOK, TypeOK', Port, RxRefill
  PROVE  Port'
<1> DEFINE L == Len(slabCons)
           b == burst
           r == Reverse(SubSeq(slabCons, L - b + 1, L))
           F == Released
<1> HIDE DEF Buffers
<1>0. Receiver
  BY DEF Port
<1>1. /\ pool' = pool /\ slabProd' = slabProd /\ content' = content
      /\ received' = received /\ burst' = 0 /\ processed' = 0
      /\ processed = b /\ rxPc = "process" /\ rxPc' = "check" /\ UNCHANGED txSide
  BY DEF RxRefill
<1>t. Sender' /\ slabConsTx' = slabConsTx /\ slabProdTx' = slabProdTx /\ sending' = sending
  BY <1>1, SenderKept DEF Port
<1>s. /\ rx' = SubSeq(rx, b + 1, Len(rx)) /\ fq' = fq \o r
      /\ slabCons' = SubSeq(slabCons, 1, L - b)
  BY DEF RxRefill
<1>2. /\ received \in Nat /\ b \in Nat /\ L \in Nat
      /\ Len(fq) \in Nat /\ Len(rx) \in Nat /\ Len(slabProd) \in Nat
  BY PortTypes
<1>3. b \in 0..L /\ b \in 0..Len(rx) /\ L - b \in 0..L
  BY <1>0, <1>1, <1>2 DEF Receiver
<1>4. r \in Seq(Buffers) /\ Len(r) = b /\ \A i \in 1..b : r[i] = slabCons[L + 1 - i]
  <2>1. slabCons \in Seq(Buffers)
    BY PortTypes
  <2> QED BY <1>3, <2>1, Reversed
<1>5. /\ Len(slabCons') = L - b
      /\ \A i \in 1..(L - b) : slabCons'[i] = slabCons[i]
  <2>1. slabCons \in Seq(Buffers) /\ L - b \in 0..Len(slabCons)
    BY <1>3, PortTypes
  <2> HIDE DEF L, b
  <2> QED BY <1>s, <2>1, Split
<1>6. /\ Len(rx') = Len(rx) - b
      /\ \A i \in 1..(Len(rx) - b) : rx'[i] = rx[b + i]
  <2>1. rx \in Seq(Buffers) /\ b \in 0..Len(rx)
    BY <1>3, PortTypes
  <2> HIDE DEF L, b
  <2> QED BY <1>s, <2>1, Split
<1> HIDE DEF r
<1>7. /\ Len(fq') = Len(fq) + b
      /\ \A i \in 1..(Len(fq) + b) :
           fq'[i] = IF i <= Len(fq) THEN fq[i] ELSE r[i - Len(fq)]
  <2>1. fq \in Seq(Buffers) /\ r \in Seq(Buffers) /\ Len(r) = b
    BY <1>4, PortTypes
  <2> HIDE DEF b
  <2>2. /\ Len(fq \o r) = Len(fq) + b
        /\ \A i \in 1..(Len(fq) + b) :
             (fq \o r)[i] = IF i <= Len(fq) THEN fq[i] ELSE r[i - Len(fq)]
    BY <2>1, ConcatProperties
  <2> QED BY <1>s, <2>2
<1>8. F \in Int /\ Released' = F + b /\ F = received - Len(rx)
  <2>1. Len(rx') = Len(rx) - b
    BY <1>6
  <2> QED BY <1>1, <1>2, <2>1 DEF Released
<1> HIDE DEF L, b, F
<1>9. Receiver'
  <2>1. Len(fq') = Len(fq) + b /\ Len(rx') = Len(rx) - b /\ Len(slabCons') = L - b
    BY <1>5, <1>6, <1>7
  <2>2. Len(fq') + Len(rx') = SlabSize /\ Len(rx') <= RxSize
    <3>1. Len(fq) + Len(rx) = SlabSize /\ Len(rx) <= RxSize
      BY <1>0 DEF Receiver
    <3>2. Len(fq') + Len(rx') = Len(fq) + Len(rx)
      <4>1. Len(fq) \in Int /\ Len(rx) \in Int /\ b \in Int
        BY <1>2
      <4> QED BY <2>1, <4>1
    <3>3. Len(rx') <= RxSize
      <4>1. Len(rx') = Len(rx) - b /\ Len(rx) \in Int /\ b \in Nat
        BY <1>2, <2>1
      <4> QED BY <3>1, <4>1, Sizes
    <3> QED BY <3>1, <3>2, <3>3
  <2>3. Len(slabProd) + Len(slabCons') - 0 \in {0, SlabSize, 2 * SlabSize}
    <3>1. Len(slabProd) + L - b \in {0, SlabSize, 2 * SlabSize}
      BY <1>0, <1>1 DEF Receiver, L
    <3>2. Len(slabProd) + L - b = Len(slabProd) + Len(slabCons') - 0
      BY <1>2, <2>1
    <3> QED BY <3>1, <3>2
  <2>4. /\ 0 <= Len(rx') /\ 0 <= Len(slabCons') /\ Len(slabCons') <= SlabSize
        /\ Len(rx') <= received
    BY SMTT(60), <1>0, <1>2, <1>3, <2>1, Sizes DEF Receiver, L
  <2>5. \A k \in 1..Len(pool') : Len(pool'[k]) = SlabSize
    BY <1>0, <1>1 DEF Receiver
  <2>6. Len(slabProd') + Len(slabCons') - processed' \in {0, SlabSize, 2 * SlabSize}
    BY <1>1, <2>3
  <2>7. Len(slabProd') <= SlabSize
    BY <1>0, <1>1 DEF Receiver
  <2> QED BY <1>1, <2>2, <2>4, <2>5, <2>6, <2>7 DEF Receiver
<1>10. ASSUME NEW i \in 1..(Len(rx) - b)
       PROVE  b + i \in (processed + 1)..Len(rx)
  BY <1>1, <1>2
<1>11. InOrder'
  <2> SUFFICES ASSUME NEW i \in 1..(Len(rx) - b)
      PROVE content[rx'[i]] = F + b + i
    <3>1. /\ processed' + 1 = 1 /\ Len(rx') = Len(rx) - b
          /\ content' = content /\ Released' = F + b
      BY <1>1, <1>6, <1>8
    <3> QED BY <3>1 DEF InOrder
  <2>1. content[rx[b + i]] = F + (b + i)
    BY <1>10 DEF Port, InOrder, F
  <2>2. F + (b + i) = F + b + i
    BY <1>2, <1>8
  <2> QED BY <1>6, <2>1, <2>2
<1>12. PICK K, X : Located(K, X)
  BY DEF Port
<1>13. PlacedRx(K, X)' /\ PlacedPool(K, X)' /\ PlacedTx(K, X)'
  <2>1. ASSUME NEW i \in 1..(Len(fq) + b) PROVE IsAt(K, X, fq'[i], 0, received + i)
    <3>1. CASE i <= Len(fq)
      <4>1. i \in 1..Len(fq)
        BY <1>2, <3>1
      <4> QED BY <1>7, <1>12, <3>1, <4>1 DEF Located, PlacedRx
    <3>2. CASE i > Len(fq)
      <4>1. PICK j \in 1..b : i = Len(fq) + j
        <5>1. i - Len(fq) \in 1..b /\ i = Len(fq) + (i - Len(fq))
          BY <1>2, <3>2
        <5> QED BY <5>1
      <4>2. i - Len(fq) = j /\ ~ (i <= Len(fq))
        BY <1>2, <4>1
      <4>3. fq'[i] = slabCons[L + 1 - j]
        BY <1>4, <1>7, <4>2
      <4>4. L + 1 - j \in 1..L
        BY SMTT(60), <1>2, <1>3
      <4>5. IsAt(K, X, slabCons[L + 1 - j], 0, F + SlabSize + L + 1 - (L + 1 - j))
        BY <1>12, <4>4 DEF Located, PlacedRx, F, L
      <4>6. Len(fq) + Len(rx) = SlabSize
        BY <1>0 DEF Receiver
      <4>7. F + SlabSize + L + 1 - (L + 1 - j) = received + i
        <5>1. j \in Int /\ received = F + Len(rx)
          BY <1>2, <1>8
        <5>2. i = Len(fq) + j
          BY <4>1
        <5>3. received + i = F + SlabSize + j
          BY SMTT(60), <1>2, <1>8, <4>6, <5>1, <5>2, Sizes
        <5>4. F + SlabSize + L + 1 - (L + 1 - j) = F + SlabSize + j
          BY SMTT(60), <1>2, <1>8, <5>1, Sizes
        <5> QED BY <5>3, <5>4
      <4> QED BY <4>3, <4>5, <4>7
    <3> QED BY <1>2, <3>1, <3>2
  <2>2. ASSUME NEW i \in 1..(Len(rx) - b) PROVE IsAt(K, X, rx'[i], 0, F + b + i)
    <3>1. IsAt(K, X, rx[b + i], 0, F + (b + i))
      BY <1>10, <1>12 DEF Located, PlacedRx, F
    <3>2. F + (b + i) = F + b + i
      BY <1>2, <1>8
    <3> QED BY <1>6, <3>1, <3>2
  <2>3. ASSUME NEW i \in 1..Len(slabProd)
        PROVE  IsAt(K, X, slabProd[i], 0, F + b + 0 - Len(slabProd) + i)
    <3>1. IsAt(K, X, slabProd[i], 0, F + b - Len(slabProd) + i)
      BY <1>1, <1>12 DEF Located, PlacedRx, F
    <3>2. F + b - Len(slabProd) + i = F + b + 0 - Len(slabProd) + i
      BY <1>2, <1>8
    <3> QED BY <3>1, <3>2
  <2>4. ASSUME NEW i \in 1..(L - b)
        PROVE  IsAt(K, X, slabCons'[i], 0, F + b + SlabSize + (L - b) + 1 - i)
    <3>1. i \in 1..L
      BY <1>2
    <3>2. IsAt(K, X, slabCons[i], 0, F + SlabSize + L + 1 - i)
      BY <1>12, <3>1 DEF Located, PlacedRx, F, L
    <3>3. F + SlabSize + L + 1 - i = F + b + SlabSize + (L - b) + 1 - i
      BY SMTT(60), <1>2, <1>8, <3>1, Sizes
    <3> QED BY <1>5, <3>2, <3>3
  <2>5. \A i \in 1..Len(slabCons') :
          IsAt(K, X, slabCons'[i], 0, F + b + SlabSize + Len(slabCons') + 1 - i)
    BY <1>5, <2>4
  <2>6. \A i \in (processed' + 1)..Len(rx') : IsAt(K, X, rx'[i], 0, F + b + i)
    <3>1. processed' + 1 = 1 /\ Len(rx') = Len(rx) - b
      BY <1>1, <1>6
    <3> QED BY <2>2, <3>1
  <2>7. \A i \in 1..Len(fq') : IsAt(K, X, fq'[i], 0, received' + i)
    BY <1>1, <1>7, <2>1
  <2>8. PlacedRx(K, X)'
    BY <1>1, <1>8, <1>12, <2>3, <2>5, <2>6, <2>7 DEF Located, PlacedRx
  <2>9. PlacedPool(K, X)' /\ PlacedTx(K, X)'
    BY <1>1, <1>t, <1>12 DEF Located, PlacedPool, PlacedTx
  <2> QED BY <2>8, <2>9
<1>14. Aged(K, X)'
  <2>1. F + b + Len(slabCons') = F + L
    BY <1>2, <1>5, <1>8
  <2> QED BY <1>1, <1>8, <1>12, <2>1 DEF Located, Aged, F, L
<1> QED BY <1>t, <1>9, <1>11, <1>12, <1>13, <1>14 DEF Port, Located

-----------------------------------------------------------------------------
(* The buffers of a port, and its transmit thread *)

\* A step of the transmit thread leaves the rings and slabs of the receive
\* thread alone, and the pool consists of full slabs.
LEMMA ReceiverKept ==
  ASSUME Receiver, UNCHANGED rxSide, \A i \in 1..Len(pool') : Len(pool'[i]) = SlabSize
  PROVE  /\ Receiver' /\ Released' = Released
         /\ slabCons' = slabCons /\ slabProd' = slabProd /\ fq' = fq /\ rx' = rx
         /\ received' = received /\ processed' = processed
BY DEF Receiver, rxSide, Released

\* If the slab is empty the last one of the pool takes its place.
LEMMA PortTxCheck ==
  ASSUME TypeOK, TypeOK', Port, TxCheck
  PROVE  Port'
<1> DEFINE n == Len(pool)
<1> HIDE DEF Buffers
<1>0. Receiver /\ Sender /\ InOrder
  BY DEF Port
<1>1. UNCHANGED rxSide /\ content' = content /\ slabProdTx' = slabProdTx /\ sending' = sending
  BY DEF TxCheck
<1>2. PICK K, X : Located(K, X)
  BY DEF Port
<1>3. ASSUME NEW m \in Nat, TxCollect(m), Len(slabProdTx') <= SlabSize, m <= Len(slabConsTx')
      PROVE  Sender'
  <2>1. txBurst' \in 0..m /\ (txPc' # "check" => txBurst' > 0)
    BY <1>3 DEF TxCollect
  <2>2. Len(slabConsTx') \in Nat
    BY DEF TypeOK
  <2> QED BY <1>3, <2>1, <2>2 DEF Sender
<1>4. Len(slabProdTx') <= SlabSize
  BY <1>0, <1>1 DEF Sender
<1>5. CASE /\ TxCollect(AtMost(Len(slabConsTx), MaxBurstTx))
           /\ pool' = pool /\ slabConsTx' = slabConsTx
  <2>1. /\ AtMost(Len(slabConsTx), MaxBurstTx) \in Nat
        /\ AtMost(Len(slabConsTx), MaxBurstTx) <= Len(slabConsTx)
    BY PortTypes, Sizes DEF AtMost
  <2>2. Sender'
    BY <1>3, <1>4, <1>5, <2>1
  <2>3. \A i \in 1..Len(pool') : Len(pool'[i]) = SlabSize
    BY <1>0, <1>5 DEF Receiver
  <2> QED BY <1>0, <1>1, <1>5, <2>2, <2>3, ReceiverKept, BuffersKept
<1>6. CASE /\ TxCollect(MaxBurstTx) /\ slabConsTx = <<>> /\ pool # <<>>
           /\ slabConsTx' = Last(pool) /\ pool' = Front(pool)
  <2>1. /\ Len(pool') = n - 1 /\ n \in Nat \ {0} /\ slabConsTx' = pool[n]
        /\ \A k \in 1..(n - 1) : pool'[k] = pool[k]
    BY <1>6, SlabTaken
  <2>2. \A k \in 1..n : Len(pool[k]) = SlabSize
    BY <1>0 DEF Receiver
  <2> HIDE DEF n
  <2>3. Len(slabConsTx') = SlabSize /\ \A i \in 1..Len(pool') : Len(pool'[i]) = SlabSize
    BY <2>1, <2>2
  <2>4. Sender'
    BY <1>3, <1>4, <1>6, <2>3, Sizes
  <2>5. /\ Receiver' /\ Released' = Released
        /\ slabCons' = slabCons /\ slabProd' = slabProd /\ fq' = fq /\ rx' = rx
        /\ received' = received /\ processed' = processed
    BY <1>0, <1>1, <2>3, ReceiverKept
  <2>6. InOrder'
    BY <1>0, <1>1, <2>5 DEF InOrder
  <2> DEFINE G == [a \in Buffers |-> IF K[a] = n THEN -1 ELSE K[a]]
  <2>7. PICK L \in [Buffers -> Int] :
          \A a \in Buffers : (K[a] = n => L[a] = -1) /\ (K[a] # n => L[a] = K[a])
    <3>1. G \in [Buffers -> Int]
      BY <1>2 DEF Located
    <3>2. \A a \in Buffers : (K[a] = n => G[a] = -1) /\ (K[a] # n => G[a] = K[a])
      OBVIOUS
    <3> HIDE DEF G
    <3> QED BY <3>1, <3>2
  <2>8. ASSUME NEW a \in Buffers, NEW k \in Int, NEW x, IsAt(K, X, a, k, x), k # n
        PROVE  IsAt(L, X, a, k, x)
    BY <2>7, <2>8 DEF IsAt
  <2>9. PlacedRx(L, X)'
    <3>0. ASSUME NEW a \in Buffers, NEW x, IsAt(K, X, a, 0, x) PROVE IsAt(L, X, a, 0, x)
      BY <2>1, <2>8, <3>0
    <3>1. \A i \in (processed + 1)..Len(rx) : i \in 1..Len(rx)
      BY SMTT(60), PortTypes
    <3>2. PlacedRx(L, X)
      BY <1>2, <3>0, <3>1, PortTypes DEF Located, PlacedRx
    <3> QED BY <2>5, <3>2 DEF PlacedRx
  <2>10. PlacedPool(L, X)'
    <3> SUFFICES ASSUME NEW k \in 1..(n - 1), NEW i \in 1..SlabSize
        PROVE IsAt(L, X, pool[k][i], k, i)
      BY <2>1 DEF PlacedPool
    <3>1. k \in 1..n /\ k # n /\ k \in Int
      BY <2>1
    <3>2. IsAt(K, X, pool[k][i], k, i)
      BY <1>2, <3>1 DEF Located, PlacedPool, n
    <3>3. pool[k] \in Seq(Buffers) /\ Len(pool[k]) = SlabSize
      BY <2>2, <3>1, PortTypes DEF n
    <3>4. pool[k][i] \in Buffers
      BY <3>3
    <3> QED BY <2>8, <3>1, <3>2, <3>4
  <2>11. PlacedTx(L, X)'
    <3>1. ASSUME NEW i \in 1..SlabSize PROVE IsAt(L, X, slabConsTx'[i], -1, i)
      <4>1. IsAt(K, X, pool[n][i], n, i)
        BY <1>2, <2>1 DEF Located, PlacedPool, n
      <4>2. slabConsTx'[i] = pool[n][i] /\ slabConsTx'[i] \in Buffers
        <5>1. slabConsTx' \in Seq(Buffers)
          BY DEF TypeOK
        <5> QED BY <2>1, <2>3, <5>1
      <4> QED BY <2>7, <4>1, <4>2 DEF IsAt
    <3>2. ASSUME NEW k \in {-2, -3} PROVE k # n /\ k \in Int
      BY <2>1
    <3>3. \A i \in 1..Len(sending) : IsAt(L, X, sending[i], -2, i)
      BY <1>2, <2>8, <3>2, PortTypes DEF Located, PlacedTx
    <3>4. \A i \in 1..Len(slabProdTx) : IsAt(L, X, slabProdTx[i], -3, i)
      BY <1>2, <2>8, <3>2, PortTypes DEF Located, PlacedTx
    <3> QED BY <1>1, <2>3, <3>1, <3>3, <3>4 DEF PlacedTx
  <2>12. Aged(L, X)'
    <3> SUFFICES ASSUME NEW a \in Buffers
        PROVE LET c == content[a]
              IN  /\ c <= received
                  /\ L[a] = 0 => c = 0 \/ c = X[a] \/ c + 2 * SlabSize < X[a]
                  /\ L[a] > 0 => c = 0 \/ c + X[a] <= Released + Len(slabCons)
                  /\ L[a] < -1 => c = 0
      BY <1>1, <2>5 DEF Aged
    <3>1. Aged(K, X)
      BY <1>2 DEF Located
    <3>2. CASE K[a] = n
      BY <2>7, <3>1, <3>2 DEF Aged
    <3>3. CASE K[a] # n
      BY <2>7, <3>1, <3>3 DEF Aged
    <3> QED BY <3>2, <3>3
  <2> QED BY <1>2, <2>4, <2>5, <2>6, <2>7, <2>9, <2>10, <2>11, <2>12 DEF Port, Located
<1> QED BY <1>5, <1>6 DEF TxCheck

\* The buffer at the head of the completion ring goes to the producer slab,
\* and if that is full, it goes to the pool.  No packet of the port is in it.
LEMMA PortTxComplete ==
  ASSUME TypeOK, TypeOK', Port, TxComplete
  PROVE  Port'
<1> DEFINE n == Len(pool)
           p == Len(slabProdTx)
           h == Head(sending)
<1> HIDE DEF Buffers
<1>0. Receiver /\ Sender /\ InOrder
  BY DEF Port
<1>1. /\ UNCHANGED rxSide /\ content' = content /\ slabConsTx' = slabConsTx
      /\ txPc' = txPc /\ txBurst' = txBurst /\ sending # <<>> /\ sending' = Tail(sending)
  BY DEF TxComplete
<1>2. PICK K, X : Located(K, X)
  BY DEF Port
<1>3. /\ Len(sending') = Len(sending) - 1 /\ Len(sending) \in Nat \ {0}
      /\ h = sending[1] /\ h \in Buffers
      /\ \A i \in 1..(Len(sending) - 1) : sending'[i] = sending[i + 1]
  BY <1>1, PortTypes, Shifted
<1>4. n \in Nat /\ p \in Nat
  BY PortTypes
<1>5. \A k \in 1..n : Len(pool[k]) = SlabSize
  BY <1>0 DEF Receiver
<1> HIDE DEF n, p, h
<1>h. IsAt(K, X, h, -2, 1)
  BY <1>2, <1>3 DEF Located, PlacedTx
<1>6. CASE p < SlabSize /\ slabProdTx' = Append(slabProdTx, h) /\ pool' = pool
  <2>1. /\ Len(slabProdTx') = p + 1 /\ slabProdTx'[p + 1] = h
        /\ \A i \in 1..p : slabProdTx'[i] = slabProdTx[i]
    BY <1>3, <1>6, PortTypes, AppendProperties DEF p
  <2>2. Sender'
    BY <1>0, <1>1, <1>4, <1>6, <2>1, Sizes DEF Sender
  <2>3. /\ Receiver' /\ Released' = Released
        /\ slabCons' = slabCons /\ slabProd' = slabProd /\ fq' = fq /\ rx' = rx
        /\ received' = received /\ processed' = processed
    BY <1>0, <1>1, <1>5, <1>6, ReceiverKept DEF n
  <2>4. InOrder'
    BY <1>0, <1>1, <2>3 DEF InOrder
  <2> DEFINE G == [a \in Buffers |-> IF a = h THEN -3 ELSE K[a]]
             V == [a \in Buffers |-> IF a = h THEN p + 1
                                     ELSE IF K[a] = -2 THEN X[a] - 1 ELSE X[a]]
  <2>5. PICK L \in [Buffers -> Int], Y \in [Buffers -> Int] :
          /\ L[h] = -3 /\ Y[h] = p + 1
          /\ \A a \in Buffers : a # h => L[a] = K[a]
          /\ \A a \in Buffers : a # h => Y[a] = IF K[a] = -2 THEN X[a] - 1 ELSE X[a]
    <3>1. G \in [Buffers -> Int] /\ V \in [Buffers -> Int]
      BY <1>2, <1>4 DEF Located
    <3>2. /\ G[h] = -3 /\ V[h] = p + 1
          /\ \A a \in Buffers : a # h => G[a] = K[a]
          /\ \A a \in Buffers : a # h => V[a] = IF K[a] = -2 THEN X[a] - 1 ELSE X[a]
      BY <1>3
    <3> HIDE DEF G, V
    <3> QED BY <3>1, <3>2
  <2>6. ASSUME NEW a \in Buffers, NEW k \in Int, NEW x, IsAt(K, X, a, k, x), k # -2
        PROVE  IsAt(L, Y, a, k, x)
    BY <1>h, <2>5, <2>6 DEF IsAt
  <2>7. PlacedRx(L, Y)'
    <3>1. \A i \in (processed + 1)..Len(rx) : i \in 1..Len(rx)
      BY SMTT(60), PortTypes
    <3>2. 0 # -2 /\ 0 \in Int
      OBVIOUS
    <3>3. PlacedRx(L, Y)
      BY <1>2, <2>6, <3>1, <3>2, PortTypes DEF Located, PlacedRx
    <3> QED BY <2>3, <3>3 DEF PlacedRx
  <2>8. PlacedPool(L, Y)'
    <3> SUFFICES ASSUME NEW k \in 1..n, NEW i \in 1..SlabSize
        PROVE IsAt(L, Y, pool[k][i], k, i)
      BY <1>6 DEF PlacedPool, n
    <3>1. k # -2 /\ k \in Int
      BY <1>4
    <3>2. IsAt(K, X, pool[k][i], k, i)
      BY <1>2 DEF Located, PlacedPool, n
    <3>3. pool[k] \in Seq(Buffers) /\ Len(pool[k]) = SlabSize
      BY <1>5, PortTypes DEF n
    <3>4. pool[k][i] \in Buffers
      BY <3>3
    <3> QED BY <2>6, <3>1, <3>2, <3>4
  <2>9. PlacedTx(L, Y)'
    <3>1. \A i \in 1..Len(slabConsTx) : IsAt(L, Y, slabConsTx[i], -1, i)
      <4>1. -1 # -2 /\ -1 \in Int
        OBVIOUS
      <4> QED BY <1>2, <2>6, <4>1, PortTypes DEF Located, PlacedTx
    <3>2. ASSUME NEW i \in 1..(Len(sending) - 1) PROVE IsAt(L, Y, sending'[i], -2, i)
      <4>1. i + 1 \in 1..Len(sending) /\ sending'[i] = sending[i + 1] /\ i + 1 # 1
            /\ (i + 1) - 1 = i
        BY <1>3
      <4>2. IsAt(K, X, sending[i + 1], -2, i + 1) /\ sending[i + 1] \in Buffers
        BY <1>2, <4>1, PortTypes DEF Located, PlacedTx
      <4>3. sending[i + 1] # h
        BY <1>h, <4>1, <4>2 DEF IsAt
      <4> QED BY <2>5, <4>1, <4>2, <4>3 DEF IsAt
    <3>3. ASSUME NEW i \in 1..(p + 1) PROVE IsAt(L, Y, slabProdTx'[i], -3, i)
      <4>1. CASE i = p + 1
        BY <2>1, <2>5, <4>1 DEF IsAt
      <4>2. CASE i <= p
        <5>1. i \in 1..p /\ -3 # -2 /\ -3 \in Int
          BY <1>4, <4>2
        <5>2. IsAt(K, X, slabProdTx[i], -3, i) /\ slabProdTx[i] \in Buffers
          BY <1>2, <5>1, PortTypes DEF Located, PlacedTx, p
        <5> QED BY <2>1, <2>6, <5>1, <5>2
      <4> QED BY <1>4, <4>1, <4>2
    <3> QED BY <1>1, <1>3, <2>1, <3>1, <3>2, <3>3 DEF PlacedTx
  <2>10. Aged(L, Y)'
    <3> SUFFICES ASSUME NEW a \in Buffers
        PROVE LET c == content[a]
              IN  /\ c <= received
                  /\ L[a] = 0 => c = 0 \/ c = Y[a] \/ c + 2 * SlabSize < Y[a]
                  /\ L[a] > 0 => c = 0 \/ c + Y[a] <= Released + Len(slabCons)
                  /\ L[a] < -1 => c = 0
      BY <1>1, <2>3 DEF Aged
    <3>1. Aged(K, X)
      BY <1>2 DEF Located
    <3>2. CASE a = h
      BY <1>h, <2>5, <3>1, <3>2 DEF Aged, IsAt
    <3>3. CASE a # h
      BY SMTT(60), <2>5, <3>1, <3>3 DEF Aged
    <3> QED BY <3>2, <3>3
  <2> QED BY <2>2, <2>3, <2>4, <2>5, <2>7, <2>8, <2>9, <2>10 DEF Port, Located
<1>7. CASE p = SlabSize /\ slabProdTx' = <<h>> /\ pool' = Append(pool, slabProdTx)
  <2>1. /\ Len(pool') = n + 1 /\ pool'[n + 1] = slabProdTx
        /\ \A k \in 1..n : pool'[k] = pool[k]
    BY <1>7, SlabReturned, PortTypes DEF n
  <2>2. Len(slabProdTx') = 1 /\ slabProdTx'[1] = h
    BY <1>7
  <2>3. Sender'
    BY <1>0, <1>1, <2>2, Sizes DEF Sender
  <2>4. \A k \in 1..Len(pool') : Len(pool'[k]) = SlabSize
    <3>1. \A k \in 1..(n + 1) : k \in 1..n \/ k = n + 1
      BY <1>4
    <3>2. Len(pool'[n + 1]) = SlabSize
      BY <1>7, <2>1 DEF p
    <3>3. \A k \in 1..n : Len(pool'[k]) = SlabSize
      BY <1>5, <2>1
    <3> QED BY <2>1, <3>1, <3>2, <3>3
  <2>5. /\ Receiver' /\ Released' = Released
        /\ slabCons' = slabCons /\ slabProd' = slabProd /\ fq' = fq /\ rx' = rx
        /\ received' = received /\ processed' = processed
    BY <1>0, <1>1, <2>4, ReceiverKept
  <2>6. InOrder'
    BY <1>0, <1>1, <2>5 DEF InOrder
  <2> DEFINE G == [a \in Buffers |-> IF a = h THEN -3 ELSE IF K[a] = -3 THEN n + 1 ELSE K[a]]
             V == [a \in Buffers |-> IF K[a] = -2 /\ a # h THEN X[a] - 1 ELSE X[a]]
  <2>7. PICK L \in [Buffers -> Int], Y \in [Buffers -> Int] :
          /\ L[h] = -3 /\ Y[h] = 1
          /\ \A a \in Buffers : a # h => L[a] = IF K[a] = -3 THEN n + 1 ELSE K[a]
          /\ \A a \in Buffers : a # h => Y[a] = IF K[a] = -2 THEN X[a] - 1 ELSE X[a]
    <3>1. G \in [Buffers -> Int] /\ V \in [Buffers -> Int]
      BY <1>2, <1>4 DEF Located
    <3>2. /\ G[h] = -3 /\ V[h] = 1
          /\ \A a \in Buffers : a # h => G[a] = IF K[a] = -3 THEN n + 1 ELSE K[a]
          /\ \A a \in Buffers : a # h => V[a] = IF K[a] = -2 THEN X[a] - 1 ELSE X[a]
      BY <1>3, <1>h DEF IsAt
    <3> HIDE DEF G, V
    <3> QED BY <3>1, <3>2
  <2>8. ASSUME NEW a \in Buffers, NEW k \in Int, NEW x, IsAt(K, X, a, k, x), k # -2, k # -3
        PROVE  IsAt(L, Y, a, k, x)
    BY <1>h, <2>7, <2>8 DEF IsAt
  <2>9. PlacedRx(L, Y)'
    <3>1. \A i \in (processed + 1)..Len(rx) : i \in 1..Len(rx)
      BY PortTypes
    <3>2. 0 # -2 /\ 0 # -3 /\ 0 \in Int
      OBVIOUS
    <3>3. PlacedRx(L, Y)
      BY <1>2, <2>8, <3>1, <3>2, PortTypes DEF Located, PlacedRx
    <3> QED BY <2>5, <3>3 DEF PlacedRx
  <2>10. PlacedPool(L, Y)'
    <3> SUFFICES ASSUME NEW k \in 1..(n + 1), NEW i \in 1..SlabSize
        PROVE IsAt(L, Y, pool'[k][i], k, i)
      BY <2>1 DEF PlacedPool
    <3>1. CASE k = n + 1
      <4>1. i \in 1..p
        BY <1>7
      <4>2. IsAt(K, X, slabProdTx[i], -3, i) /\ slabProdTx[i] \in Buffers
        BY <1>2, <4>1, PortTypes DEF Located, PlacedTx, p
      <4>3. slabProdTx[i] # h
        BY <1>h, <4>2 DEF IsAt
      <4> QED BY <2>1, <2>7, <3>1, <4>2, <4>3 DEF IsAt
    <3>2. CASE k <= n
      <4>1. k \in 1..n /\ k # -2 /\ k # -3 /\ k \in Int
        BY <1>4, <3>2
      <4>2. IsAt(K, X, pool[k][i], k, i)
        BY <1>2, <4>1 DEF Located, PlacedPool, n
      <4>3. pool[k] \in Seq(Buffers) /\ Len(pool[k]) = SlabSize
        BY <1>5, <4>1, PortTypes DEF n
      <4>4. pool[k][i] \in Buffers
        BY <4>3
      <4> QED BY <2>1, <2>8, <4>1, <4>2, <4>4
    <3> QED BY <1>4, <3>1, <3>2
  <2>11. PlacedTx(L, Y)'
    <3>1. \A i \in 1..Len(slabConsTx) : IsAt(L, Y, slabConsTx[i], -1, i)
      <4>1. -1 # -2 /\ -1 # -3 /\ -1 \in Int
        OBVIOUS
      <4> QED BY <1>2, <2>8, <4>1, PortTypes DEF Located, PlacedTx
    <3>2. ASSUME NEW i \in 1..(Len(sending) - 1) PROVE IsAt(L, Y, sending'[i], -2, i)
      <4>1. i + 1 \in 1..Len(sending) /\ sending'[i] = sending[i + 1] /\ i + 1 # 1
            /\ (i + 1) - 1 = i
        BY <1>3
      <4>2. IsAt(K, X, sending[i + 1], -2, i + 1) /\ sending[i + 1] \in Buffers
        BY <1>2, <4>1, PortTypes DEF Located, PlacedTx
      <4>3. sending[i + 1] # h
        BY <1>h, <4>1, <4>2 DEF IsAt
      <4> QED BY <2>7, <4>1, <4>2, <4>3 DEF IsAt
    <3>3. \A i \in 1..Len(slabProdTx') : IsAt(L, Y, slabProdTx'[i], -3, i)
      <4>1. \A i \in 1..Len(slabProdTx') : i = 1
        BY <2>2
      <4> QED BY <2>2, <2>7, <4>1 DEF IsAt
    <3> QED BY <1>1, <1>3, <3>1, <3>2, <3>3 DEF PlacedTx
  <2>12. Aged(L, Y)'
    <3> SUFFICES ASSUME NEW a \in Buffers
        PROVE LET c == content[a]
              IN  /\ c <= received
                  /\ L[a] = 0 => c = 0 \/ c = Y[a] \/ c + 2 * SlabSize < Y[a]
                  /\ L[a] > 0 => c = 0 \/ c + Y[a] <= Released + Len(slabCons)
                  /\ L[a] < -1 => c = 0
      BY <1>1, <2>5 DEF Aged
    <3>1. Aged(K, X)
      BY <1>2 DEF Located
    <3>2. CASE a = h
      BY <1>h, <2>7, <3>1, <3>2 DEF Aged, IsAt
    <3>3. CASE a # h /\ K[a] = -3
      <4>1. content[a] = 0
        BY <3>1, <3>3 DEF Aged
      <4> QED BY <3>1, <4>1 DEF Aged
    <3>4. CASE a # h /\ K[a] # -3
      BY <2>7, <3>1, <3>4 DEF Aged
    <3> QED BY <3>2, <3>3, <3>4
  <2> QED BY <2>3, <2>5, <2>6, <2>7, <2>9, <2>10, <2>11, <2>12 DEF Port, Located
<1>8. \/ p < SlabSize /\ slabProdTx' = Append(slabProdTx, h) /\ pool' = pool
      \/ p = SlabSize /\ slabProdTx' = <<h>> /\ pool' = Append(pool, slabProdTx)
  BY DEF TxComplete, p, h
<1> QED BY <1>6, <1>7, <1>8

\* The last buffer of the slab is written to, and sent.
LEMMA PortTxSend ==
  ASSUME TypeOK, TypeOK', Port, TxSend
  PROVE  Port'
<1> DEFINE n == Len(sending)
           p == Len(slabConsTx)
           l == Last(slabConsTx)
<1> HIDE DEF Buffers
<1>0. Receiver /\ Sender /\ InOrder
  BY DEF Port
<1>1. /\ UNCHANGED rxSide /\ slabProdTx' = slabProdTx /\ pool' = pool
      /\ content' = [content EXCEPT ![l] = 0]
      /\ sending' = Append(sending, l) /\ slabConsTx' = Front(slabConsTx)
      /\ txPc # "check" /\ txPc' = (IF txBurst = 1 THEN "check" ELSE "send")
      /\ txBurst' = txBurst - 1
  BY DEF TxSend
<1>2. PICK K, X : Located(K, X)
  BY DEF Port
<1>3. /\ slabConsTx # <<>> /\ p \in Nat \ {0} /\ Len(slabConsTx') = p - 1
      /\ l = slabConsTx[p] /\ l \in Buffers
      /\ \A i \in 1..(p - 1) : slabConsTx'[i] = slabConsTx[i]
  <2>1. slabConsTx # <<>>
    BY <1>0, <1>1, PortTypes, LastBuffer DEF Sender
  <2>2. slabConsTx \in Seq(Buffers)
    BY PortTypes
  <2> QED BY <1>1, <2>1, <2>2, Unstacked
<1>4. /\ n \in Nat /\ Len(sending') = n + 1 /\ sending'[n + 1] = l
      /\ \A i \in 1..n : sending'[i] = sending[i]
  BY <1>1, <1>3, PortTypes, AppendProperties
<1>5. \A k \in 1..Len(pool) : Len(pool[k]) = SlabSize
  BY <1>0 DEF Receiver
<1> HIDE DEF n, p, l
<1>6. IsAt(K, X, l, -1, p)
  <2>1. p \in 1..Len(slabConsTx)
    BY <1>3 DEF p
  <2> QED BY <1>2, <1>3, <2>1 DEF Located, PlacedTx
<1>7. Sender'
  <2>1. txBurst \in Nat /\ txBurst > 0 /\ txBurst <= p /\ Len(slabProdTx) <= SlabSize
    BY <1>0, <1>1, PortTypes DEF Sender, p
  <2>2. txBurst - 1 <= p - 1 /\ (txBurst # 1 => txBurst - 1 > 0)
    BY <1>3, <2>1
  <2> QED BY <1>1, <1>3, <2>1, <2>2 DEF Sender
<1>8. /\ Receiver' /\ Released' = Released
      /\ slabCons' = slabCons /\ slabProd' = slabProd /\ fq' = fq /\ rx' = rx
      /\ received' = received /\ processed' = processed
  BY <1>0, <1>1, <1>5, ReceiverKept
<1>9. InOrder'
  <2> SUFFICES ASSUME NEW i \in (processed + 1)..Len(rx)
      PROVE content'[rx[i]] = Released + i
    BY <1>8 DEF InOrder
  <2>1. i \in 1..Len(rx)
    BY SMTT(60), PortTypes
  <2>2. IsAt(K, X, rx[i], 0, Released + i) /\ rx[i] \in Buffers
    BY <1>2, <2>1, PortTypes DEF Located, PlacedRx
  <2>3. rx[i] # l
    BY <1>6, <2>2 DEF IsAt
  <2>4. content'[rx[i]] = content[rx[i]]
    BY <1>1, <2>2, <2>3, PortTypes
  <2> QED BY <1>0, <2>4 DEF InOrder
<1> DEFINE G == [a \in Buffers |-> IF a = l THEN -2 ELSE K[a]]
           V == [a \in Buffers |-> IF a = l THEN n + 1 ELSE X[a]]
<1>10. PICK L \in [Buffers -> Int], Y \in [Buffers -> Int] :
         /\ L[l] = -2 /\ Y[l] = n + 1
         /\ \A a \in Buffers : a # l => L[a] = K[a] /\ Y[a] = X[a]
  <2>1. G \in [Buffers -> Int] /\ V \in [Buffers -> Int]
    BY <1>2, <1>4 DEF Located
  <2>2. /\ G[l] = -2 /\ V[l] = n + 1
        /\ \A a \in Buffers : a # l => G[a] = K[a] /\ V[a] = X[a]
    BY <1>3
  <2> HIDE DEF G, V
  <2> QED BY <2>1, <2>2
<1>11. ASSUME NEW a \in Buffers, NEW k \in Int, NEW x, IsAt(K, X, a, k, x), k # -1
       PROVE  IsAt(L, Y, a, k, x)
  BY <1>6, <1>10, <1>11 DEF IsAt
<1>12. PlacedRx(L, Y)'
  <2>1. \A i \in (processed + 1)..Len(rx) : i \in 1..Len(rx)
    BY PortTypes
  <2>2. 0 # -1 /\ 0 \in Int
    OBVIOUS
  <2>3. PlacedRx(L, Y)
    BY <1>2, <1>11, <2>1, <2>2, PortTypes DEF Located, PlacedRx
  <2> QED BY <1>8, <2>3 DEF PlacedRx
<1>13. PlacedPool(L, Y)'
  <2> SUFFICES ASSUME NEW k \in 1..Len(pool), NEW i \in 1..SlabSize
      PROVE IsAt(L, Y, pool[k][i], k, i)
    BY <1>1 DEF PlacedPool
  <2>1. k # -1 /\ k \in Int
    BY PortTypes
  <2>2. IsAt(K, X, pool[k][i], k, i)
    BY <1>2 DEF Located, PlacedPool
  <2>3. pool[k] \in Seq(Buffers) /\ Len(pool[k]) = SlabSize
    BY <1>5, PortTypes
  <2>4. pool[k][i] \in Buffers
    BY <2>3
  <2> QED BY <1>11, <2>1, <2>2, <2>4
<1>14. PlacedTx(L, Y)'
  <2>1. ASSUME NEW i \in 1..(p - 1) PROVE IsAt(L, Y, slabConsTx'[i], -1, i)
    <3>1. i \in 1..Len(slabConsTx) /\ i # p /\ slabConsTx'[i] = slabConsTx[i]
      BY <1>3 DEF p
    <3>2. IsAt(K, X, slabConsTx[i], -1, i) /\ slabConsTx[i] \in Buffers
      BY <1>2, <3>1, PortTypes DEF Located, PlacedTx
    <3>3. slabConsTx[i] # l
      BY <1>6, <3>1, <3>2 DEF IsAt
    <3> QED BY <1>10, <3>1, <3>2, <3>3 DEF IsAt
  <2>2. ASSUME NEW i \in 1..(n + 1) PROVE IsAt(L, Y, sending'[i], -2, i)
    <3>1. CASE i = n + 1
      BY <1>4, <1>10, <3>1 DEF IsAt
    <3>2. CASE i <= n
      <4>1. i \in 1..n /\ -2 # -1 /\ -2 \in Int
        BY <1>4, <3>2
      <4>2. IsAt(K, X, sending[i], -2, i) /\ sending[i] \in Buffers
        BY <1>2, <4>1, PortTypes DEF Located, PlacedTx, n
      <4> QED BY <1>4, <1>11, <4>1, <4>2
    <3> QED BY <1>4, <3>1, <3>2
  <2>3. \A i \in 1..Len(slabProdTx) : IsAt(L, Y, slabProdTx[i], -3, i)
    <3>1. -3 # -1 /\ -3 \in Int
      OBVIOUS
    <3> QED BY <1>2, <1>11, <3>1, PortTypes DEF Located, PlacedTx
  <2> QED BY <1>1, <1>3, <1>4, <2>1, <2>2, <2>3 DEF PlacedTx
<1>15. Aged(L, Y)'
  <2> SUFFICES ASSUME NEW a \in Buffers
      PROVE LET c == content'[a]
            IN  /\ c <= received
                /\ L[a] = 0 => c = 0 \/ c = Y[a] \/ c + 2 * SlabSize < Y[a]
                /\ L[a] > 0 => c = 0 \/ c + Y[a] <= Released + Len(slabCons)
                /\ L[a] < -1 => c = 0
    BY <1>8 DEF Aged
  <2>1. CASE a = l
    <3>1. content'[a] = 0
      BY <1>1, <2>1, PortTypes
    <3>2. 0 <= received
      BY Lengths
    <3>3. ~ (L[a] = 0) /\ ~ (L[a] > 0)
      BY <1>10, <2>1
    <3> QED BY <3>1, <3>2, <3>3
  <2>2. CASE a # l
    <3>1. content'[a] = content[a] /\ L[a] = K[a] /\ Y[a] = X[a]
      BY <1>1, <1>10, <2>2, PortTypes
    <3> QED BY <1>2, <3>1 DEF Located, Aged
  <2> QED BY <2>1, <2>2
<1> QED BY <1>7, <1>8, <1>9, <1>10, <1>12, <1>13, <1>14, <1>15 DEF Port, Located

\* Every step of the port leaves each buffer at its place.
LEMMA PortStep ==
  ASSUME TypeOK, TypeOK', Port, KernelReceive \/ RxStep \/ TxStep
  PROVE  Port'
BY PortReceive, PortSameBuffers, PortCheck, PortGiveBack, PortRefill,
   PortTxCheck, PortTxComplete, PortTxSend DEF RxStep, TxStep

\* The destination leaves the port alone.
LEMMA PortDestination ==
  ASSUME Port, DestStep
  PROVE  Port'
<1>1. UNCHANGED <<pool, content, rxSide, txSide>>
  BY DEF DestStep, DestPull, DestStart, DestCopy
<1>2. Receiver' /\ Sender'
  BY <1>1 DEF Port, Receiver, Sender, rxSide, txSide
<1> QED BY <1>1, <1>2, BuffersKept DEF rxSide, txSide

-----------------------------------------------------------------------------
(* The packets that wait *)

\* Where the thread is in its burst
LEMMA Counts ==
  ASSUME TypeOK, Receiver
  PROVE  /\ Released \in Nat /\ GivenBack = Released + processed /\ GivenBack \in Nat
         /\ Base \in Int /\ Base = GivenBack - Len(slabProd)
         /\ Done \in Nat /\ GivenBack <= Done /\ Done <= GivenBack + 1 /\ Done <= received
         /\ rxPc # "back" => Done = GivenBack
         /\ rxPc = "back" => Done = GivenBack + 1
<1>1. /\ received \in Nat /\ processed \in Nat /\ burst \in Nat
      /\ Len(rx) \in Nat /\ Len(slabProd) \in Nat
  BY PortTypes
<1>2. /\ Len(rx) <= received /\ processed <= burst
      /\ rxPc = "back" => processed < burst
      /\ rxPc = "peek" => processed = 0
      /\ rxPc # "peek" => burst <= Len(rx)
  BY DEF Receiver
<1>3. processed <= Len(rx) /\ (rxPc = "back" => processed + 1 <= Len(rx))
  BY <1>1, <1>2
<1> QED BY <1>1, <1>2, <1>3 DEF Released, GivenBack, Base, Done

\* A packet that waits has a buffer and a number.
LEMMA Queued ==
  ASSUME TypeOK, NEW e \in Waiting
  PROVE  e.addr \in Buffers /\ e.packet \in Nat
<1> HIDE DEF Buffers
<1>1. queue \in Seq(Entries) /\ collected \in Seq(Entries)
  BY DEF TypeOK
<1>2. ASSUME NEW q \in Seq(Entries), e \in ToSet(q)
      PROVE  e \in Entries
  BY <1>2 DEF ToSet
<1>3. e \in Entries
  BY <1>1, <1>2 DEF Waiting
<1> QED BY <1>3 DEF Entries

\* The elements of a sequence that grows or shrinks at the ends
LEMMA Elements ==
  ASSUME NEW T, NEW q \in Seq(T)
  PROVE  /\ \A x \in T : ToSet(Append(q, x)) = ToSet(q) \cup {x}
         /\ q # <<>> => ToSet(Tail(q)) \subseteq ToSet(q) /\ Head(q) \in ToSet(q)
<1>1. ASSUME NEW x \in T PROVE ToSet(Append(q, x)) = ToSet(q) \cup {x}
  <2>1. /\ Len(q) \in Nat /\ Len(Append(q, x)) = Len(q) + 1
        /\ \A i \in 1..Len(q) : Append(q, x)[i] = q[i]
        /\ Append(q, x)[Len(q) + 1] = x
    BY AppendProperties
  <2>2. \A i \in 1..(Len(q) + 1) : i \in 1..Len(q) \/ i = Len(q) + 1
    BY <2>1
  <2>3. 1..Len(q) \subseteq 1..(Len(q) + 1) /\ Len(q) + 1 \in 1..(Len(q) + 1)
    BY <2>1
  <2> QED BY <2>1, <2>2, <2>3 DEF ToSet
<1>2. ASSUME q # <<>> PROVE ToSet(Tail(q)) \subseteq ToSet(q) /\ Head(q) \in ToSet(q)
  <2>1. /\ Len(Tail(q)) = Len(q) - 1 /\ Len(q) \in Nat \ {0} /\ Head(q) = q[1]
        /\ \A i \in 1..(Len(q) - 1) : Tail(q)[i] = q[i + 1]
    BY <1>2, Shifted
  <2>2. 1 \in 1..Len(q) /\ \A i \in 1..(Len(q) - 1) : i + 1 \in 1..Len(q)
    BY <2>1
  <2> QED BY <2>1, <2>2 DEF ToSet
<1> QED BY <1>1, <1>2

\* No packet waits that did not wait before, but the one that is queued.
LEMMA WhoWaits ==
  ASSUME TypeOK, Receiver, Collector, Next, NEW e \in Waiting'
  PROVE  e \in Waiting \/ (RxQueue /\ e = Entry)
<1> HIDE DEF Buffers
<1>1. queue \in Seq(Entries) /\ collected \in Seq(Entries)
  BY DEF TypeOK
<1>2. CASE RxQueue
  <2>1. Entry \in Entries
    <3>1. Current \in Buffers
      BY <1>2, CurrentBuffer DEF RxQueue
    <3> QED BY <3>1 DEF Entry, Entries, TypeOK
  <2>2. ToSet(queue') \subseteq ToSet(queue) \cup {Entry} /\ collected' = collected
    BY <1>1, <1>2, <2>1, Elements DEF RxQueue
  <2> QED BY <1>2, <2>2 DEF Waiting
<1>3. CASE DestPull
  <2>1. queue # <<>> /\ collected' = Append(collected, Head(queue)) /\ queue' = Tail(queue)
    BY <1>3 DEF DestPull
  <2>2. Head(queue) \in Entries /\ Head(queue) \in ToSet(queue)
    BY <1>1, <2>1, Shifted, Elements
  <2>3. /\ ToSet(queue') \subseteq ToSet(queue)
        /\ ToSet(collected') = ToSet(collected) \cup {Head(queue)}
    BY <1>1, <2>1, <2>2, Elements
  <2> QED BY <2>2, <2>3 DEF Waiting
<1>4. CASE DestCopy /\ collected # <<>>
  <2>1. ToSet(collected') \subseteq ToSet(collected) /\ queue' = queue
    BY <1>1, <1>4, Elements DEF DestCopy
  <2> QED BY <2>1 DEF Waiting
<1>5. CASE UNCHANGED <<queue, collected>>
  BY <1>5 DEF Waiting
<1>6. DestCopy => collected # <<>>
  BY DEF DestCopy, Collector
<1>7. RxStep /\ ~ RxQueue => UNCHANGED <<queue, collected>>
  BY DEF RxStep, RxCheck, RxPeek, RxDrop, RxGiveBack, RxRefill, destination
<1>8. KernelReceive \/ TxStep \/ DestStart => UNCHANGED <<queue, collected>>
  BY DEF KernelReceive, TxStep, TxCheck, TxComplete, TxSend, DestStart, destination
<1> QED BY <1>2, <1>3, <1>4, <1>5, <1>6, <1>7, <1>8 DEF Next, DestStep

\* The number of the packet in hand, and the buffer it is in
LEMMA InHand ==
  ASSUME TypeOK, Port, rxPc # "peek", processed < burst
  PROVE  /\ Current \in Buffers /\ content[Current] = GivenBack + 1
         /\ \A K, X : Located(K, X) => IsAt(K, X, Current, 0, GivenBack + 1)
<1>1. Receiver
  BY DEF Port
<1>2. Current \in Buffers /\ Current = rx[processed + 1] /\ processed + 1 \in 1..Len(rx)
  BY <1>1, CurrentBuffer
<1>3. processed + 1 \in (processed + 1)..Len(rx)
  BY <1>2, PortTypes
<1>4. Released + (processed + 1) = GivenBack + 1
  BY SMTT(60), <1>1, Counts, Lengths
<1>5. content[Current] = GivenBack + 1
  BY <1>2, <1>3, <1>4 DEF Port, InOrder
<1>6. ASSUME NEW K, NEW X, Located(K, X) PROVE IsAt(K, X, Current, 0, GivenBack + 1)
  BY <1>2, <1>3, <1>4, <1>6 DEF Located, PlacedRx
<1> QED BY <1>2, <1>5, <1>6

\* The buffer of a packet that has not been traded for has its number.
LEMMA Numbered ==
  ASSUME TypeOK, Port, NEW e \in Waiting, Waits(e), e.packet > Base,
         NEW K, NEW X, Located(K, X)
  PROVE  IsAt(K, X, e.addr, 0, e.packet)
<1>1. Receiver
  BY DEF Port
<1>2. e.packet \in Nat /\ e.packet <= Done
  BY Queued DEF Waits
<1>3. CASE e.packet <= GivenBack
  <2>1. e.addr = slabProd[e.packet - Base]
    BY <1>3 DEF Waits, Held
  <2>2. /\ e.packet - Base \in 1..Len(slabProd)
        /\ Released + processed - Len(slabProd) + (e.packet - Base) = e.packet
    <3>1. /\ Base = GivenBack - Len(slabProd) /\ GivenBack = Released + processed
          /\ GivenBack \in Nat /\ Released \in Nat
      BY <1>1, Counts
    <3>2. e.packet \in Nat /\ Base < e.packet /\ e.packet <= GivenBack
      BY <1>2, <1>3, <3>1, Lengths
    <3>3. e.packet - Base \in 1..Len(slabProd)
      <4>1. PICK p \in Nat, n \in Nat, g \in Nat :
              p = e.packet /\ n = Len(slabProd) /\ g = GivenBack
        BY <3>1, <3>2, Lengths
      <4>2. g - n < p /\ p <= g /\ Base = g - n
        BY <3>1, <3>2, <4>1
      <4>3. p - (g - n) \in 1..n
        BY <4>2
      <4> QED BY <4>1, <4>2, <4>3
    <3>4. Base = Released + processed - Len(slabProd) /\ Base \in Int
      BY SMTT(60), <3>1, Lengths
    <3>5. Base + (e.packet - Base) = e.packet
      BY <3>2, <3>4
    <3> QED BY <3>3, <3>4, <3>5
  <2> QED BY <2>1, <2>2 DEF Located, PlacedRx
<1>4. CASE e.packet > GivenBack
  <2>1. e.addr = Current
    BY <1>4 DEF Waits, Held
  <2>2. e.packet = GivenBack + 1 /\ rxPc = "back" /\ processed < burst
    BY <1>1, <1>2, <1>4, Counts DEF Receiver
  <2> QED BY <2>1, <2>2, InHand
<1> QED BY <1>1, <1>2, <1>3, <1>4, Counts

\* What the thread is done with, as long as it gives no buffer back
LEMMA DoneReceiver ==
  ASSUME TypeOK, Receiver, RxStep, ~ RxGiveBack
  PROVE  GivenBack' = GivenBack /\ Base' = Base /\ Done <= Done' /\ Done' \in Int
<1> HIDE DEF Buffers
<1>1. received' = received /\ slabProd' = slabProd /\ rxPc # "back"
  BY DEF RxStep, RxCheck, RxPeek, RxDrop, RxQueue, RxRefill
<1>2. GivenBack' = GivenBack
  <2>1. CASE RxRefill
    <3>1. /\ burst \in 0..Len(rx) /\ processed = burst /\ rx \in Seq(Buffers)
          /\ rx' = SubSeq(rx, burst + 1, Len(rx)) /\ processed' = 0
      BY <2>1, PortTypes DEF RxRefill, Receiver
    <3>2. Len(rx') = Len(rx) - burst
      BY <3>1, Split
    <3> QED BY SMTT(60), <1>1, <3>1, <3>2, Lengths DEF GivenBack
  <2>2. CASE ~ RxRefill
    BY <1>1, <2>2 DEF RxStep, RxCheck, RxPeek, RxDrop, RxQueue, GivenBack
  <2> QED BY <2>1, <2>2
<1>3. Done = GivenBack /\ GivenBack \in Nat
  BY <1>1, Counts
<1>4. Done' = GivenBack \/ Done' = GivenBack + 1
  BY <1>2, <1>3 DEF Done
<1> QED BY <1>1, <1>2, <1>3, <1>4 DEF Base

\* and when it gives one back
LEMMA DoneGiveBack ==
  ASSUME TypeOK, Receiver, RxGiveBack
  PROVE  GivenBack' = GivenBack + 1 /\ Done' = Done
<1>1. /\ received' = received /\ rx' = rx
      /\ rxPc = "back" /\ rxPc' = "process" /\ processed' = processed + 1
  BY DEF RxGiveBack
<1>2. GivenBack' = GivenBack + 1
  BY SMTT(60), <1>1, Lengths DEF GivenBack
<1>3. Done = GivenBack + 1 /\ GivenBack \in Nat
  BY <1>1, Counts
<1>4. Done' = GivenBack'
  BY <1>1, <1>2, <1>3 DEF Done
<1> QED BY <1>2, <1>3, <1>4

\* Packets that arrive do not change that.
LEMMA DoneReceive ==
  ASSUME TypeOK, Receiver, KernelReceive
  PROVE  GivenBack' = GivenBack /\ Base' = Base /\ Done' = Done
<1> HIDE DEF Buffers
<1>1. /\ fq # <<>> /\ received' = received + 1 /\ rx' = Append(rx, Head(fq))
      /\ slabProd' = slabProd /\ processed' = processed /\ rxPc' = rxPc
  BY DEF KernelReceive
<1>2. Head(fq) \in Buffers
  BY <1>1, Shifted, PortTypes
<1>3. Len(rx') = Len(rx) + 1
  BY <1>1, <1>2, PortTypes, AppendProperties
<1>4. GivenBack' = GivenBack
  BY SMTT(60), <1>1, <1>3, Lengths DEF GivenBack
<1> QED BY <1>1, <1>4 DEF Done, Base

\* What the receive thread is done with, it remains done with.
LEMMA DoneGrows ==
  ASSUME TypeOK, Receiver, Next
  PROVE  Done <= Done' /\ Done' \in Int
<1>1. Done \in Nat
  BY Counts
<1>2. CASE KernelReceive
  BY <1>1, <1>2, DoneReceive
<1>3. CASE RxStep /\ ~ RxGiveBack
  BY <1>3, DoneReceiver
<1>4. CASE RxGiveBack
  BY <1>1, <1>4, DoneGiveBack
<1>5. CASE TxStep \/ DestStep
  <2>1. UNCHANGED rxSide
    BY <1>5 DEF TxStep, TxCheck, TxComplete, TxSend, DestStep, DestPull, DestStart, DestCopy
  <2> QED BY <1>1, <2>1 DEF rxSide, Done, GivenBack
<1> QED BY <1>2, <1>3, <1>4, <1>5 DEF Next

\* The kernel writes to the buffer of the next packet, which is not the one of
\* a packet in the producer slab, and if it is that of an older packet, two
\* slabs of packets were received since.
LEMMA WaitsReceive ==
  ASSUME TypeOK, TypeOK', Port, Port', KernelReceive, NEW e \in Waiting, Waits(e)
  PROVE  Waits(e)'
<1> HIDE DEF Buffers
<1>0. Receiver /\ Receiver'
  BY DEF Port
<1>1. /\ fq # <<>> /\ received' = received + 1 /\ rx' = Append(rx, Head(fq))
      /\ content' = [content EXCEPT ![Head(fq)] = received + 1]
      /\ slabProd' = slabProd /\ processed' = processed /\ rxPc' = rxPc
      /\ slabConsTx' = slabConsTx /\ lastTaken' = lastTaken
  BY DEF KernelReceive, txSide
<1>2. Head(fq) = fq[1] /\ Head(fq) \in Buffers /\ Len(fq) \in Nat \ {0}
  BY <1>1, Shifted, PortTypes
<1>3. Len(rx') = Len(rx) + 1 /\ \A i \in 1..Len(rx) : rx'[i] = rx[i]
  BY <1>1, <1>2, PortTypes, AppendProperties
<1>4. GivenBack' = GivenBack /\ Done' = Done /\ Base' = Base
  BY <1>0, DoneReceive
<1>5. PICK K, X : Located(K, X)
  BY DEF Port
<1>6. IsAt(K, X, Head(fq), 0, received + 1)
  BY <1>2, <1>5 DEF Located, PlacedRx
<1>7. e.addr \in Buffers /\ e.packet \in Nat /\ 0 < e.packet /\ e.packet <= Done
  BY Queued DEF Waits
<1>8. e.packet <= received
  <2>1. Done <= received /\ Done \in Nat
    BY <1>0, Counts
  <2> QED BY SMTT(60), <1>7, <2>1, Lengths
<1>9. e.addr # Head(fq) => content'[e.addr] = content[e.addr]
  BY <1>1, <1>7, PortTypes
<1>10. Held(e)'
  <2> SUFFICES ASSUME e.packet > Base
      PROVE /\ content'[e.addr] = e.packet
            /\ e.packet <= GivenBack => e.addr = slabProd[e.packet - Base]
            /\ e.packet > GivenBack => e.addr = Current'
    BY <1>1, <1>4 DEF Held, Intact
  <2>1. e.addr # Head(fq)
    <3>1. IsAt(K, X, e.addr, 0, e.packet)
      BY <1>5, Numbered
    <3> QED BY SMTT(60), <1>6, <1>8, <3>1, PortTypes DEF IsAt
  <2>2. e.packet > GivenBack => Current' = Current
    <3> SUFFICES ASSUME e.packet > GivenBack PROVE Current' = Current
      OBVIOUS
    <3>1. rxPc = "back" /\ processed < burst
      BY SMTT(60), <1>0, <1>7, Counts DEF Receiver
    <3>2. processed + 1 \in 1..Len(rx)
      BY <1>0, <3>1, CurrentBuffer
    <3> QED BY <1>1, <1>3, <3>2 DEF Current
  <2> QED BY <1>9, <2>1, <2>2 DEF Waits, Held, Intact
<1>11. Late(e)'
  <2> SUFFICES ASSUME e.packet > lastTaken, (received + 1) - e.packet <= 2 * SlabSize
      PROVE content'[e.addr] = e.packet
    BY <1>1 DEF Late, Intact
  <2>1. content[e.addr] = e.packet
    <3>1. received - e.packet <= 2 * SlabSize
      BY SMTT(60), <1>7, Lengths, Sizes
    <3> QED BY <3>1 DEF Waits, Late, Intact
  <2>2. e.addr # Head(fq)
    <3> SUFFICES ASSUME e.addr = Head(fq) PROVE FALSE
      OBVIOUS
    <3>1. content[e.addr] = 0 \/ content[e.addr] = received + 1
          \/ content[e.addr] + 2 * SlabSize < received + 1
      BY <1>5, <1>6, <1>7 DEF Located, Aged, IsAt
    <3> QED BY SMTT(60), <1>7, <1>8, <2>1, <3>1, Lengths, Sizes
  <2> QED BY <1>9, <2>1, <2>2
<1>12. Untaken(e)'
  BY <1>1 DEF Waits, Untaken
<1> QED BY <1>4, <1>7, <1>10, <1>11, <1>12 DEF Waits

\* As long as the receive thread gives no buffer back, nothing changes.
LEMMA WaitsReceiver ==
  ASSUME TypeOK, TypeOK', Port, Port', RxStep, ~ RxGiveBack, NEW e \in Waiting, Waits(e)
  PROVE  Waits(e)'
<1> HIDE DEF Buffers
<1>0. Receiver /\ Receiver'
  BY DEF Port
<1>1. /\ content' = content /\ received' = received /\ slabProd' = slabProd
      /\ slabConsTx' = slabConsTx /\ lastTaken' = lastTaken /\ rxPc # "back"
  BY DEF RxStep, RxCheck, RxPeek, RxDrop, RxQueue, RxRefill, txSide
<1>2. GivenBack' = GivenBack /\ Base' = Base /\ Done <= Done'
  BY <1>0, DoneReceiver
<1>4. e.packet \in Nat /\ e.packet <= GivenBack /\ e.packet <= Done
  BY <1>0, <1>1, Queued, Counts DEF Waits
<1>5. Held(e)'
  <2>1. ~ (e.packet > GivenBack)
    BY <1>0, <1>4, Counts
  <2> QED BY <1>1, <1>2, <2>1 DEF Waits, Held, Intact
<1>6. Untaken(e)' /\ Late(e)'
  BY <1>1 DEF Waits, Untaken, Late, Intact
<1>7. e.packet <= Done'
  <2>1. Done \in Nat /\ Done <= Done' /\ Done' \in Int
    BY <1>0, Counts, DoneReceiver
  <2> QED BY <1>4, <2>1
<1> QED BY <1>5, <1>6, <1>7 DEF Waits

\* The buffer that is given back is the next one of the producer slab.
LEMMA WaitsGiveBack ==
  ASSUME TypeOK, TypeOK', Port, Port', RxGiveBack, NEW e \in Waiting, Waits(e)
  PROVE  Waits(e)'
<1> DEFINE p == Len(slabProd)
<1> HIDE DEF Buffers
<1>0. Receiver /\ Receiver'
  BY DEF Port
<1>1. /\ content' = content /\ received' = received /\ rx' = rx
      /\ slabConsTx' = slabConsTx /\ lastTaken' = lastTaken
      /\ rxPc = "back" /\ rxPc' = "process" /\ processed' = processed + 1
  BY DEF RxGiveBack, txSide
<1>2. GivenBack' = GivenBack + 1 /\ Done' = Done
  BY <1>0, DoneGiveBack
<1>3. Base = GivenBack - p /\ GivenBack \in Nat /\ p \in Nat /\ Done \in Nat
  BY <1>0, Counts, Lengths
<1>4. e.packet \in Nat /\ e.packet <= GivenBack + 1
  <2>1. e.packet \in Nat /\ e.packet <= Done
    BY Queued DEF Waits
  <2> QED BY <1>0, <1>1, <2>1, Counts
<1>5. Current \in Buffers
  BY <1>0, <1>1, CurrentBuffer DEF Receiver
<1>6. Untaken(e)' /\ Late(e)'
  BY <1>1 DEF Waits, Untaken, Late, Intact
<1>7. Held(e)'
  <2>1. CASE p < SlabSize /\ slabProd' = Append(slabProd, Current)
    <3>1. /\ Len(slabProd') = p + 1 /\ slabProd'[p + 1] = Current
          /\ \A i \in 1..p : slabProd'[i] = slabProd[i]
      BY <1>5, <2>1, PortTypes, AppendProperties
    <3>2. Base' = Base
      <4>1. Base' = (GivenBack + 1) - (p + 1)
        BY <1>2, <3>1 DEF Base
      <4> QED BY <1>3, <4>1
    <3> SUFFICES ASSUME e.packet > Base
        PROVE /\ content[e.addr] = e.packet
              /\ e.addr = slabProd'[e.packet - Base]
              /\ ~ (e.packet > GivenBack + 1)
      BY <1>1, <1>2, <3>2 DEF Held, Intact
    <3>3. content[e.addr] = e.packet
      BY DEF Waits, Held, Intact
    <3>4. CASE e.packet <= GivenBack
      <4>1. e.addr = slabProd[e.packet - Base]
        BY <3>4 DEF Waits, Held
      <4>2. e.packet - Base \in 1..p
        <5>1. PICK k \in Nat, g \in Nat : k = e.packet /\ g = GivenBack
          BY <1>3, <1>4
        <5>2. g - p < k /\ k <= g /\ Base = g - p
          BY <1>3, <3>4, <5>1
        <5>3. k - (g - p) \in 1..p
          BY <1>3, <5>2
        <5> QED BY <5>1, <5>2, <5>3
      <4> QED BY <1>4, <1>3, <3>1, <3>3, <4>1, <4>2
    <3>5. CASE e.packet > GivenBack
      <4>1. e.addr = Current
        BY <3>5 DEF Waits, Held
      <4>2. e.packet = GivenBack + 1 /\ e.packet - Base = p + 1
        <5>1. e.packet = GivenBack + 1
          BY <1>3, <1>4, <3>5
        <5> QED BY <1>3, <5>1
      <4> QED BY <1>3, <3>1, <3>3, <4>1, <4>2
    <3> QED BY <1>3, <1>4, <3>4, <3>5
  <2>2. CASE p = SlabSize /\ slabProd' = <<Current>>
    <3>1. Len(slabProd') = 1 /\ slabProd'[1] = Current
      BY <2>2
    <3>2. Base' = GivenBack
      <4>1. Base' = (GivenBack + 1) - 1
        BY <1>2, <3>1 DEF Base
      <4> QED BY <1>3, <4>1
    <3> SUFFICES ASSUME e.packet > GivenBack
        PROVE /\ content[e.addr] = e.packet
              /\ e.addr = slabProd'[e.packet - GivenBack]
              /\ ~ (e.packet > GivenBack + 1)
      BY <1>1, <1>2, <3>2 DEF Held, Intact
    <3>3. e.packet = GivenBack + 1 /\ e.packet - GivenBack = 1
      <4>1. e.packet = GivenBack + 1
        BY <1>3, <1>4
      <4> QED BY <1>3, <4>1
    <3>4. e.packet > Base
      BY <1>3, <3>3
    <3>5. content[e.addr] = e.packet /\ e.addr = Current
      BY <3>4 DEF Waits, Held, Intact
    <3> QED BY <1>3, <3>1, <3>3, <3>5
  <2> QED BY <2>1, <2>2 DEF RxGiveBack
<1> QED BY <1>2, <1>3, <1>6, <1>7 DEF Waits

\* The transmit thread may take the slab that the packet's buffer is in; what
\* becomes of the buffer is no longer known.
LEMMA WaitsTxCheck ==
  ASSUME TypeOK, Port, TxCheck \/ TxComplete, NEW e \in Waiting, Waits(e)
  PROVE  Waits(e)'
<1>1. content' = content /\ UNCHANGED rxSide
  BY DEF TxCheck, TxComplete
<1>2. Done' = Done /\ Held(e)'
  BY <1>1 DEF rxSide, Done, GivenBack, Waits, Held, Base, Intact, Current
<1>3. CASE slabConsTx' = slabConsTx /\ lastTaken' = lastTaken
  BY <1>1, <1>2, <1>3 DEF rxSide, Waits, Untaken, Late, Intact
<1>4. CASE lastTaken' = Done
  <2>1. ~ (e.packet > Done)
    <3>1. e.packet \in Nat /\ e.packet <= Done /\ Done \in Nat
      BY Queued, Counts DEF Waits, Port
    <3> QED BY <3>1
  <2> QED BY <1>2, <1>4, <2>1 DEF Waits, Untaken, Late
<1> QED BY <1>3, <1>4 DEF TxCheck, TxComplete

\* It does not write to a buffer that has not been traded for, or that was not
\* in a slab it has taken.
LEMMA WaitsTxSend ==
  ASSUME TypeOK, Port, TxSend, NEW e \in Waiting, Waits(e)
  PROVE  Waits(e)'
<1> DEFINE l == Last(slabConsTx)
           p == Len(slabConsTx)
<1> HIDE DEF Buffers
<1>1. /\ UNCHANGED rxSide /\ lastTaken' = lastTaken /\ slabConsTx' = Front(slabConsTx)
      /\ content' = [content EXCEPT ![l] = 0] /\ txPc # "check"
  BY DEF TxSend
<1>2. /\ p \in Nat \ {0} /\ Len(slabConsTx') = p - 1 /\ l = slabConsTx[p] /\ l \in Buffers
      /\ \A i \in 1..(p - 1) : slabConsTx'[i] = slabConsTx[i]
  <2>1. slabConsTx # <<>> /\ slabConsTx \in Seq(Buffers)
    BY <1>1, PortTypes, LastBuffer DEF Port, Sender
  <2> QED BY <1>1, <2>1, Unstacked
<1> HIDE DEF l
<1>3. e.addr \in Buffers
  BY Queued
<1>4. e.addr # l => content'[e.addr] = content[e.addr]
  BY <1>1, <1>3, PortTypes
<1>5. /\ Done' = Done /\ Base' = Base /\ GivenBack' = GivenBack /\ Current' = Current
      /\ received' = received /\ slabProd' = slabProd
  BY <1>1 DEF rxSide, Done, GivenBack, Base, Current
<1>6. Untaken(e)'
  <2> SUFFICES ASSUME e.packet > lastTaken, NEW i \in 1..(p - 1)
      PROVE slabConsTx'[i] # e.addr
    BY <1>1, <1>2 DEF Untaken
  <2>1. i \in 1..Len(slabConsTx)
    BY <1>2
  <2> QED BY <1>2, <2>1 DEF Waits, Untaken
<1>7. Held(e)'
  <2> SUFFICES ASSUME e.packet > Base PROVE e.addr # l
    BY <1>4, <1>5 DEF Waits, Held, Intact
  <2>1. PICK K, X : Located(K, X)
    BY DEF Port
  <2>2. IsAt(K, X, e.addr, 0, e.packet)
    BY <2>1, Numbered
  <2>3. p \in 1..Len(slabConsTx)
    BY <1>2
  <2>4. IsAt(K, X, l, -1, p)
    BY <1>2, <2>1, <2>3 DEF Located, PlacedTx
  <2> QED BY <2>2, <2>4 DEF IsAt
<1>8. Late(e)'
  <2> SUFFICES ASSUME e.packet > lastTaken, received - e.packet <= 2 * SlabSize
      PROVE content'[e.addr] = e.packet
    BY <1>1, <1>5 DEF Late, Intact
  <2>1. p \in 1..Len(slabConsTx)
    BY <1>2
  <2>2. e.addr # l
    BY <1>2, <2>1 DEF Waits, Untaken
  <2> QED BY <1>4, <2>2 DEF Waits, Late, Intact
<1> QED BY <1>5, <1>6, <1>7, <1>8 DEF Waits

\* A packet that is queued is in the buffer in hand.
LEMMA WaitsEntry ==
  ASSUME TypeOK, TypeOK', Port, Port', RxQueue, NEW e, e = Entry
  PROVE  Waits(e)'
<1> HIDE DEF Buffers
<1>0. Receiver /\ Receiver'
  BY DEF Port
<1>1. /\ rxPc = "process" /\ rxPc' = "back" /\ processed < burst
      /\ UNCHANGED <<pool, content, slabCons, slabProd, fq, rx, received, burst, processed>>
      /\ UNCHANGED txSide
  BY DEF RxQueue
<1>2. PICK K, X : Located(K, X)
  BY DEF Port
<1>3. /\ Current \in Buffers /\ content[Current] = GivenBack + 1
      /\ IsAt(K, X, Current, 0, GivenBack + 1)
  BY <1>1, <1>2, InHand
<1>4. e.addr = Current /\ e.packet = GivenBack + 1
  BY <1>3 DEF Entry
<1>5. Current' = Current /\ GivenBack' = GivenBack /\ Base' = Base
  BY <1>1 DEF Current, GivenBack, Base
<1>6. /\ GivenBack \in Nat /\ Done' = GivenBack + 1 /\ Base = GivenBack - Len(slabProd)
      /\ Len(slabProd) \in Nat
  BY <1>0, <1>1, <1>5, Counts, Lengths DEF Done
<1>7. content'[e.addr] = e.packet
  BY <1>1, <1>3, <1>4
<1>8. 0 < e.packet /\ e.packet <= Done' /\ ~ (e.packet <= GivenBack)
  BY <1>4, <1>6
<1>9. \A i \in 1..Len(slabConsTx) : slabConsTx[i] # e.addr
  BY <1>2, <1>3, <1>4 DEF Located, PlacedTx, IsAt
<1>10. /\ e.packet > lastTaken' => \A i \in 1..Len(slabConsTx') : slabConsTx'[i] # e.addr
  BY <1>1, <1>9 DEF txSide
<1> QED BY <1>4, <1>5, <1>7, <1>8, <1>10 DEF Waits, Untaken, Held, Late, Intact

\* All packets that wait are where they should be after each step.
LEMMA WaitersStep ==
  ASSUME TypeOK, TypeOK', Port, Port', Collector, Waiters, Next
  PROVE  Waiters'
<1>0. Receiver /\ Receiver'
  BY DEF Port
<1>1. ASSUME NEW e \in Waiting PROVE Waits(e)'
  <2>1. Waits(e)
    BY DEF Waiters
  <2>2. CASE KernelReceive
    BY <2>1, <2>2, WaitsReceive
  <2>3. CASE RxStep
    BY <2>1, <2>3, WaitsReceiver, WaitsGiveBack DEF RxStep
  <2>4. CASE TxStep
    BY <2>1, <2>4, WaitsTxCheck, WaitsTxSend DEF TxStep
  <2>5. CASE DestStep
    <3>1. UNCHANGED <<content, rxSide, txSide>>
      BY <2>5 DEF DestStep, DestPull, DestStart, DestCopy
    <3> QED BY <2>1, <3>1 DEF rxSide, txSide, Waits, Untaken, Held, Late, Intact, Done, Base,
                              GivenBack, Current
  <2> QED BY <2>2, <2>3, <2>4, <2>5 DEF Next
<1>2. ASSUME NEW e \in Waiting' PROVE Waits(e)'
  <2>1. CASE e \in Waiting
    BY <1>1, <2>1
  <2>2. CASE RxQueue /\ e = Entry
    BY <2>2, WaitsEntry
  <2> QED BY <1>0, <2>1, <2>2, WhoWaits
<1>3. lastTaken' <= Done'
  <2>1. /\ Done \in Nat /\ Done' \in Int /\ Done <= Done'
        /\ lastTaken \in Int /\ lastTaken <= Done
    BY <1>0, Counts, DoneGrows DEF Waiters, TypeOK
  <2>2. CASE TxCheck
    <3>1. Done' = Done /\ (lastTaken' = lastTaken \/ lastTaken' = Done)
      BY <2>2 DEF TxCheck, rxSide, Done, GivenBack
    <3> QED BY <2>1, <3>1
  <2>3. CASE ~ TxCheck
    <3>1. lastTaken' = lastTaken
      BY <2>3 DEF Next, KernelReceive, RxStep, RxCheck, RxPeek, RxDrop, RxQueue, RxGiveBack,
                  RxRefill, TxStep, TxComplete, TxSend, DestStep, DestPull, DestStart, DestCopy,
                  txSide
    <3> QED BY <2>1, <3>1
  <2> QED BY <2>2, <2>3
<1> QED BY <1>2, <1>3 DEF Waiters

-----------------------------------------------------------------------------
(* The invariant of the buffers *)

\* The destination collects packets before it copies them.
LEMMA CollectorStep ==
  ASSUME TypeOK, Collector, Next
  PROVE  Collector'
<1>1. CASE DestPull
  BY <1>1 DEF DestPull, Collector
<1>2. CASE DestStart
  BY <1>2 DEF DestStart, Collector
<1>3. CASE DestCopy
  <2>1. collected \in Seq(Entries) /\ collected # <<>> /\ collected' = Tail(collected)
    BY <1>3 DEF DestCopy, Collector, TypeOK
  <2>2. Len(collected) # 1 => collected' # <<>>
    <3>1. Len(Tail(collected)) = Len(collected) - 1 /\ Len(collected) \in Nat
      BY <2>1, Shifted
    <3>2. collected' = <<>> => Len(collected') = 0
      OBVIOUS
    <3> QED BY <2>1, <3>1, <3>2
  <2> QED BY <1>3, <2>2 DEF DestCopy, Collector
<1>4. CASE KernelReceive \/ RxStep \/ TxStep
  <2>1. destPc' = destPc /\ collected' = collected
    BY <1>4 DEF KernelReceive, RxStep, RxCheck, RxPeek, RxDrop, RxQueue, RxGiveBack, RxRefill,
                TxStep, TxCheck, TxComplete, TxSend, destination
  <2> QED BY <2>1 DEF Collector
<1> QED BY <1>1, <1>2, <1>3, <1>4 DEF Next, DestStep

\* The initial state is one of the invariant,
LEMMA BuffersInit == Init => IInv
<1> SUFFICES ASSUME Init PROVE IInv
  OBVIOUS
<1>1. TypeOK /\ Port
  BY TypeInit, PortInit
<1>2. queue = <<>> /\ collected = <<>> /\ destPc = "pull" /\ lastTaken = 0
  BY DEF Init
<1>3. Waiting = {}
  BY <1>2 DEF Waiting, ToSet
<1>4. lastTaken <= Done
  <2>1. Done \in Nat
    BY <1>1, Counts DEF Port
  <2> QED BY <1>2, <2>1
<1> QED BY <1>1, <1>2, <1>3, <1>4 DEF IInv, Waiters, Collector

\* and every step keeps it.
LEMMA BuffersStep == IInv /\ [Next]_vars => IInv'
<1> SUFFICES ASSUME IInv, [Next]_vars PROVE IInv'
  OBVIOUS
<1>1. CASE Next
  <2>1. TypeOK /\ Receiver /\ Sender /\ Port /\ Waiters /\ Collector
    BY DEF IInv, Port
  <2>2. TypeOK'
    BY <1>1, <2>1, TypeReceive, TypeReceiver, TypeSender, TypeDestination DEF Next
  <2>3. Port'
    BY <1>1, <2>1, <2>2, PortStep, PortDestination DEF Next
  <2>4. Waiters'
    BY <1>1, <2>1, <2>2, <2>3, WaitersStep
  <2>5. Collector'
    BY <1>1, <2>1, CollectorStep
  <2> QED BY <2>2, <2>3, <2>4, <2>5 DEF IInv
<1>2. CASE UNCHANGED vars
  <2>1. TypeOK' /\ Collector'
    BY <1>2 DEF vars, rxSide, txSide, destination, IInv, TypeOK, Collector
  <2>2. Receiver' /\ Sender'
    BY <1>2 DEF vars, rxSide, txSide, IInv, Port, Receiver, Sender
  <2>3. Port'
    BY <1>2, <2>2, BuffersKept DEF IInv, vars, rxSide, txSide
  <2>4. Waiters'
    BY <1>2 DEF vars, rxSide, txSide, destination, IInv, Waiters, Waiting, Waits, Untaken, Held,
                Late, Intact, Done, Base, GivenBack, Current
  <2> QED BY <2>1, <2>3, <2>4 DEF IInv
<1> QED BY <1>1, <1>2

-----------------------------------------------------------------------------
(* The invariant of the tokens *)

Using == Token!Holders \cup Token!Pushers

TokenTypes ==
  /\ tRxPc \in [Sources -> {"idle", "hold", "push"}] /\ tAge \in [Sources -> Nat]
  /\ tTransit \in Nat /\ tQueued \in Nat /\ tCollected \in Nat
  /\ tTxPc \in {"pull", "release", "copy"}

OneSource == \A p, q \in Sources : p = q

(* There are never more tokens than cells, and each cell that a receive     *)
(* thread still holds is ahead of the tail of the transit queue, or at it.  *)
(* A single receive thread takes no other cell while it holds one.          *)
TokenInv ==
  /\ TokenTypes
  /\ 1 <= Token!TokensLeft /\ Token!TokensLeft <= Tokens
  /\ \A s \in Token!Holders : 1 <= tAge[s] /\ tAge[s] + tTransit <= Tokens
  /\ tTxPc # "pull" => tCollected > 0
  /\ OneSource => /\ Token!TokensLeft = Tokens
                  /\ \A s \in Token!Holders : tAge[s] = 1

\* The instance has the same finite sets.
LEMMA Counting ==
  ASSUME NEW S
  PROVE  /\ Token!IsFiniteSet(S) <=> IsFiniteSet(S)
         /\ Token!Cardinality(S) = Cardinality(S)
<1>1. Token!IsFiniteSet(S) <=> IsFiniteSet(S)
  BY Zenon DEF Token!IsFiniteSet, IsFiniteSet
<1>2. Token!Cardinality(S) = Cardinality(S)
  BY Zenon DEF Token!Cardinality, Cardinality
<1> QED BY <1>1, <1>2

\* Threads with a token are as many as a number says.
LEMMA UsingFinite ==
  /\ IsFiniteSet(Using) /\ Cardinality(Using) \in Nat
  /\ \A s \in Using : Cardinality(Using) >= 1
  /\ Token!TokensLeft = tTransit + Cardinality(Using) + tQueued + tCollected
<1>1. IsFiniteSet(Sources)
  BY TokenAssumption, Counting DEF Token!TokenParameters
<1>2. Using \subseteq Sources
  BY DEF Using, Token!Holders, Token!Pushers
<1>3. IsFiniteSet(Using) /\ Cardinality(Using) \in Nat
  BY <1>1, <1>2, FS_Subset, FS_CardinalityType
<1>4. ASSUME NEW s \in Using PROVE Cardinality(Using) >= 1
  <2>1. Cardinality(Using) # 0
    BY <1>3, <1>4, FS_EmptySet
  <2> QED BY <1>3, <2>1
<1>5. Token!TokensLeft = tTransit + Cardinality(Using) + tQueued + tCollected
  BY Counting DEF Token!TokensLeft, Using
<1> QED BY <1>3, <1>4, <1>5

\* All tokens are in the transit queue initially.
LEMMA TokenInit == Token!Init => TokenInv
<1> SUFFICES ASSUME Token!Init PROVE TokenInv
  OBVIOUS
<1>1. /\ tRxPc = [s \in Sources |-> "idle"] /\ tAge = [s \in Sources |-> 0]
      /\ tTransit = Tokens /\ tQueued = 0 /\ tTxPc = "pull" /\ tCollected = 0
  BY DEF Token!Init
<1>2. Tokens \in Nat \ {0}
  BY TokenAssumption DEF Token!TokenParameters
<1>3. Token!Holders = {} /\ Using = {}
  BY <1>1 DEF Using, Token!Holders, Token!Pushers
<1>4. Token!TokensLeft = Tokens
  <2>1. Cardinality(Using) = 0
    BY <1>3, FS_EmptySet
  <2> QED BY <1>1, <1>2, <2>1, UsingFinite
<1> QED BY <1>1, <1>2, <1>3, <1>4 DEF TokenInv, TokenTypes

\* A token that a thread has stands for one less elsewhere.
LEMMA TokenFits ==
  ASSUME TokenInv, NEW s \in Using
  PROVE  /\ tTransit + tQueued + tCollected < Tokens
         /\ tTxPc # "pull" => tTransit + tQueued + 1 < Tokens
<1>1. /\ tTransit \in Nat /\ tQueued \in Nat /\ tCollected \in Nat
      /\ Token!TokensLeft <= Tokens /\ (tTxPc # "pull" => tCollected > 0)
  BY DEF TokenInv, TokenTypes
<1>2. Cardinality(Using) \in Nat /\ Cardinality(Using) >= 1
      /\ Token!TokensLeft = tTransit + Cardinality(Using) + tQueued + tCollected
  BY UsingFinite
<1>3. Tokens \in Nat
  BY TokenAssumption DEF Token!TokenParameters
<1> QED BY <1>1, <1>2, <1>3

\* A token that a thread takes is in no other place.
LEMMA TokenClaim ==
  ASSUME TokenInv, NEW s \in Sources, Token!Claim(s)
  PROVE  TokenInv'
<1>1. /\ tRxPc[s] = "idle" /\ tRxPc' = [tRxPc EXCEPT ![s] = "hold"]
      /\ tTransit > 0 /\ tTransit' = tTransit - 1
      /\ tAge' = [q \in Sources |-> IF q = s THEN 1
                                    ELSE IF q \in Token!Holders THEN tAge[q] + 1 ELSE tAge[q]]
      /\ tQueued' = tQueued /\ tTxPc' = tTxPc /\ tCollected' = tCollected
  BY DEF Token!Claim
<1>2. /\ TokenTypes /\ Tokens \in Nat
      /\ Token!TokensLeft <= Tokens /\ 1 <= Token!TokensLeft
  BY TokenAssumption DEF TokenInv, Token!TokenParameters
<1>3. TokenTypes'
  BY <1>1, <1>2 DEF TokenTypes
<1>4. Using' = Using \cup {s} /\ s \notin Using /\ Token!Holders' = Token!Holders \cup {s}
  BY <1>1, <1>2 DEF Using, Token!Holders, Token!Pushers, TokenTypes
<1>5. Cardinality(Using') = Cardinality(Using) + 1
  BY <1>4, UsingFinite, FS_AddElement
<1>6. Token!TokensLeft' = Token!TokensLeft
  <2>1. Token!TokensLeft' = tTransit' + Cardinality(Using') + tQueued' + tCollected'
    BY Counting DEF Token!TokensLeft, Using
  <2> QED BY <1>1, <1>2, <1>5, <2>1, UsingFinite DEF TokenTypes
<1>7. tTransit <= Tokens
  BY <1>2, UsingFinite DEF TokenTypes
<1>8. ASSUME NEW q \in Token!Holders' PROVE 1 <= tAge'[q] /\ tAge'[q] + tTransit' <= Tokens
  <2>1. CASE q = s
    BY <1>1, <1>2, <1>7, <2>1 DEF TokenTypes
  <2>2. CASE q # s
    <3>1. q \in Token!Holders /\ q \in Sources
      BY <1>4, <2>2 DEF Token!Holders
    <3>2. tAge'[q] = tAge[q] + 1
      BY <1>1, <2>2, <3>1
    <3>3. 1 <= tAge[q] /\ tAge[q] + tTransit <= Tokens /\ tAge[q] \in Nat /\ tTransit \in Nat
      BY <1>2, <3>1 DEF TokenInv, TokenTypes
    <3> QED BY <1>1, <1>2, <3>2, <3>3
  <2> QED BY <2>1, <2>2
<1>9. ASSUME OneSource, NEW q \in Token!Holders' PROVE tAge'[q] = 1
  <2>1. q \in Sources
    BY DEF Token!Holders
  <2>2. q = s
    BY <1>9, <2>1 DEF OneSource
  <2> QED BY <1>1, <2>2
<1> QED BY <1>1, <1>3, <1>6, <1>8, <1>9 DEF TokenInv

\* The cell it came from is free for another token.
LEMMA TokenRelease ==
  ASSUME TokenInv, NEW s \in Sources, Token!Release(s)
  PROVE  TokenInv'
<1>1. /\ tRxPc[s] = "hold" /\ tRxPc' = [tRxPc EXCEPT ![s] = "push"]
      /\ tAge' = [tAge EXCEPT ![s] = 0] /\ tTransit' = tTransit
      /\ tQueued' = tQueued /\ tTxPc' = tTxPc /\ tCollected' = tCollected
  BY DEF Token!Release
<1>2. TokenTypes
  BY DEF TokenInv
<1>3. TokenTypes'
  BY <1>1, <1>2 DEF TokenTypes
<1>4. Using' = Using /\ Token!Holders' = Token!Holders \ {s}
  BY <1>1, <1>2 DEF Using, Token!Holders, Token!Pushers, TokenTypes
<1>5. Token!TokensLeft' = Token!TokensLeft
  BY <1>1, <1>4 DEF Token!TokensLeft, Using
<1>6. ASSUME NEW q \in Token!Holders' PROVE q \in Token!Holders /\ tAge'[q] = tAge[q]
  BY <1>1, <1>2, <1>4 DEF TokenTypes, Token!Holders
<1> QED BY <1>1, <1>3, <1>5, <1>6 DEF TokenInv

\* The token goes with the packet, because there is room for it.
LEMMA TokenPush ==
  ASSUME TokenInv, NEW s \in Sources, Token!Push(s)
  PROVE  TokenInv'
<1>1. /\ tRxPc[s] = "push" /\ tRxPc' = [tRxPc EXCEPT ![s] = "idle"]
      /\ tQueued' = IF tQueued = Tokens \/ Token!PacketCellHeld THEN tQueued ELSE tQueued + 1
      /\ tAge' = tAge /\ tTransit' = tTransit /\ tTxPc' = tTxPc /\ tCollected' = tCollected
  BY DEF Token!Push
<1>2. TokenTypes /\ Tokens \in Nat
  BY TokenAssumption DEF TokenInv, Token!TokenParameters
<1>3. s \in Using
  BY <1>1 DEF Using, Token!Pushers
<1>4. tQueued' = tQueued + 1
  <2>1. tQueued # Tokens /\ (tTxPc # "pull" => tQueued + 1 # Tokens)
    BY <1>2, <1>3, TokenFits DEF TokenTypes
  <2> QED BY <1>1, <2>1 DEF Token!PacketCellHeld
<1>5. TokenTypes'
  BY <1>1, <1>2, <1>4 DEF TokenTypes
<1>6. Using' = Using \ {s} /\ Token!Holders' = Token!Holders
  BY <1>1, <1>2 DEF Using, Token!Holders, Token!Pushers, TokenTypes
<1>7. Cardinality(Using') = Cardinality(Using) - 1
  BY <1>3, <1>6, UsingFinite, FS_RemoveElement
<1>8. Token!TokensLeft' = Token!TokensLeft
  <2>1. Token!TokensLeft' = tTransit' + Cardinality(Using') + tQueued' + tCollected'
    BY Counting DEF Token!TokensLeft, Using
  <2> QED BY <1>1, <1>2, <1>4, <1>7, <2>1, UsingFinite DEF TokenTypes
<1> QED BY <1>1, <1>5, <1>6, <1>8 DEF TokenInv

\* The transmit thread takes packets.
LEMMA TokenTx ==
  ASSUME TokenInv, Token!TxClaim \/ Token!TxRelease \/ Token!TxStart
  PROVE  TokenInv'
<1>1. /\ tRxPc' = tRxPc /\ tAge' = tAge /\ tTransit' = tTransit
      /\ \/ /\ tQueued > 0 /\ tQueued' = tQueued - 1 /\ tCollected' = tCollected + 1
            /\ tTxPc' = "release"
         \/ tQueued' = tQueued /\ tCollected' = tCollected /\ tTxPc' = "pull"
         \/ tQueued' = tQueued /\ tCollected' = tCollected /\ tTxPc' = "copy" /\ tCollected > 0
  BY DEF Token!TxClaim, Token!TxRelease, Token!TxStart
<1>2. TokenTypes
  BY DEF TokenInv
<1>3. TokenTypes' /\ (tTxPc' # "pull" => tCollected' > 0)
  BY <1>1, <1>2 DEF TokenTypes
<1>4. Using' = Using /\ Token!Holders' = Token!Holders
  BY <1>1 DEF Using, Token!Holders, Token!Pushers
<1>5. Token!TokensLeft' = Token!TokensLeft
  <2>1. Token!TokensLeft' = tTransit' + Cardinality(Using') + tQueued' + tCollected'
    BY Counting DEF Token!TokensLeft, Using
  <2>2. tQueued' + tCollected' = tQueued + tCollected
    BY <1>1, <1>2 DEF TokenTypes
  <2> QED BY <1>1, <1>2, <1>3, <1>4, <2>1, <2>2, UsingFinite DEF TokenTypes
<1> QED BY <1>1, <1>3, <1>4, <1>5 DEF TokenInv

\* A token that is lost is not the only one: the thread whose cell it came
\* back to has another.
LEMMA TokenCopy ==
  ASSUME TokenInv, Token!TxCopy
  PROVE  TokenInv'
<1>1. /\ tTxPc = "copy" /\ tTxPc' = (IF tCollected = 1 THEN "pull" ELSE "copy")
      /\ tCollected' = tCollected - 1
      /\ tTransit' = IF tTransit = Tokens \/ Token!TransitCellHeld THEN tTransit
                     ELSE tTransit + 1
      /\ tRxPc' = tRxPc /\ tAge' = tAge /\ tQueued' = tQueued
  BY DEF Token!TxCopy
<1>2. /\ TokenTypes /\ Tokens \in Nat /\ tCollected > 0 /\ Token!TokensLeft <= Tokens
      /\ \A s \in Token!Holders : 1 <= tAge[s] /\ tAge[s] + tTransit <= Tokens
  BY <1>1, TokenAssumption DEF TokenInv, Token!TokenParameters
<1>3. TokenTypes' /\ (tTxPc' # "pull" => tCollected' > 0)
  BY <1>1, <1>2 DEF TokenTypes
<1>4. Using' = Using /\ Token!Holders' = Token!Holders
  BY <1>1 DEF Using, Token!Holders, Token!Pushers
<1>5. Token!TokensLeft' = tTransit' + Cardinality(Using) + tQueued' + tCollected'
  <2>1. Token!TokensLeft' = tTransit' + Cardinality(Using') + tQueued' + tCollected'
    BY Counting DEF Token!TokensLeft, Using
  <2> QED BY <1>4, <2>1
<1>6. tTransit < Tokens
  BY <1>2, UsingFinite DEF TokenTypes
<1>7. CASE Token!TransitCellHeld
  <2>1. PICK s \in Token!Holders : tAge[s] + tTransit = Tokens
    BY <1>7 DEF Token!TransitCellHeld
  <2>2. s \in Using /\ s \in Sources
    BY DEF Using, Token!Holders
  <2>3. tTransit' = tTransit
    BY <1>1, <1>7
  <2>4. 1 <= Token!TokensLeft' /\ Token!TokensLeft' <= Tokens
    <3>1. Cardinality(Using) >= 1
      BY <2>2, UsingFinite
    <3> QED BY <1>1, <1>2, <1>5, <2>3, <3>1, UsingFinite DEF TokenTypes
  <2>5. ~ OneSource
    <3> SUFFICES ASSUME OneSource PROVE FALSE
      OBVIOUS
    <3>1. tAge[s] = 1
      BY DEF TokenInv
    <3>2. tTransit + tQueued + 1 < Tokens
      BY <1>1, <2>2, TokenFits
    <3> QED BY <1>2, <2>1, <3>1, <3>2 DEF TokenTypes
  <2> QED BY <1>1, <1>2, <1>3, <1>4, <2>3, <2>4, <2>5 DEF TokenInv
<1>8. CASE ~ Token!TransitCellHeld
  <2>1. tTransit' = tTransit + 1
    BY <1>1, <1>2, <1>6, <1>8 DEF TokenTypes
  <2>2. Token!TokensLeft' = Token!TokensLeft
    BY <1>1, <1>2, <1>5, <2>1, UsingFinite DEF TokenTypes
  <2>3. ASSUME NEW s \in Token!Holders PROVE 1 <= tAge[s] /\ tAge[s] + tTransit' <= Tokens
    <3>1. /\ 1 <= tAge[s] /\ tAge[s] + tTransit <= Tokens /\ tAge[s] \in Nat /\ tTransit \in Nat
      BY <1>2 DEF TokenTypes, Token!Holders
    <3>2. tAge[s] + tTransit # Tokens
      BY <1>8 DEF Token!TransitCellHeld
    <3> QED BY <1>2, <2>1, <3>1, <3>2
  <2> QED BY <1>1, <1>3, <1>4, <2>2, <2>3 DEF TokenInv
<1> QED BY <1>7, <1>8

\* Every step of the tokens keeps their invariant.
LEMMA TokenStep == TokenInv /\ [Token!Next]_tokenVars => TokenInv'
<1> SUFFICES ASSUME TokenInv, [Token!Next]_tokenVars PROVE TokenInv'
  OBVIOUS
<1>1. CASE Token!Next
  BY <1>1, TokenClaim, TokenRelease, TokenPush, TokenTx, TokenCopy DEF Token!Next
<1>2. CASE UNCHANGED tokenVars
  BY <1>2 DEF tokenVars, TokenInv, TokenTypes, Token!TokensLeft, Token!Holders, Token!Pushers
<1> QED BY <1>1, <1>2

-----------------------------------------------------------------------------
(* The theorems *)

PathInv == IInv /\ TokenInv

\* Both invariants hold at all times.
LEMMA Invariance == PathSpec => []PathInv
<1>1. PathInit => PathInv
  BY BuffersInit, TokenInit DEF PathInit, PathInv
<1>2. PathInv /\ [PathNext]_<<used, vars, tokenVars>> => PathInv'
  <2> SUFFICES ASSUME PathInv, [PathNext]_<<used, vars, tokenVars>> PROVE PathInv'
    OBVIOUS
  <2>1. [Next]_vars /\ [Token!Next]_tokenVars
    BY DEF PathNext
  <2> QED BY <2>1, BuffersStep, TokenStep DEF PathInv
<1> QED BY <1>1, <1>2, PTL DEF PathSpec

(* The buffer of a packet that waits is not written to before two slabs of  *)
(* other packets were received, as long as the transmit thread of the port  *)
(* takes no slab: for rings, bursts and queues of any size, in spite of the *)
(* memcpy that is commented out.                                            *)
THEOREM BuffersOverwrittenLate == PathSpec => []OverwrittenLate
<1>1. PathInv => OverwrittenLate
  BY DEF PathInv, IInv, Waiters, Waits, Late, OverwrittenLate
<1> QED BY <1>1, Invariance, PTL

(* Nor is it, whatever the transmit thread does, while the buffer is in the *)
(* producer slab that bcache_prod put it in.                                *)
THEOREM BuffersIntactUntilTraded == PathSpec => []IntactUntilTraded
<1>1. PathInv => IntactUntilTraded
  BY DEF PathInv, IInv, Waiters, Waits, Held, Base, IntactUntilTraded
<1> QED BY <1>1, Invariance, PTL

(* However many receive threads send to a destination, and wherever they    *)
(* stall, it does not lose all its tokens.                                  *)
THEOREM DestinationKeepsAToken == PathSpec => []SomeTokenLeft
<1>1. PathInv => SomeTokenLeft
  <2> SUFFICES ASSUME PathInv PROVE Token!TokensLeft > 0
    BY DEF SomeTokenLeft, Token!SomeTokenLeft
  <2>1. 1 <= Token!TokensLeft /\ TokenTypes
    BY DEF PathInv, TokenInv
  <2>2. Token!TokensLeft \in Int
    BY <2>1, UsingFinite DEF TokenTypes
  <2> QED BY <2>1, <2>2
<1> QED BY <1>1, Invariance, PTL

(* A push to the packet queue, whose result the code ignores, is never      *)
(* refused a thread that has a token.                                       *)
THEOREM PushIsAccepted == PathSpec => []PushFits
<1>1. PathInv => PushFits
  <2> SUFFICES ASSUME PathInv, NEW s \in Token!Pushers
      PROVE tQueued < Tokens /\ ~ Token!PacketCellHeld
    BY DEF PushFits, Token!PushFits
  <2>1. TokenInv /\ TokenTypes /\ Tokens \in Nat /\ s \in Using
    BY TokenAssumption DEF PathInv, TokenInv, Token!TokenParameters, Using
  <2>2. /\ tTransit + tQueued + tCollected < Tokens
        /\ tTxPc # "pull" => tTransit + tQueued + 1 < Tokens
    BY <2>1, TokenFits
  <2> QED BY <2>1, <2>2 DEF TokenTypes, Token!PacketCellHeld
<1> QED BY <1>1, Invariance, PTL

(* If only one receive thread sends to a destination, as with two ports, no *)
(* token is ever lost: the thread holds no cell that a token comes back to. *)
THEOREM OneSourceLosesNone == PathSpec => [](OneSource => Token!TokensLeft = Tokens)
<1>1. PathInv => (OneSource => Token!TokensLeft = Tokens)
  BY DEF PathInv, TokenInv
<1> QED BY <1>1, Invariance, PTL
=============================================================================
