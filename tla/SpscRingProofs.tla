--------------------------- MODULE SpscRingProofs ---------------------------
(***************************************************************************)
(* Proofs about SpscRing: with one producer the ring implements a bounded  *)
(* FIFO, for every size and every width of the positions.                  *)
(***************************************************************************)
EXTENDS SpscRing, DataLemmas

-----------------------------------------------------------------------------
\* How far position a is ahead of position b
Ahead(a, b) == (a - b) % UInt32

LEMMA Sizes ==
  ASSUME RingParameters
  PROVE  /\ Size \in Nat \ {0} /\ Size >= 2 /\ UInt32 \in Nat \ {0} /\ UInt32 > Size
         /\ \E k \in Nat \ {0} : UInt32 = Size * k
<1>1. Size \in Nat \ {0} /\ Size >= 2 /\ UInt32 \in Nat \ {0} /\ UInt32 > Size
  BY DEF RingParameters
<1> DEFINE k == UInt32 \div Size
<1>2. UInt32 = Size * k /\ k \in Int
  BY <1>1, Division DEF RingParameters
<1> HIDE DEF k
<1>3. k >= 1
  <2> SUFFICES ASSUME k <= 0 PROVE FALSE
    BY <1>2
  <2>1. Size * k <= 0
    BY <1>1, <1>2, Z3
  <2> QED BY <1>1, <1>2, <2>1
<1> QED BY <1>1, <1>2, <1>3

LEMMA AheadFacts ==
  ASSUME RingParameters, NEW a \in Positions, NEW b \in Positions
  PROVE  /\ Ahead(a, b) \in Positions /\ Plus(a, 1) \in Positions
         /\ Ahead(a, a) = 0
         /\ Ahead(a, b) < Size => Ahead(Plus(a, 1), b) = Ahead(a, b) + 1
         /\ Ahead(a, b) >= 1 => Ahead(a, Plus(b, 1)) = Ahead(a, b) - 1
<1>1. UInt32 \in Nat \ {0} /\ UInt32 > Size /\ Size \in Nat
  BY Sizes
<1>2. a \in Int /\ b \in Int
  BY <1>1 DEF Positions
<1>3. Ahead(a, b) \in Positions /\ Plus(a, 1) \in Positions
  BY <1>1, <1>2, Division DEF Ahead, Plus, Positions
<1>4. \A r \in Positions : r % UInt32 = r
  <2> SUFFICES ASSUME NEW r \in Positions PROVE r % UInt32 = r
    OBVIOUS
  <2>1. r = UInt32 * 0 + r /\ r \in 0..(UInt32 - 1) /\ r \in Int
    BY <1>1 DEF Positions
  <2> QED BY <1>1, <2>1, Remainder
<1>5. Ahead(a, a) = 0
  BY <1>1, <1>2, <1>4 DEF Ahead, Positions
<1>6. ASSUME Ahead(a, b) < Size PROVE Ahead(Plus(a, 1), b) = Ahead(a, b) + 1
  <2>1. Ahead(Plus(a, 1), b) = ((a + 1) - b) % UInt32
    <3> DEFINE s == a + 1
               t == -b
    <3>1. s \in Int /\ t \in Int /\ (s % UInt32) \in Int
      BY <1>1, <1>2, Division
    <3>2. Ahead(Plus(a, 1), b) = ((s % UInt32) + t) % UInt32
      BY <1>1, <1>2, <3>1 DEF Ahead, Plus
    <3>3. (s + t) % UInt32 = ((a + 1) - b) % UInt32
      BY <1>2
    <3> HIDE DEF s, t
    <3> QED BY <1>1, <3>1, <3>2, <3>3, Reduced
  <2>2. (Ahead(a, b) + 1) % UInt32 = ((a - b) + 1) % UInt32
    <3> DEFINE s == a - b
               t == 1
    <3>1. s \in Int /\ t \in Int
      BY <1>2
    <3> HIDE DEF s, t
    <3>2. ((s % UInt32) + t) % UInt32 = (s + t) % UInt32
      BY <1>1, <3>1, Reduced
    <3> QED BY <3>2 DEF s, t, Ahead
  <2>3. (a + 1) - b = (a - b) + 1
    BY <1>2
  <2>4. Ahead(a, b) + 1 \in Positions
    BY <1>1, <1>3, <1>6 DEF Positions
  <2> QED BY <1>4, <2>1, <2>2, <2>3, <2>4 DEF Ahead
<1>7. ASSUME Ahead(a, b) >= 1 PROVE Ahead(a, Plus(b, 1)) = Ahead(a, b) - 1
  <2>1. Ahead(a, Plus(b, 1)) = (a - (b + 1)) % UInt32
    <3> DEFINE s == b + 1
    <3>1. s \in Int
      BY <1>2
    <3> HIDE DEF s
    <3>2. (a - (s % UInt32)) % UInt32 = (a - s) % UInt32
      BY <1>1, <1>2, <3>1, Subtracted
    <3> QED BY <3>2 DEF s, Ahead, Plus
  <2>2. (Ahead(a, b) + (-1)) % UInt32 = ((a - b) + (-1)) % UInt32
    <3> DEFINE s == a - b
               t == -1
    <3>1. s \in Int /\ t \in Int
      BY <1>2
    <3> HIDE DEF s, t
    <3>2. ((s % UInt32) + t) % UInt32 = (s + t) % UInt32
      BY <1>1, <3>1, Reduced
    <3> QED BY <3>2 DEF s, t, Ahead
  <2>3. a - (b + 1) = (a - b) + (-1)
    BY <1>2
  <2>4. Ahead(a, b) + (-1) \in Positions
    BY <1>1, <1>3, <1>7 DEF Positions
  <2>5. Ahead(a, b) + (-1) = Ahead(a, b) - 1
    BY <1>1, <1>3 DEF Positions
  <2> QED BY <1>4, <2>1, <2>2, <2>3, <2>4, <2>5 DEF Ahead
<1> QED BY <1>3, <1>5, <1>6, <1>7

\* Cells at different distances within one lap are different cells.
LEMMA CellsDistinct ==
  ASSUME RingParameters, NEW x \in Int, NEW i \in 0..(Size - 1), NEW j \in 0..(Size - 1),
         Mask(x + i) = Mask(x + j)
  PROVE  i = j
<1> DEFINE r == (x + i) % Size
           c == (x + i) \div Size
           d == (x + j) \div Size
<1>1. Size \in Nat \ {0} /\ i \in Int /\ j \in Int
  BY Sizes
<1>2. x + i = Size * c + r /\ c \in Int /\ r \in Int
  BY <1>1, Division
<1>3. x + j = Size * d + r /\ d \in Int
  <2> DEFINE y == x + j
  <2>1. y \in Int
    BY <1>1
  <2> HIDE DEF y
  <2>2. y = Size * (y \div Size) + (y % Size) /\ (y \div Size) \in Int
    BY <1>1, <2>1, Division
  <2> QED BY <2>2 DEF Mask, y
<1> HIDE DEF r, c, d
<1>4. Size * (c - d) = Size * c - Size * d /\ Size * c \in Int /\ Size * d \in Int
  BY <1>1, <1>2, <1>3, Distributive
<1>5. Size * (c - d) = i - j
  BY <1>1, <1>2, <1>3, <1>4
<1>6. c - d = 0
  BY <1>1, <1>2, <1>3, <1>5, Product
<1>7. Size * 0 = 0
  BY <1>1
<1> QED BY <1>1, <1>5, <1>6, <1>7

LEMMA MaskFacts ==
  ASSUME RingParameters, NEW a \in Positions, NEW b \in Positions
  PROVE  /\ \A x \in Int : Mask(x) \in 0..(Size - 1)
         /\ \A x \in Int : Mask(Plus(a, 1) + x) = Mask(a + 1 + x)
         /\ Mask(a) = Mask(b + Ahead(a, b))
<1>1. Size \in Nat \ {0} /\ UInt32 \in Nat \ {0}
  BY Sizes
<1>2. PICK k \in Nat \ {0} : UInt32 = Size * k
  BY Sizes
<1>3. a \in Int /\ b \in Int
  BY <1>1 DEF Positions
<1>4. \A x \in Int : Mask(x) \in 0..(Size - 1)
  BY <1>1, Division DEF Mask
<1>5. ASSUME NEW x \in Int PROVE Mask(Plus(a, 1) + x) = Mask(a + 1 + x)
  <2>1. Plus(a, 1) \in Int
    BY AheadFacts, <1>1 DEF Positions
  <2> DEFINE s == a + 1
             t == Plus(a, 1)
  <2>2. s \in Int /\ t \in Int /\ t = s % (Size * k)
    BY <1>2, <1>3, <2>1 DEF Plus
  <2> HIDE DEF s, t
  <2>3. t % Size = s % Size
    BY <1>1, <2>2, Wrapped
  <2>4. ((t % Size) + x) % Size = (t + x) % Size
    BY <1>1, <2>2, Reduced
  <2>5. ((s % Size) + x) % Size = (s + x) % Size
    BY <1>1, <2>2, Reduced
  <2>6. (t + x) % Size = (s + x) % Size
    BY <2>3, <2>4, <2>5
  <2> QED BY <2>6 DEF Mask, s, t
<1>6. Mask(a) = Mask(b + Ahead(a, b))
  <2>1. Ahead(a, b) \in Int
    BY AheadFacts, <1>1 DEF Positions
  <2> DEFINE s == a - b
             t == Ahead(a, b)
  <2>2. s \in Int /\ t \in Int /\ t = s % (Size * k) /\ s + b = a
    BY <1>2, <1>3, <2>1 DEF Ahead
  <2> HIDE DEF s, t
  <2>3. t % Size = s % Size
    BY <1>1, <2>2, Wrapped
  <2>4. ((t % Size) + b) % Size = (t + b) % Size
    BY <1>1, <1>3, <2>2, Reduced
  <2>5. ((s % Size) + b) % Size = (s + b) % Size
    BY <1>1, <1>3, <2>2, Reduced
  <2>6. (t + b) % Size = (s + b) % Size
    BY <2>3, <2>4, <2>5
  <2>7. t + b = b + t
    BY <1>3, <2>2
  <2> QED BY <2>2, <2>6, <2>7 DEF Mask, t
<1> QED BY <1>4, <1>5, <1>6

\* What the two tests of room compute
LEMMA RoomFacts ==
  ASSUME RingParameters, prodTail \in Positions, consTail \in Positions,
         Ahead(prodTail, consTail) <= Size - 1
  PROVE  /\ Ahead(prodTail, consTail) = Size - 1 => IsFull
         /\ FreeEntries(prodTail) = Size - 1 - Ahead(prodTail, consTail)
<1> DEFINE d == Ahead(prodTail, consTail)
           q == (prodTail - consTail) \div UInt32
<1>1. Size \in Nat \ {0} /\ UInt32 \in Nat \ {0} /\ UInt32 > Size
  BY Sizes
<1>2. PICK k \in Nat \ {0} : UInt32 = Size * k
  BY Sizes
<1>3. prodTail \in Int /\ consTail \in Int
  BY <1>1 DEF Positions
<1>4. prodTail - consTail = UInt32 * q + d /\ q \in Int /\ d \in 0..(UInt32 - 1)
  <2> DEFINE s == prodTail - consTail
  <2>1. s \in Int
    BY <1>3
  <2> HIDE DEF s
  <2>2. s = UInt32 * (s \div UInt32) + (s % UInt32) /\ (s \div UInt32) \in Int
        /\ (s % UInt32) \in 0..(UInt32 - 1)
    BY <1>1, <2>1, Division
  <2> QED BY <2>2 DEF s, Ahead
<1> HIDE DEF q, d
<1>5. UInt32 * q \in Int /\ UInt32 * (-q) = -(UInt32 * q)
  BY <1>1, <1>4, Z3
<1>6. ASSUME d = Size - 1 PROVE IsFull
  <2>1. UInt32 * q = Size * (k * q) /\ k * q \in Int
    BY <1>1, <1>2, <1>4, Distributive
  <2>2. Size * (-1 - k * q) = -Size - Size * (k * q)
    <3>1. Size * (-1 - k * q) = Size * (-1) - Size * (k * q)
      BY <1>1, <2>1, Distributive
    <3> QED BY <1>1, <3>1
  <2>3. consTail - prodTail - 1 = Size * (-1 - k * q) + 0
    BY <1>1, <1>3, <1>4, <1>5, <1>6, <2>1, <2>2
  <2>4. 0 \in 0..(Size - 1) /\ -1 - k * q \in Int /\ consTail - prodTail - 1 \in Int
    BY <1>1, <1>3, <2>1
  <2> QED BY <1>1, <2>3, <2>4, Remainder DEF IsFull, Mask
<1>7. FreeEntries(prodTail) = Size - 1 - d
  <2>1. Size - 1 + consTail - prodTail = UInt32 * (-q) + (Size - 1 - d)
    BY <1>1, <1>3, <1>4, <1>5
  <2>2. Size - 1 - d \in 0..(UInt32 - 1)
    BY <1>1, <1>4 DEF d
  <2>3. -q \in Int /\ Size - 1 + consTail - prodTail \in Int
    BY <1>1, <1>3, <1>4
  <2> QED BY <1>1, <2>1, <2>2, <2>3, Remainder DEF FreeEntries
<1> QED BY <1>6, <1>7 DEF d

\* Positions that are no distance apart are the same.
LEMMA SamePosition ==
  ASSUME RingParameters, NEW a \in Positions, NEW b \in Positions, Ahead(a, b) = 0
  PROVE  a = b
<1> DEFINE s == a - b
           d == s \div UInt32
<1>1. UInt32 \in Nat \ {0} /\ a \in 0..(UInt32 - 1) /\ b \in 0..(UInt32 - 1)
  BY Sizes DEF Positions
<1>2. s \in Int /\ -UInt32 < s /\ s < UInt32
  BY <1>1
<1>3. s = UInt32 * d + (s % UInt32) /\ d \in Int
  <2> HIDE DEF s
  <2> QED BY <1>1, <1>2, Division
<1>4. s = UInt32 * d
  <2>1. s % UInt32 = 0
    BY DEF Ahead
  <2>2. UInt32 * d \in Int
    <3> HIDE DEF d
    <3> QED BY <1>1, <1>3, Distributive
  <2> HIDE DEF s, d
  <2> QED BY <1>2, <1>3, <2>1, <2>2
<1>5. d = 0
  <2> HIDE DEF s, d
  <2> QED BY <1>1, <1>2, <1>3, <1>4, Product
<1>6. s = 0
  <2> HIDE DEF s, d
  <2> QED BY <1>1, <1>4, <1>5
<1> QED BY <1>1, <1>6

-----------------------------------------------------------------------------
(* Cells that are not free: queued, or taken and not yet released. *)
Held == Ahead(prodTail, consTail)

\* What one producer has reserved and done, given where it is
ProducerPlace ==
  \A p \in Producers :
    /\ prodPc[p] \in {"idle", "enqueue", "claim"} => prodHead = prodTail
    /\ prodPc[p] \in {"claim", "write", "publish"} => prodAt[p] = prodTail
    /\ prodPc[p] \in {"write", "publish"} => prodHead = Plus(prodAt[p], 1)
    /\ prodPc[p] # "idle" => Held <= Size - 2 /\ obj[p] \in Values
    /\ prodPc[p] = "publish" => ring[Mask(prodAt[p])] = obj[p]

ConsumerPlace ==
  /\ consHead = IF consPc \in {"read", "release"} THEN Plus(consTail, 1) ELSE consTail
  /\ consPc # "idle" => Held >= 1

IInv ==
  /\ TypeOK
  /\ Held <= Size - 1
  /\ ProducerPlace
  /\ ConsumerPlace

\* The ring is used by one producer.
OneProducer == \E p : Producers = {p}

LEMMA InitIInv ==
  ASSUME RingParameters, Init
  PROVE  IInv
<1>1. Size \in Nat /\ Size >= 2 /\ UInt32 \in Nat \ {0} /\ 0 \in Positions
  BY Sizes DEF Positions
<1>2. Held = 0
  BY <1>1, AheadFacts DEF Init, Held
<1> QED BY <1>1, <1>2 DEF Init, IInv, TypeOK, ProducerPlace, ConsumerPlace

\* How many descriptors the consumer can see
LEMMA EntriesFacts ==
  ASSUME RingParameters, IInv
  PROVE  /\ Entries = IF consPc \in {"read", "release"} THEN Held - 1 ELSE Held
         /\ Entries \in Nat /\ Held \in Nat /\ Entries <= Size - 1
<1>1. Size \in Nat /\ Size >= 2 /\ UInt32 \in Nat \ {0}
  BY Sizes
<1>2. prodTail \in Positions /\ consTail \in Positions /\ Held <= Size - 1
  BY DEF IInv, TypeOK
<1>3. Held \in Nat
  BY <1>1, <1>2, AheadFacts DEF Held, Positions
<1>4. CASE consPc \in {"read", "release"}
  <2>1. Held >= 1 /\ consHead = Plus(consTail, 1)
    BY <1>4 DEF IInv, ConsumerPlace
  <2>2. Entries = Held - 1
    BY <1>2, <2>1, AheadFacts DEF Entries, Ahead, Held
  <2> QED BY <1>1, <1>2, <1>3, <1>4, <2>1, <2>2
<1>5. CASE consPc \notin {"read", "release"}
  <2>1. consHead = consTail
    BY <1>5 DEF IInv, ConsumerPlace
  <2>2. Entries = Held
    BY <2>1 DEF Entries, Held, Ahead
  <2> QED BY <1>1, <1>2, <1>3, <1>5, <2>2
<1> QED BY <1>4, <1>5

(* What is_full and is_empty answered is still true at the call. *)
LEMMA IInvChecks ==
  ASSUME RingParameters, IInv
  PROVE  RingChecksHold
<1>1. Size \in Nat /\ Size >= 2
  BY Sizes
<1>2. ASSUME NEW p \in Producers, prodPc[p] = "enqueue" PROVE FreeEntries(prodHead) >= 1
  <2>1. prodHead = prodTail /\ Held <= Size - 2
    BY <1>2 DEF IInv, ProducerPlace
  <2>2. prodTail \in Positions /\ consTail \in Positions /\ Held \in Nat
    BY EntriesFacts DEF IInv, TypeOK
  <2>3. FreeEntries(prodTail) = Size - 1 - Held
    BY <1>1, <2>1, <2>2, RoomFacts DEF Held
  <2> QED BY <1>1, <2>1, <2>2, <2>3
<1>3. ASSUME consPc = "dequeue" PROVE Entries >= 1
  <2>1. Held >= 1
    BY <1>3 DEF IInv, ConsumerPlace
  <2> QED BY <1>3, <2>1, EntriesFacts
<1> QED BY <1>2, <1>3 DEF RingChecksHold

LEMMA NextIInv ==
  ASSUME RingParameters, OneProducer, IInv, [Next]_vars
  PROVE  IInv'
<1> USE DEF Goto
<1>1. Size \in Nat /\ Size >= 2 /\ UInt32 \in Nat \ {0} /\ UInt32 > Size
  BY Sizes
<1>2. /\ prodTail \in Positions /\ consTail \in Positions
      /\ Held \in Nat /\ Held <= Size - 1
  BY EntriesFacts DEF IInv, TypeOK
<1>3. PICK q : Producers = {q}
  BY DEF OneProducer
<1>4. ASSUME NEW p \in Producers, NEW v \in Values, CheckRoom(p, v)
      PROVE  IInv'
  <2>1. Held <= Size - 2
    BY <1>1, <1>2, <1>4, RoomFacts DEF CheckRoom, Held
  <2>2. Held' = Held
    BY <1>4 DEF CheckRoom, Held
  <2>3. TypeOK'
    BY <1>4 DEF CheckRoom, IInv, TypeOK
  <2>4. ProducerPlace'
    BY <1>3, <1>4, <2>1, <2>2 DEF CheckRoom, IInv, TypeOK, ProducerPlace
  <2>5. ConsumerPlace'
    BY <1>4, <2>2 DEF CheckRoom, IInv, ConsumerPlace
  <2> QED BY <1>2, <2>2, <2>3, <2>4, <2>5 DEF IInv
<1>5. ASSUME NEW p \in Producers, Enqueue(p)
      PROVE  IInv'
  <2>1. FreeEntries(prodHead) >= 1
    BY <1>5, IInvChecks DEF RingChecksHold, Enqueue
  <2>2. Held' = Held
    BY <1>5 DEF Enqueue, Held
  <2>3. TypeOK'
    BY <1>5 DEF Enqueue, IInv, TypeOK
  <2>4. ProducerPlace'
    BY <1>3, <1>5, <2>2 DEF Enqueue, IInv, TypeOK, ProducerPlace
  <2>5. ConsumerPlace'
    BY <1>5, <2>2 DEF Enqueue, IInv, ConsumerPlace
  <2> QED BY <1>2, <2>2, <2>3, <2>4, <2>5 DEF IInv
<1>6. ASSUME NEW p \in Producers, EnqueueClaim(p)
      PROVE  IInv'
  <2>1. Plus(prodAt[p], 1) \in Positions
    <3>1. prodAt[p] \in Positions
      BY <1>6 DEF IInv, TypeOK
    <3> QED BY <1>2, <3>1, AheadFacts
  <2>2. Held' = Held
    BY <1>6 DEF EnqueueClaim, Held
  <2>3. TypeOK'
    BY <1>6, <2>1 DEF EnqueueClaim, IInv, TypeOK
  <2>4. ProducerPlace'
    BY <1>3, <1>6, <2>2 DEF EnqueueClaim, IInv, TypeOK, ProducerPlace
  <2>5. ConsumerPlace'
    BY <1>6, <2>2 DEF EnqueueClaim, IInv, ConsumerPlace
  <2> QED BY <1>2, <2>2, <2>3, <2>4, <2>5 DEF IInv
<1>7. ASSUME NEW p \in Producers, EnqueueWrite(p)
      PROVE  IInv'
  <2>1. Mask(prodAt[p]) \in 0..(Size - 1)
    <3>1. prodAt[p] \in Positions /\ prodAt[p] \in Int
      BY <1>1, <1>7 DEF IInv, TypeOK, Positions
    <3> QED BY <1>2, <3>1, MaskFacts
  <2>2. Held' = Held
    BY <1>7 DEF EnqueueWrite, Held
  <2>3. TypeOK'
    BY <1>7, <2>1 DEF EnqueueWrite, IInv, TypeOK
  <2>4. ProducerPlace'
    BY <1>3, <1>7, <2>1, <2>2 DEF EnqueueWrite, IInv, TypeOK, ProducerPlace
  <2>5. ConsumerPlace'
    BY <1>7, <2>2 DEF EnqueueWrite, IInv, ConsumerPlace
  <2> QED BY <1>2, <2>2, <2>3, <2>4, <2>5 DEF IInv
<1>8. ASSUME NEW p \in Producers, EnqueuePublish(p)
      PROVE  IInv'
  <2>1. prodAt[p] = prodTail /\ Held <= Size - 2
    BY <1>8 DEF EnqueuePublish, IInv, ProducerPlace
  <2>2. prodTail' = Plus(prodTail, 1) /\ consTail' = consTail
    BY <1>8, <2>1 DEF EnqueuePublish
  <2>3. Held' = Held + 1 /\ Plus(prodTail, 1) \in Positions
    BY <1>1, <1>2, <2>1, <2>2, AheadFacts DEF Held
  <2>4. TypeOK'
    BY <1>8, <2>1, <2>3 DEF EnqueuePublish, IInv, TypeOK
  <2>5. ProducerPlace'
    <3>1. prodHead = Plus(prodAt[p], 1)
      BY <1>8 DEF EnqueuePublish, IInv, ProducerPlace
    <3> QED BY <1>3, <1>8, <3>1 DEF EnqueuePublish, IInv, TypeOK, ProducerPlace
  <2>6. ConsumerPlace'
    BY <1>2, <1>8, <2>3 DEF EnqueuePublish, IInv, ConsumerPlace
  <2> QED BY <1>1, <1>2, <2>1, <2>3, <2>4, <2>5, <2>6 DEF IInv
<1>9. ASSUME CheckEntry
      PROVE  IInv'
  <2>1. Held # 0
    <3> SUFFICES ASSUME Held = 0 PROVE FALSE
      OBVIOUS
    <3> QED BY <1>2, <1>9, SamePosition DEF CheckEntry, Held
  <2>2. Held' = Held
    BY <1>9 DEF CheckEntry, Held
  <2>3. TypeOK'
    BY <1>9 DEF CheckEntry, IInv, TypeOK
  <2>4. ProducerPlace'
    BY <1>9, <2>2 DEF CheckEntry, IInv, ProducerPlace
  <2>5. ConsumerPlace'
    BY <1>2, <1>9, <2>1, <2>2 DEF CheckEntry, IInv, ConsumerPlace
  <2> QED BY <1>2, <2>2, <2>3, <2>4, <2>5 DEF IInv
<1>10. ASSUME Dequeue
       PROVE  IInv'
  <2>1. Entries >= 1 /\ consHead = consTail /\ Held >= 1
    BY <1>10, IInvChecks DEF RingChecksHold, Dequeue, IInv, ConsumerPlace
  <2>2. consPc' = "read" /\ consHead' = Plus(consTail, 1)
    BY <1>10, <2>1, EntriesFacts DEF Dequeue
  <2>3. Held' = Held /\ Plus(consTail, 1) \in Positions
    BY <1>2, <1>10, AheadFacts DEF Dequeue, Held
  <2>4. TypeOK'
    BY <1>10, <2>2, <2>3 DEF Dequeue, IInv, TypeOK
  <2>5. ProducerPlace'
    BY <1>10, <2>3 DEF Dequeue, IInv, ProducerPlace
  <2>6. ConsumerPlace'
    BY <1>10, <2>1, <2>2, <2>3 DEF Dequeue, ConsumerPlace
  <2> QED BY <1>2, <2>3, <2>4, <2>5, <2>6 DEF IInv
<1>11. ASSUME DequeueRead
       PROVE  IInv'
  <2>1. Held' = Held
    BY <1>11 DEF DequeueRead, Held
  <2>2. TypeOK'
    <3> DEFINE x == consHead - 1
    <3>1. x \in Int
      BY <1>1 DEF IInv, TypeOK, Positions
    <3> HIDE DEF x
    <3>2. Mask(x) \in 0..(Size - 1)
      BY <1>2, <3>1, MaskFacts
    <3>3. ring[Mask(consHead - 1)] \in Values \cup {NoValue}
      BY <3>2 DEF x, IInv, TypeOK
    <3> QED BY <1>11, <3>3 DEF DequeueRead, IInv, TypeOK
  <2>3. ProducerPlace'
    BY <1>11, <2>1 DEF DequeueRead, IInv, ProducerPlace
  <2>4. ConsumerPlace'
    BY <1>11, <2>1 DEF DequeueRead, IInv, ConsumerPlace
  <2> QED BY <1>2, <2>1, <2>2, <2>3, <2>4 DEF IInv
<1>12. ASSUME DequeueRelease
       PROVE  IInv'
  <2>1. consHead = Plus(consTail, 1) /\ Held >= 1
    BY <1>12 DEF DequeueRelease, IInv, ConsumerPlace
  <2>2. consTail' = Plus(consTail, 1) /\ prodTail' = prodTail /\ consHead' = consHead
    BY <1>12, <2>1 DEF DequeueRelease
  <2>3. Held' = Held - 1 /\ Plus(consTail, 1) \in Positions
    BY <1>1, <1>2, <2>1, <2>2, AheadFacts DEF Held
  <2>4. TypeOK'
    BY <1>12, <2>1, <2>3 DEF DequeueRelease, IInv, TypeOK
  <2>5. ProducerPlace'
    BY <1>1, <1>2, <1>12, <2>3 DEF DequeueRelease, IInv, ProducerPlace
  <2>6. ConsumerPlace'
    BY <1>12, <2>1, <2>2 DEF DequeueRelease, ConsumerPlace
  <2> QED BY <1>1, <1>2, <2>3, <2>4, <2>5, <2>6 DEF IInv
<1>13. ASSUME UNCHANGED vars
       PROVE  IInv'
  <2>1. Held' = Held
    BY <1>13 DEF vars, Held
  <2> QED BY <1>13, <2>1 DEF vars, IInv, TypeOK, ProducerPlace, ConsumerPlace
<1> QED BY <1>4, <1>5, <1>6, <1>7, <1>8, <1>9, <1>10, <1>11, <1>12, <1>13 DEF Next


-----------------------------------------------------------------------------
(* The descriptor the consumer holds, or is about to load *)
Taken == IF consPc = "read" THEN ring[Mask(consHead - 1)] ELSE objP

(* The cell a producer has reserved is not one the consumer may still read. *)
LEMMA ReservedCell ==
  ASSUME RingParameters, IInv, NEW p \in Producers, prodPc[p] \in {"write", "publish"}
  PROVE  /\ prodAt[p] = prodTail /\ Entries <= Size - 2
         /\ Mask(prodAt[p]) = Mask(consHead + Entries)
         /\ \A i \in 1..Entries : Mask(consHead + i - 1) # Mask(prodAt[p])
         /\ consPc = "read" => Mask(consHead - 1) # Mask(prodAt[p])
<1>1. Size \in Nat /\ Size >= 2 /\ UInt32 \in Nat \ {0}
  BY Sizes
<1>2. prodTail \in Positions /\ consHead \in Positions /\ consHead \in Int
  BY <1>1 DEF IInv, TypeOK, Positions
<1>3. prodAt[p] = prodTail /\ Held <= Size - 2
  BY DEF IInv, ProducerPlace
<1>4. Entries \in Nat /\ Held \in Nat /\ Entries <= Size - 2
      /\ (consPc = "read" => Entries <= Size - 3)
  BY <1>1, <1>3, EntriesFacts
<1>5. Mask(prodAt[p]) = Mask(consHead + Entries)
  BY <1>2, <1>3, MaskFacts DEF Ahead, Entries
<1>6. ASSUME NEW i \in 1..Entries PROVE Mask(consHead + i - 1) # Mask(prodAt[p])
  <2> DEFINE j == i - 1
  <2>1. Entries \in 0..(Size - 1) /\ j \in 0..(Size - 1) /\ j # Entries
        /\ consHead + i - 1 = consHead + j
    BY <1>1, <1>2, <1>4, <1>6
  <2> HIDE DEF j
  <2> QED BY <1>2, <1>5, <2>1, CellsDistinct
<1>7. ASSUME consPc = "read" PROVE Mask(consHead - 1) # Mask(prodAt[p])
  <2> DEFINE x == consHead - 1
             j == Entries + 1
  <2>1. x \in Int /\ j \in 0..(Size - 1) /\ 0 \in 0..(Size - 1) /\ j # 0
        /\ x + 0 = x /\ x + j = consHead + Entries
    BY <1>1, <1>2, <1>4, <1>7
  <2> HIDE DEF j, x
  <2>2. Mask(x + 0) # Mask(x + j)
    BY <2>1, CellsDistinct
  <2> QED BY <1>5, <2>1, <2>2 DEF x
<1> QED BY <1>3, <1>4, <1>5, <1>6, <1>7

(* A step that moves no descriptor leaves the abstract queue as it is. *)
LEMMA Stutters ==
  ASSUME Entries' = Entries, Taken' = Taken,
         \A i \in 1..Entries : ring'[Mask(consHead' + i - 1)] = ring[Mask(consHead + i - 1)]
  PROVE  UNCHANGED Fifo!vars
  BY DEF Fifo!vars, Queued, Taken

LEMMA QueuedIsSeq ==
  ASSUME RingParameters, IInv
  PROVE  /\ Queued \in [1..Entries -> Values \cup {NoValue}] /\ Entries \in Nat
         /\ \A i \in 1..Entries : Queued[i] = ring[Mask(consHead + i - 1)]
<1>1. Entries \in Nat /\ consHead \in Int
  BY SMTT(30), EntriesFacts, Sizes DEF IInv, TypeOK, Positions
<1>2. ASSUME NEW i \in 1..Entries
      PROVE  ring[Mask(consHead + i - 1)] \in Values \cup {NoValue}
  <2> DEFINE x == consHead + i - 1
  <2>1. x \in Int
    BY <1>1
  <2>2. 0 \in Positions
    BY Sizes DEF Positions
  <2> HIDE DEF x
  <2>3. Mask(x) \in 0..(Size - 1)
    BY <2>1, <2>2, MaskFacts
  <2> QED BY <2>3 DEF IInv, TypeOK, x
<1>3. Queued \in [1..Entries -> Values \cup {NoValue}]
  BY <1>2 DEF Queued
<1> QED BY <1>1, <1>3 DEF Queued

(* Publishing the new tail is an enqueue of the bounded FIFO. *)
LEMMA PublishEnqueues ==
  ASSUME RingParameters, IInv, NEW p \in Producers, EnqueuePublish(p), Entries' = Entries + 1
  PROVE  Fifo!Enqueue(obj[p])
<1>1. prodPc[p] = "publish" /\ ring' = ring /\ consHead' = consHead
      /\ consPc' = consPc /\ objP' = objP
  BY DEF EnqueuePublish, Goto
<1>2. Entries \in Nat /\ Entries <= Size - 2 /\ Size \in Nat /\ consHead \in Int
  <2>1. Entries <= Size - 2
    BY <1>1, ReservedCell
  <2> QED BY SMTT(60), <2>1, EntriesFacts, Sizes DEF IInv, TypeOK, Positions
<1>3. ring[Mask(consHead + Entries)] = obj[p]
  BY <1>1, ReservedCell DEF IInv, ProducerPlace
<1>4. Queued' = [i \in 1..(Entries + 1) |-> ring[Mask(consHead + i - 1)]]
  BY <1>1 DEF Queued
<1>5. Queued' = Append(Queued, obj[p])
  <2>1. Append(Queued, obj[p]) =
          [i \in 1..(Entries + 1) |-> IF i = Entries + 1 THEN obj[p] ELSE Queued[i]]
    <3>1. obj[p] \in Values \cup {NoValue}
      BY <1>1 DEF IInv, TypeOK
    <3> QED BY <1>2, <3>1, QueuedIsSeq, Appended
  <2>2. ASSUME NEW i \in 1..(Entries + 1)
        PROVE  ring[Mask(consHead + i - 1)] = IF i = Entries + 1 THEN obj[p] ELSE Queued[i]
    <3>1. CASE i = Entries + 1
      <4>1. consHead + i - 1 = consHead + Entries
        BY <1>2, <3>1
      <4> QED BY <1>3, <3>1, <4>1
    <3>2. CASE i # Entries + 1
      <4>1. i \in 1..Entries
        BY <1>2, <3>2
      <4> QED BY <3>2, <4>1, QueuedIsSeq
    <3> QED BY <3>1, <3>2
  <2> QED BY <1>4, <2>1, <2>2
<1>6. Len(Queued) < Size - 1
  <2>1. Len(Queued) = Entries
    BY <1>2, QueuedIsSeq, Length
  <2> QED BY <1>2, <2>1
<1> QED BY <1>1, <1>5, <1>6 DEF Fifo!Enqueue

(* Moving the consumer's head is a dequeue of the bounded FIFO. *)
LEMMA HeadDequeues ==
  ASSUME RingParameters, IInv, Dequeue
  PROVE  Fifo!Dequeue("consumer")
<1>1. Entries >= 1 /\ consPc = "dequeue" /\ consHead = consTail
  BY IInvChecks DEF RingChecksHold, Dequeue, IInv, ConsumerPlace
<1>2. Entries \in Nat /\ Entries = Held /\ consHead \in Positions /\ consHead \in Int
  BY <1>1, EntriesFacts, Sizes DEF IInv, TypeOK, Positions
<1>3. consPc' = "read" /\ consHead' = Plus(consHead, 1) /\ ring' = ring /\ prodTail' = prodTail
  BY <1>1, <1>2 DEF Dequeue
<1>4. \A x \in Int : Mask(Plus(consHead, 1) + x) = Mask(consHead + 1 + x)
  BY <1>2, MaskFacts
<1>5. Entries' = Entries - 1
  <2>1. prodTail \in Positions /\ Entries = Ahead(prodTail, consHead)
    BY DEF IInv, TypeOK, Entries, Ahead
  <2>2. Ahead(prodTail, Plus(consHead, 1)) = Entries - 1
    BY <1>1, <1>2, <2>1, AheadFacts
  <2> QED BY <1>3, <2>2 DEF Entries, Ahead
<1>6. Plus(consHead, 1) \in Int
  BY <1>2, AheadFacts, Sizes DEF Positions
<1>7. ASSUME NEW i \in Int
      PROVE  Mask(consHead' + i - 1) = Mask(consHead + (i + 1) - 1)
  <2> DEFINE x == i - 1
  <2>1. x \in Int /\ consHead' + i - 1 = Plus(consHead, 1) + x
        /\ consHead + 1 + x = consHead + (i + 1) - 1
    BY <1>2, <1>3, <1>6
  <2> HIDE DEF x
  <2> QED BY <1>4, <2>1
<1>8. Queued # << >> /\ Head(Queued) = ring[Mask(consHead)]
  <2>1. Head(Queued) = Queued[1] /\ Queued # << >>
    BY <1>1, <1>2, QueuedIsSeq, HeadRemoved
  <2>2. 1 \in 1..Entries /\ consHead + 1 - 1 = consHead
    BY <1>1, <1>2
  <2> QED BY <2>1, <2>2, QueuedIsSeq
<1>9. Queued' = Tail(Queued)
  <2>1. Tail(Queued) = [i \in 1..(Entries - 1) |-> Queued[i + 1]]
    <3> DEFINE f == Queued
               n == Entries
               S == Values \cup {NoValue}
    <3>1. f \in [1..n -> S] /\ n \in Nat \ {0}
      BY <1>1, <1>2, QueuedIsSeq
    <3> HIDE DEF f, n, S
    <3>2. Tail(f) = [i \in 1..(n - 1) |-> f[i + 1]]
      BY ZenonT(60), <3>1, HeadRemoved
    <3> QED BY <3>2 DEF f, n
  <2>2. Queued' = [i \in 1..(Entries - 1) |-> ring[Mask(consHead' + i - 1)]]
    BY <1>3, <1>5 DEF Queued
  <2>3. ASSUME NEW i \in 1..(Entries - 1)
        PROVE  ring[Mask(consHead' + i - 1)] = Queued[i + 1]
    <3>1. i \in Int /\ i + 1 \in 1..Entries
      BY <1>1, <1>2
    <3>2. Queued[i + 1] = ring[Mask(consHead + (i + 1) - 1)]
      BY <3>1, QueuedIsSeq
    <3> QED BY <1>7, <3>1, <3>2
  <2> QED BY <2>1, <2>2, <2>3
<1>10. Taken' = ring[Mask(consHead)]
  <2>1. Mask(consHead' - 1) = Mask(consHead)
    <3>1. Mask(consHead' + 0 - 1) = Mask(consHead + (0 + 1) - 1)
      BY <1>7
    <3>2. consHead' + 0 - 1 = consHead' - 1 /\ consHead + (0 + 1) - 1 = consHead
      BY <1>2, <1>3, <1>6
    <3> QED BY <3>1, <3>2
  <2> QED BY <1>3, <2>1 DEF Taken
<1> QED BY <1>8, <1>9, <1>10 DEF Fifo!Dequeue, Taken

LEMMA StepImplements ==
  ASSUME RingParameters, OneProducer, IInv, IInv', [Next]_vars
  PROVE  [Fifo!Next]_(Fifo!vars)
<1>1. \A p \in Producers : prodPc[p] # "idle" => obj[p] \in Values
  BY DEF IInv, ProducerPlace
<1>2. ASSUME NEW p \in Producers, NEW v \in Values, CheckRoom(p, v)
      PROVE  UNCHANGED Fifo!vars
  BY <1>2, Stutters DEF CheckRoom, Entries, Taken
<1>3. ASSUME NEW p \in Producers, Enqueue(p) PROVE UNCHANGED Fifo!vars
  BY <1>3, Stutters DEF Enqueue, Entries, Taken
<1>4. ASSUME NEW p \in Producers, EnqueueClaim(p) PROVE UNCHANGED Fifo!vars
  BY <1>4, Stutters DEF EnqueueClaim, Entries, Taken
<1>5. ASSUME NEW p \in Producers, EnqueueWrite(p) PROVE UNCHANGED Fifo!vars
  <2>1. prodPc[p] = "write" /\ Entries' = Entries /\ consHead' = consHead
        /\ consPc' = consPc /\ objP' = objP
        /\ ring' = [ring EXCEPT ![Mask(prodAt[p])] = obj[p]]
    BY <1>5 DEF EnqueueWrite, Goto, Entries
  <2>2. /\ \A i \in 1..Entries : Mask(consHead + i - 1) # Mask(prodAt[p])
        /\ consPc = "read" => Mask(consHead - 1) # Mask(prodAt[p])
    BY <2>1, ReservedCell
  <2>3. \A i \in 1..Entries : ring'[Mask(consHead + i - 1)] = ring[Mask(consHead + i - 1)]
    BY <2>1, <2>2 DEF IInv, TypeOK
  <2>4. Taken' = Taken
    BY <2>1, <2>2 DEF Taken, IInv, TypeOK
  <2> QED BY <2>1, <2>3, <2>4, Stutters
<1>6. ASSUME NEW p \in Producers, EnqueuePublish(p) PROVE Fifo!Next
  <2>1. prodPc[p] = "publish" /\ prodTail' = Plus(prodTail, 1)
        /\ consHead' = consHead /\ consPc' = consPc
    BY <1>6 DEF EnqueuePublish, Goto, IInv, ProducerPlace
  <2>2. Entries' = Entries + 1
    <3>1. prodTail \in Positions /\ consHead \in Positions
      BY DEF IInv, TypeOK
    <3>2. Ahead(prodTail, consHead) < Size /\ Entries = Ahead(prodTail, consHead)
      BY EntriesFacts, Sizes DEF Entries, Ahead
    <3>3. Ahead(Plus(prodTail, 1), consHead) = Ahead(prodTail, consHead) + 1
      BY <3>1, <3>2, AheadFacts
    <3> QED BY <2>1, <3>2, <3>3 DEF Entries, Ahead
  <2>3. Fifo!Enqueue(obj[p])
    BY <1>6, <2>2, PublishEnqueues
  <2> QED BY <1>1, <2>1, <2>3 DEF Fifo!Next
<1>7. ASSUME CheckEntry PROVE UNCHANGED Fifo!vars
  BY <1>7, Stutters DEF CheckEntry, Entries, Taken
<1>8. ASSUME Dequeue PROVE Fifo!Next
  BY <1>8, HeadDequeues DEF Fifo!Next
<1>9. ASSUME DequeueRead PROVE UNCHANGED Fifo!vars
  BY <1>9, Stutters DEF DequeueRead, Entries, Taken
<1>10. ASSUME DequeueRelease PROVE UNCHANGED Fifo!vars
  BY <1>10, Stutters DEF DequeueRelease, Entries, Taken
<1>11. ASSUME UNCHANGED vars PROVE UNCHANGED Fifo!vars
  BY <1>11, Stutters DEF vars, Entries, Taken
<1> QED BY <1>2, <1>3, <1>4, <1>5, <1>6, <1>7, <1>8, <1>9, <1>10, <1>11 DEF Next

LEMMA InitImplements ==
  ASSUME RingParameters, Init
  PROVE  Fifo!Init
<1>1. Entries = 0
  <2>1. UInt32 \in Nat \ {0} /\ 0 \in Positions
    BY Sizes DEF Positions
  <2> QED BY <2>1, AheadFacts DEF Init, Entries, Ahead
<1>2. Queued = << >>
  BY <1>1 DEF Queued
<1> QED BY <1>2 DEF Init, Fifo!Init

-----------------------------------------------------------------------------
(* The positions of ringbuffer.h stay uint32_t whatever the size of the ring, *)
(* and no thread reads a cell outside of it.                                 *)
THEOREM TypeCorrect ==
  ASSUME RingParameters, OneProducer
  PROVE  Spec => []TypeOK
<1>1. Init => IInv
  BY InitIInv
<1>2. IInv /\ [Next]_vars => IInv'
  BY NextIInv
<1>3. IInv => TypeOK
  BY DEF IInv
<1> QED BY <1>1, <1>2, <1>3, PTL DEF Spec

(* The two threads of opera-v4 may ignore what ringbuffer_sp_enqueue and      *)
(* ringbuffer_sc_dequeue return: what ringbuf_is_full and ringbuf_is_empty    *)
(* answered just before still holds at the call, whatever the other thread   *)
(* did, also when the positions wrap.                                        *)
THEOREM CallsSucceed ==
  ASSUME RingParameters, OneProducer
  PROVE  Spec => []RingChecksHold
<1>1. Init => IInv
  BY InitIInv
<1>2. IInv /\ [Next]_vars => IInv'
  BY NextIInv
<1>3. IInv => RingChecksHold
  BY IInvChecks
<1> QED BY <1>1, <1>2, <1>3, PTL DEF Spec

(* With one producer and one consumer ringbuffer.h is a FIFO of Size - 1      *)
(* descriptors: nothing is lost, delivered twice, reordered or overwritten   *)
(* before the consumer has loaded it, though the threads share no lock and   *)
(* no atomic operation.                                                      *)
THEOREM RingIsAFifo ==
  ASSUME RingParameters, OneProducer
  PROVE  Spec => RingImplementsFifo
<1>1. Init => IInv /\ Fifo!Init
  BY InitIInv, InitImplements
<1>2. IInv /\ [Next]_vars => IInv'
  BY NextIInv
<1>3. IInv /\ IInv' /\ [Next]_vars => [Fifo!Next]_(Fifo!vars)
  BY StepImplements
<1> QED BY <1>1, <1>2, <1>3, PTL DEF Spec, RingImplementsFifo, Fifo!Spec
=============================================================================
