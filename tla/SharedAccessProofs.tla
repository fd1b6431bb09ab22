------------------------- MODULE SharedAccessProofs ------------------------
(***************************************************************************)
(* What MCSharedAccess checks of two of its structures, for all sizes.     *)
(*                                                                         *)
(* The queue of v5-mpsc, for any number of producers: its asserts hold and *)
(* it is a bounded FIFO.  Room is reserved before a cell is claimed, and   *)
(* given back after the cell is empty and tail has moved on.  So the cells *)
(* from the consumer's place on, as many as are stored or claimed, are in  *)
(* use, the others are empty, and a producer that has reserved room finds  *)
(* head among those.                                                       *)
(*                                                                         *)
(* The cache of v6-multi-pool: every buffer stays in exactly one place, a  *)
(* trade finds a slab that nobody works on, and the calls of both threads  *)
(* are as good as single steps (SlabCache).                                *)
(***************************************************************************)
EXTENDS MCSharedAccess, DataLemmas

-----------------------------------------------------------------------------
(* The queue with many producers: its invariant *)

Claiming == {p \in MpscProducers : mProdPc[p] = "claim"}
BackingOff == {p \in MpscProducers : mProdPc[p] = "backOff"}
Stored == {i \in Mpsc!Cells : mBuffer[i] # NoValue}

\* The room of the pointer the consumer is taking
Taking == IF mConsPc = "idle" THEN 0 ELSE 1

\* How far cell i is from cell f
Distance(f, i) == IF f <= i THEN i - f ELSE i - f + MpscMax

MpscTypeOK ==
  /\ mCount \in Int /\ mHead \in Mpsc!Cells /\ mTail \in Mpsc!Cells
  /\ mBuffer \in [Mpsc!Cells -> Values \cup {NoValue}]
  /\ mProdPc \in [MpscProducers -> {"idle", "backOff", "claim", "assertEmpty", "store"}]
  /\ mClaimed \in [MpscProducers -> Mpsc!Cells]
  /\ mObj \in [MpscProducers -> Values \cup {NoValue}]
  /\ mConsPc \in {"idle", "advance", "giveBack"}

\* What is counted is finite, and there is room for all of it.
Room ==
  /\ IsFiniteSet(Claiming) /\ IsFiniteSet(BackingOff) /\ IsFiniteSet(Mpsc!Pending)
  /\ Cardinality(Claiming) + Mpsc!Length + Taking <= MpscMax
  /\ mCount = Cardinality(Claiming) + Cardinality(BackingOff) + Mpsc!Length + Taking

\* The cells in use are the first ones from the consumer's place on.
CellsInUse ==
  /\ Distance(Mpsc!First, mHead) = IF Mpsc!Length = MpscMax THEN 0 ELSE Mpsc!Length
  /\ \A i \in Mpsc!Cells :
       mBuffer[i] # NoValue => Distance(Mpsc!First, i) < Mpsc!Length
  /\ \A p \in Mpsc!Pending :
       /\ Distance(Mpsc!First, mClaimed[p]) < Mpsc!Length
       /\ mBuffer[mClaimed[p]] = NoValue
       /\ \A q \in Mpsc!Pending : mClaimed[q] = mClaimed[p] => q = p

\* Who has reserved room has a pointer to queue.
Arguments == \A p \in Claiming \cup Mpsc!Pending : mObj[p] \in Values

MInv == MpscTypeOK /\ Room /\ CellsInUse /\ Arguments

-----------------------------------------------------------------------------
(* Places and numbers *)

\* What is assumed of the queue's size
LEMMA MpscSizes == MpscMax \in Nat /\ MpscMax >= 2 /\ NoValue \notin Values
  BY SharedAccessAssumption DEF Mpsc!MpscParameters

\* Positions that go around the array once
LEMMA Around ==
  ASSUME NEW x \in 0..(2 * MpscMax - 1)
  PROVE  x % MpscMax = (IF x < MpscMax THEN x ELSE x - MpscMax) /\ x % MpscMax \in Mpsc!Cells
<1>1. CASE x < MpscMax
  <2>1. x = MpscMax * 0 + x /\ x \in 0..(MpscMax - 1) /\ MpscMax \in Nat \ {0}
    BY <1>1, MpscSizes
  <2>2. x % MpscMax = x
    BY <2>1, Remainder
  <2> QED BY <1>1, <2>1, <2>2 DEF Mpsc!Cells
<1>2. CASE x >= MpscMax
  <2>1. x = MpscMax * 1 + (x - MpscMax) /\ x - MpscMax \in 0..(MpscMax - 1) /\ MpscMax \in Nat \ {0} /\ x \in Int
    BY <1>2, MpscSizes
  <2>2. x % MpscMax = x - MpscMax
    BY <2>1, Remainder
  <2> QED BY <1>2, <2>1, <2>2, MpscSizes DEF Mpsc!Cells
<1> QED BY <1>1, <1>2, MpscSizes

\* One cell per distance
LEMMA Distances ==
  ASSUME NEW f \in Mpsc!Cells, NEW i \in Mpsc!Cells
  PROVE  /\ Distance(f, i) \in 0..(MpscMax - 1)
         /\ Distance(f, f) = 0
         /\ i = (f + Distance(f, i)) % MpscMax
         /\ \A j \in Mpsc!Cells : Distance(f, j) = Distance(f, i) => j = i
<1>1. f \in 0..(MpscMax - 1) /\ i \in 0..(MpscMax - 1)
  BY DEF Mpsc!Cells
<1>2. Distance(f, i) \in 0..(MpscMax - 1) /\ Distance(f, f) = 0
  BY <1>1, MpscSizes DEF Distance
<1>3. f + Distance(f, i) = (IF f <= i THEN i ELSE i + MpscMax)
  BY <1>1, MpscSizes DEF Distance
<1>4. f + Distance(f, i) \in 0..(2 * MpscMax - 1)
  BY <1>1, <1>2, MpscSizes
<1>5. i = (f + Distance(f, i)) % MpscMax
  BY <1>1, <1>3, <1>4, Around, MpscSizes
<1>6. \A j \in Mpsc!Cells : Distance(f, j) = Distance(f, i) => j = i
  <2> SUFFICES ASSUME NEW j \in 0..(MpscMax - 1), Distance(f, j) = Distance(f, i) PROVE j = i
    BY DEF Mpsc!Cells
  <2> QED BY <1>1, MpscSizes DEF Distance
<1> QED BY <1>2, <1>5, <1>6

\* The next cell is at distance MpscMax - 1 from its successor, the others move one nearer.
LEMMA OneFurther ==
  ASSUME NEW f \in Mpsc!Cells
  PROVE  /\ (f + 1) % MpscMax \in Mpsc!Cells
         /\ Distance((f + 1) % MpscMax, f) = MpscMax - 1
         /\ \A i \in Mpsc!Cells : i # f => Distance((f + 1) % MpscMax, i) = Distance(f, i) - 1
         /\ \A h \in Mpsc!Cells : Distance(h, (f + 1) % MpscMax) =
              IF Distance(h, f) = MpscMax - 1 THEN 0 ELSE Distance(h, f) + 1
<1>1. f \in 0..(MpscMax - 1) /\ f + 1 \in 0..(2 * MpscMax - 1)
  BY MpscSizes DEF Mpsc!Cells
<1>2. PICK g \in 0..(MpscMax - 1) : g = (f + 1) % MpscMax
  BY <1>1, Around DEF Mpsc!Cells
<1>3. g = IF f + 1 < MpscMax THEN f + 1 ELSE f + 1 - MpscMax
  BY <1>1, <1>2, Around, MpscSizes
<1>4. g = IF f = MpscMax - 1 THEN 0 ELSE f + 1
  BY <1>1, <1>3, MpscSizes
<1>5. Distance(g, f) = MpscMax - 1
  BY <1>1, <1>4, MpscSizes DEF Distance
<1>6. ASSUME NEW i \in 0..(MpscMax - 1), i # f PROVE Distance(g, i) = Distance(f, i) - 1
  BY <1>1, <1>4, <1>6, MpscSizes DEF Distance
<1>7. ASSUME NEW h \in 0..(MpscMax - 1)
      PROVE  Distance(h, g) = IF Distance(h, f) = MpscMax - 1 THEN 0 ELSE Distance(h, f) + 1
  BY <1>1, <1>4, MpscSizes DEF Distance
<1> QED BY <1>2, <1>5, <1>6, <1>7 DEF Mpsc!Cells

\* The queue's module and this one count alike.
LEMMA SameCardinality == \A S : Mpsc!Cardinality(S) = Cardinality(S)
  BY DEF Mpsc!Cardinality, Cardinality

\* A step of MCSharedAccess is one of the queue or leaves it alone.
LEMMA MpscSteps ==
  ASSUME [SharedAccessNext]_<<used, vars, cacheVars, mpscVars>>
  PROVE  [Mpsc!Next]_(Mpsc!vars)
  BY DEF SharedAccessNext, mpscVars, Mpsc!vars

\* The numbers the invariant relates
LEMMA Numbers ==
  ASSUME MInv
  PROVE  /\ Cardinality(Claiming) \in Nat /\ Cardinality(BackingOff) \in Nat
         /\ Cardinality(Mpsc!Pending) \in Nat /\ Cardinality(Stored) \in Nat /\ IsFiniteSet(Stored)
         /\ Mpsc!Length = Cardinality(Stored) + Cardinality(Mpsc!Pending) /\ Mpsc!Length \in Nat
         /\ Taking \in {0, 1} /\ Mpsc!First \in Mpsc!Cells
<1>1. /\ Cardinality(Claiming) \in Nat /\ Cardinality(BackingOff) \in Nat
      /\ Cardinality(Mpsc!Pending) \in Nat
  BY FS_CardinalityType DEF MInv, Room
<1>2. IsFiniteSet(Stored) /\ Cardinality(Stored) \in Nat
  <2>1. IsFiniteSet(Mpsc!Cells)
    BY MpscSizes, FS_Interval DEF Mpsc!Cells
  <2>2. Stored \subseteq Mpsc!Cells
    BY DEF Stored
  <2> QED BY <2>1, <2>2, FS_Subset, FS_CardinalityType
<1>3. Mpsc!Length = Cardinality(Stored) + Cardinality(Mpsc!Pending)
  BY SameCardinality DEF Mpsc!Length, Stored
<1>4. Mpsc!First \in Mpsc!Cells
  BY OneFurther DEF MInv, MpscTypeOK, Mpsc!First
<1> QED BY <1>1, <1>2, <1>3, <1>4 DEF Taking

\* The length before and after a step, in terms of the sets it counts
LEMMA Lengths ==
  /\ Mpsc!Length = Cardinality(Stored) + Cardinality(Mpsc!Pending)
  /\ Mpsc!Length' = Cardinality(Stored') + Cardinality(Mpsc!Pending')
  BY SameCardinality DEF Mpsc!Length, Stored

\* A set that loses an element
LEMMA Taken ==
  ASSUME NEW S, NEW x \in S, IsFiniteSet(S)
  PROVE  /\ IsFiniteSet(S \ {x}) /\ Cardinality(S \ {x}) = Cardinality(S) - 1
         /\ Cardinality(S) \in Nat \ {0}
<1>1. IsFiniteSet(S \ {x}) /\ Cardinality(S \ {x}) = Cardinality(S) - 1
  BY FS_RemoveElement
<1>2. Cardinality(S) \in Nat /\ Cardinality(S \ {x}) \in Nat
  BY <1>1, FS_CardinalityType
<1> QED BY <1>1, <1>2

\* A set that gains an element
LEMMA Put ==
  ASSUME NEW S, NEW x, x \notin S, IsFiniteSet(S)
  PROVE  IsFiniteSet(S \cup {x}) /\ Cardinality(S \cup {x}) = Cardinality(S) + 1
  BY FS_AddElement

\* Types, step by step
LEMMA MpscTypeStep ==
  ASSUME MInv, Mpsc!Next
  PROVE  MpscTypeOK'
<1>0. MpscTypeOK
  BY DEF MInv
<1>1. ASSUME NEW p \in MpscProducers, NEW v \in Values, Mpsc!Reserve(p, v) PROVE MpscTypeOK'
  BY <1>0, <1>1 DEF MpscTypeOK, Mpsc!Reserve, Mpsc!Goto
<1>2. ASSUME NEW p \in MpscProducers, Mpsc!BackOff(p) PROVE MpscTypeOK'
  BY <1>0, <1>2 DEF MpscTypeOK, Mpsc!BackOff, Mpsc!Goto
<1>3. ASSUME NEW p \in MpscProducers, Mpsc!Claim(p) PROVE MpscTypeOK'
  <2>1. (mHead + 1) % MpscMax \in Mpsc!Cells
    BY <1>0, OneFurther DEF MpscTypeOK
  <2> HIDE DEF Mpsc!Cells
  <2> QED BY <1>0, <1>3, <2>1 DEF MpscTypeOK, Mpsc!Claim, Mpsc!Goto
<1>4. ASSUME NEW p \in MpscProducers, Mpsc!AssertEmpty(p) PROVE MpscTypeOK'
  BY <1>0, <1>4 DEF MpscTypeOK, Mpsc!AssertEmpty, Mpsc!Goto
<1>5. ASSUME NEW p \in MpscProducers, Mpsc!Store(p) PROVE MpscTypeOK'
  BY <1>0, <1>5 DEF MpscTypeOK, Mpsc!Store, Mpsc!Goto
<1>6. CASE Mpsc!Take
  BY <1>0, <1>6 DEF MpscTypeOK, Mpsc!Take
<1>7. CASE Mpsc!Advance
  <2>1. mTail' \in Mpsc!Cells
    BY <1>0, <1>7, MpscSizes DEF MpscTypeOK, Mpsc!Advance, Mpsc!Cells
  <2> QED BY <1>0, <1>7, <2>1 DEF MpscTypeOK, Mpsc!Advance
<1>8. CASE Mpsc!GiveBack
  BY <1>0, <1>8 DEF MpscTypeOK, Mpsc!GiveBack
<1> QED BY <1>1, <1>2, <1>3, <1>4, <1>5, <1>6, <1>7, <1>8 DEF Mpsc!Next

\* A step that changes neither cells nor who has claimed them
LEMMA CellsKept ==
  ASSUME MInv, Mpsc!Pending' = Mpsc!Pending, mBuffer' = mBuffer, mHead' = mHead,
         mClaimed' = mClaimed, Mpsc!First' = Mpsc!First
  PROVE  CellsInUse' /\ Stored' = Stored /\ Mpsc!Length' = Mpsc!Length
<1>1. Stored' = Stored
  BY DEF Stored
<1>2. Mpsc!Length' = Mpsc!Length
  BY <1>1, Lengths
<1>3. CellsInUse
  BY DEF MInv
<1> QED BY <1>1, <1>2, <1>3 DEF CellsInUse

\* The room is kept if the count changes by what the four numbers change.
LEMMA RoomStep ==
  ASSUME MInv, IsFiniteSet(Claiming'), IsFiniteSet(BackingOff'), IsFiniteSet(Mpsc!Pending'),
         mCount' - mCount = (Cardinality(Claiming') - Cardinality(Claiming))
                            + (Cardinality(BackingOff') - Cardinality(BackingOff))
                            + (Mpsc!Length' - Mpsc!Length) + (Taking' - Taking),
         mCount' \in Int, Mpsc!Length' \in Int,
         Cardinality(Claiming') + Mpsc!Length' + Taking' <= MpscMax
  PROVE  Room'
<1>1. /\ Cardinality(Claiming) \in Nat /\ Cardinality(BackingOff) \in Nat
      /\ Mpsc!Length \in Nat /\ Taking \in Int
  BY Numbers
<1>2. /\ mCount = Cardinality(Claiming) + Cardinality(BackingOff) + Mpsc!Length + Taking
  BY DEF MInv, Room
<1>3. Cardinality(Claiming') \in Nat /\ Cardinality(BackingOff') \in Nat /\ Taking' \in Int
  BY FS_CardinalityType DEF Taking
<1>4. mCount' = Cardinality(Claiming') + Cardinality(BackingOff') + Mpsc!Length' + Taking'
  BY <1>1, <1>2, <1>3
<1> QED BY <1>4 DEF Room

\* Reserving room is counted before a cell is claimed.
LEMMA ReserveStep ==
  ASSUME MInv, MpscTypeOK', NEW p \in MpscProducers, NEW v \in Values, Mpsc!Reserve(p, v)
  PROVE  MInv' /\ Mpsc!Pending' = Mpsc!Pending /\ Mpsc!Length' = Mpsc!Length
<1>0. /\ mProdPc \in [MpscProducers -> {"idle", "backOff", "claim", "assertEmpty", "store"}]
      /\ mObj \in [MpscProducers -> Values \cup {NoValue}]
  BY DEF MInv, MpscTypeOK
<1>1. /\ mProdPc[p] = "idle" /\ mCount' = mCount + 1
      /\ mProdPc' = [mProdPc EXCEPT ![p] = IF mCount >= MpscMax THEN "backOff" ELSE "claim"]
      /\ mObj' = [mObj EXCEPT ![p] = v]
      /\ UNCHANGED <<mHead, mTail, mBuffer, mClaimed, mConsPc>>
  BY DEF Mpsc!Reserve, Mpsc!Goto
<1>2. Mpsc!Pending' = Mpsc!Pending /\ p \notin Mpsc!Pending
  BY <1>0, <1>1 DEF Mpsc!Pending
<1>3. Mpsc!First' = Mpsc!First /\ Taking' = Taking
  BY <1>1 DEF Mpsc!First, Taking
<1>4. CellsInUse' /\ Mpsc!Length' = Mpsc!Length
  BY <1>1, <1>2, <1>3, CellsKept
<1>5. Arguments'
  BY <1>0, <1>1, <1>2 DEF MInv, Arguments, Claiming
<1>6. /\ IsFiniteSet(Claiming) /\ IsFiniteSet(BackingOff) /\ IsFiniteSet(Mpsc!Pending)
      /\ mCount = Cardinality(Claiming) + Cardinality(BackingOff) + Mpsc!Length + Taking
  BY DEF MInv, Room
<1>7. /\ Cardinality(Claiming) \in Nat /\ Cardinality(BackingOff) \in Nat
      /\ Mpsc!Length \in Nat /\ Taking \in Int
  BY Numbers
<1>8. CASE mCount >= MpscMax
  <2>1. Claiming' = Claiming /\ BackingOff' = BackingOff \cup {p} /\ p \notin BackingOff
    BY <1>0, <1>1, <1>8 DEF Claiming, BackingOff
  <2>2. IsFiniteSet(BackingOff') /\ Cardinality(BackingOff') = Cardinality(BackingOff) + 1
    BY <1>6, <2>1, Put
  <2>3. mCount' - mCount = (Cardinality(Claiming') - Cardinality(Claiming))
                            + (Cardinality(BackingOff') - Cardinality(BackingOff))
                            + (Mpsc!Length' - Mpsc!Length) + (Taking' - Taking)
    BY <1>1, <1>3, <1>4, <1>6, <1>7, <2>1, <2>2
  <2>4. /\ Cardinality(Claiming') + Mpsc!Length' + Taking' <= MpscMax
        /\ mCount' \in Int /\ Mpsc!Length' \in Int
    BY <1>1, <1>3, <1>4, <1>6, <1>7, <2>1 DEF MInv, Room
  <2>5. Room'
    BY <1>2, <1>6, <2>1, <2>2, <2>3, <2>4, RoomStep
  <2> QED BY <1>2, <1>4, <1>5, <2>5 DEF MInv
<1>9. CASE ~ (mCount >= MpscMax)
  <2>1. BackingOff' = BackingOff /\ Claiming' = Claiming \cup {p} /\ p \notin Claiming
    BY <1>0, <1>1, <1>9 DEF Claiming, BackingOff
  <2>2. IsFiniteSet(Claiming') /\ Cardinality(Claiming') = Cardinality(Claiming) + 1
    BY <1>6, <2>1, Put
  <2>3. mCount' - mCount = (Cardinality(Claiming') - Cardinality(Claiming))
                            + (Cardinality(BackingOff') - Cardinality(BackingOff))
                            + (Mpsc!Length' - Mpsc!Length) + (Taking' - Taking)
    BY <1>1, <1>3, <1>4, <1>6, <1>7, <2>1, <2>2
  <2>4. /\ Cardinality(Claiming') + Mpsc!Length' + Taking' <= MpscMax
        /\ mCount' \in Int /\ Mpsc!Length' \in Int
    <3>1. Cardinality(Claiming) + 1 + Mpsc!Length + Taking <= MpscMax
      BY <1>6, <1>7, <1>9, MpscSizes
    <3> QED BY <1>1, <1>3, <1>4, <1>6, <1>7, <2>2, <3>1, MpscSizes
  <2>5. Room'
    BY <1>2, <1>6, <2>1, <2>2, <2>3, <2>4, RoomStep
  <2> QED BY <1>2, <1>4, <1>5, <2>5 DEF MInv
<1> QED BY <1>8, <1>9

\* A producer that found the queue full gives back what it counted.
LEMMA BackOffStep ==
  ASSUME MInv, MpscTypeOK', NEW p \in MpscProducers, Mpsc!BackOff(p)
  PROVE  MInv' /\ Mpsc!Pending' = Mpsc!Pending /\ Mpsc!Length' = Mpsc!Length
<1>0. mProdPc \in [MpscProducers -> {"idle", "backOff", "claim", "assertEmpty", "store"}]
  BY DEF MInv, MpscTypeOK
<1>1. /\ mProdPc[p] = "backOff" /\ mCount' = mCount - 1
      /\ mProdPc' = [mProdPc EXCEPT ![p] = "idle"]
      /\ UNCHANGED <<mHead, mTail, mBuffer, mClaimed, mConsPc, mObj>>
  BY DEF Mpsc!BackOff, Mpsc!Goto
<1>2. /\ Mpsc!Pending' = Mpsc!Pending /\ Claiming' = Claiming
      /\ BackingOff' = BackingOff \ {p} /\ p \in BackingOff
  BY <1>0, <1>1 DEF Mpsc!Pending, Claiming, BackingOff
<1>3. Mpsc!First' = Mpsc!First /\ Taking' = Taking
  BY <1>1 DEF Mpsc!First, Taking
<1>4. CellsInUse' /\ Mpsc!Length' = Mpsc!Length
  BY <1>1, <1>2, <1>3, CellsKept
<1>5. Arguments'
  BY <1>1, <1>2 DEF MInv, Arguments
<1>6. /\ IsFiniteSet(Claiming) /\ IsFiniteSet(BackingOff) /\ IsFiniteSet(Mpsc!Pending)
      /\ mCount \in Int
  BY DEF MInv, Room, MpscTypeOK
<1>7. /\ Cardinality(Claiming) \in Nat /\ Mpsc!Length \in Nat /\ Taking \in Int
      /\ Cardinality(BackingOff) \in Nat
  BY Numbers
<1>8. IsFiniteSet(BackingOff') /\ Cardinality(BackingOff') = Cardinality(BackingOff) - 1
  BY <1>2, <1>6, <1>7, Taken
<1>9. mCount' - mCount = (Cardinality(Claiming') - Cardinality(Claiming))
                          + (Cardinality(BackingOff') - Cardinality(BackingOff))
                          + (Mpsc!Length' - Mpsc!Length) + (Taking' - Taking)
  BY <1>1, <1>2, <1>3, <1>4, <1>6, <1>7, <1>8
<1>10. /\ Cardinality(Claiming') + Mpsc!Length' + Taking' <= MpscMax
       /\ mCount' \in Int /\ Mpsc!Length' \in Int
  BY <1>1, <1>2, <1>3, <1>4, <1>6, <1>7 DEF MInv, Room
<1>11. Room'
  BY <1>2, <1>6, <1>8, <1>9, <1>10, RoomStep
<1> QED BY <1>2, <1>4, <1>5, <1>11 DEF MInv

\* A producer that has room claims a cell that is not in use.
LEMMA ClaimStep ==
  ASSUME MInv, MpscTypeOK', NEW p \in MpscProducers, Mpsc!Claim(p)
  PROVE  /\ MInv' /\ Mpsc!Pending' = Mpsc!Pending \cup {p} /\ p \notin Mpsc!Pending
         /\ Mpsc!Length' = Mpsc!Length + 1 /\ Mpsc!Length < MpscMax
         /\ Distance(Mpsc!First, mHead) = Mpsc!Length
         /\ Mpsc!First' = Mpsc!First /\ mBuffer' = mBuffer
         /\ mClaimed' = [mClaimed EXCEPT ![p] = mHead] /\ p \in Claiming
<1> DEFINE f == Mpsc!First
           l == Mpsc!Length
<1>0. /\ mProdPc \in [MpscProducers -> {"idle", "backOff", "claim", "assertEmpty", "store"}]
      /\ mClaimed \in [MpscProducers -> Mpsc!Cells] /\ mHead \in Mpsc!Cells
  BY DEF MInv, MpscTypeOK
<1>1. /\ mProdPc[p] = "claim" /\ mCount' = mCount /\ mHead' = (mHead + 1) % MpscMax
      /\ mProdPc' = [mProdPc EXCEPT ![p] = "assertEmpty"]
      /\ mClaimed' = [mClaimed EXCEPT ![p] = mHead]
      /\ UNCHANGED <<mTail, mBuffer, mConsPc, mObj>>
  BY DEF Mpsc!Claim, Mpsc!Goto
<1>2. /\ Mpsc!Pending' = Mpsc!Pending \cup {p} /\ p \notin Mpsc!Pending
      /\ Claiming' = Claiming \ {p} /\ p \in Claiming
      /\ BackingOff' = BackingOff
  BY <1>0, <1>1 DEF Mpsc!Pending, Claiming, BackingOff
<1>3. f' = f /\ Taking' = Taking /\ Stored' = Stored
  BY <1>1 DEF Mpsc!First, Taking, Stored
<1>4. /\ IsFiniteSet(Claiming) /\ IsFiniteSet(BackingOff) /\ IsFiniteSet(Mpsc!Pending)
      /\ Cardinality(Claiming) + l + Taking <= MpscMax /\ mCount \in Int
  BY DEF MInv, Room, MpscTypeOK
<1>5. /\ Cardinality(Claiming) \in Nat /\ Cardinality(BackingOff) \in Nat /\ l \in Nat
      /\ Taking \in {0, 1} /\ f \in Mpsc!Cells
      /\ Cardinality(Mpsc!Pending) \in Nat /\ Cardinality(Stored) \in Nat
  BY Numbers
<1>6. /\ IsFiniteSet(Claiming') /\ Cardinality(Claiming') = Cardinality(Claiming) - 1
      /\ Cardinality(Claiming) \in Nat \ {0}
  BY <1>2, <1>4, <1>5, Taken
<1>7. IsFiniteSet(Mpsc!Pending') /\ Cardinality(Mpsc!Pending') = Cardinality(Mpsc!Pending) + 1
  BY <1>2, <1>4, Put
<1>8. l' = l + 1
  BY <1>3, <1>5, <1>7, Lengths
<1> HIDE DEF l, f
<1>9. l < MpscMax
  BY <1>4, <1>5, <1>6, MpscSizes
<1>10. Room'
  <2>1. mCount' - mCount = (Cardinality(Claiming') - Cardinality(Claiming))
                            + (Cardinality(BackingOff') - Cardinality(BackingOff))
                            + (l' - l) + (Taking' - Taking)
    BY <1>1, <1>2, <1>3, <1>4, <1>5, <1>6, <1>8
  <2>2. /\ Cardinality(Claiming') + l' + Taking' <= MpscMax
        /\ mCount' \in Int /\ l' \in Int
    BY <1>1, <1>3, <1>4, <1>5, <1>6, <1>8, MpscSizes
  <2> QED BY <1>2, <1>4, <1>6, <1>7, <2>1, <2>2, RoomStep DEF l
<1>11. Distance(f, mHead) = l
  <2>1. Distance(f, mHead) = IF l = MpscMax THEN 0 ELSE l
    BY DEF MInv, CellsInUse, f, l
  <2> QED BY <1>5, <1>9, <2>1, MpscSizes
<1>12. CellsInUse'
  <2>1. Distance(f', mHead') = IF l' = MpscMax THEN 0 ELSE l'
    <3>1. Distance(f, mHead') = IF l = MpscMax - 1 THEN 0 ELSE l + 1
      BY <1>0, <1>1, <1>5, <1>11, OneFurther
    <3> QED BY <1>3, <1>5, <1>8, <1>9, <3>1, MpscSizes
  <2>2. ASSUME NEW i \in Mpsc!Cells, mBuffer'[i] # NoValue PROVE Distance(f', i) < l'
    <3>1. Distance(f, i) < l
      BY <1>1, <2>2 DEF MInv, CellsInUse, f, l
    <3>2. Distance(f, i) \in Int
      BY <1>5, Distances
    <3> QED BY <1>3, <1>5, <1>8, <3>1, <3>2
  <2>3. ASSUME NEW q \in Mpsc!Pending
        PROVE  /\ mClaimed'[q] = mClaimed[q] /\ mClaimed[q] \in Mpsc!Cells /\ mClaimed[q] # mHead
               /\ Distance(f, mClaimed[q]) < l /\ mBuffer[mClaimed[q]] = NoValue
    <3>1. q # p /\ q \in MpscProducers
      BY <1>2 DEF Mpsc!Pending
    <3>2. Distance(f, mClaimed[q]) < l /\ mBuffer[mClaimed[q]] = NoValue
      BY DEF MInv, CellsInUse, f, l
    <3>3. mClaimed[q] # mHead
      BY <1>5, <1>11, <3>2
    <3> QED BY <1>0, <1>1, <3>1, <3>2, <3>3
  <2>4. mClaimed'[p] = mHead /\ mBuffer[mHead] = NoValue
    <3>1. mBuffer[mHead] # NoValue => Distance(f, mHead) < l
      BY <1>0 DEF MInv, CellsInUse, f, l
    <3> QED BY <1>0, <1>1, <1>5, <1>11, <3>1
  <2>5. ASSUME NEW q \in Mpsc!Pending'
        PROVE  /\ Distance(f', mClaimed'[q]) < l' /\ mBuffer'[mClaimed'[q]] = NoValue
               /\ \A r \in Mpsc!Pending' : mClaimed'[r] = mClaimed'[q] => r = q
    <3>1. CASE q = p
      <4>1. \A r \in Mpsc!Pending' : mClaimed'[r] = mClaimed'[q] => r = q
        BY <1>2, <2>3, <2>4, <3>1
      <4> QED BY <1>1, <1>3, <1>5, <1>8, <1>11, <2>4, <3>1, <4>1
    <3>2. CASE q # p
      <4>1. q \in Mpsc!Pending
        BY <1>2, <3>2
      <4>2. \A r \in Mpsc!Pending : mClaimed[r] = mClaimed[q] => r = q
        BY <4>1 DEF MInv, CellsInUse
      <4>3. \A r \in Mpsc!Pending' : mClaimed'[r] = mClaimed'[q] => r = q
        BY <1>2, <2>3, <2>4, <4>1, <4>2
      <4>4. Distance(f, mClaimed[q]) \in Int
        BY <1>5, <2>3, <4>1, Distances
      <4>5. Distance(f', mClaimed'[q]) < l'
        BY <1>3, <1>5, <1>8, <2>3, <4>1, <4>4
      <4> QED BY <1>1, <2>3, <4>1, <4>3, <4>5
    <3> QED BY <3>1, <3>2
  <2> QED BY <2>1, <2>2, <2>5 DEF CellsInUse, f, l
<1>13. Arguments'
  BY <1>1, <1>2 DEF MInv, Arguments
<1> QED BY <1>1, <1>2, <1>3, <1>8, <1>9, <1>10, <1>11, <1>12, <1>13 DEF MInv, f, l

\* The assert before the exchange changes nothing that is counted.
LEMMA AssertEmptyStep ==
  ASSUME MInv, MpscTypeOK', NEW p \in MpscProducers, Mpsc!AssertEmpty(p)
  PROVE  /\ MInv' /\ Mpsc!Pending' = Mpsc!Pending /\ Mpsc!Length' = Mpsc!Length
         /\ Mpsc!First' = Mpsc!First
<1>0. mProdPc \in [MpscProducers -> {"idle", "backOff", "claim", "assertEmpty", "store"}]
  BY DEF MInv, MpscTypeOK
<1>1. /\ mProdPc[p] = "assertEmpty" /\ mProdPc' = [mProdPc EXCEPT ![p] = "store"]
      /\ UNCHANGED <<mCount, mHead, mTail, mBuffer, mClaimed, mObj, mConsPc>>
  BY DEF Mpsc!AssertEmpty, Mpsc!Goto
<1>2. Mpsc!Pending' = Mpsc!Pending /\ Claiming' = Claiming /\ BackingOff' = BackingOff
  BY <1>0, <1>1 DEF Mpsc!Pending, Claiming, BackingOff
<1>3. Mpsc!First' = Mpsc!First /\ Taking' = Taking
  BY <1>1 DEF Mpsc!First, Taking
<1>4. CellsInUse' /\ Mpsc!Length' = Mpsc!Length
  BY <1>1, <1>2, <1>3, CellsKept
<1>5. Arguments'
  BY <1>1, <1>2 DEF MInv, Arguments
<1>6. Room'
  BY <1>1, <1>2, <1>3, <1>4 DEF MInv, Room
<1> QED BY <1>2, <1>3, <1>4, <1>5, <1>6 DEF MInv

\* Storing turns a claimed cell into one that holds a pointer.
LEMMA StoreStep ==
  ASSUME MInv, MpscTypeOK', NEW p \in MpscProducers, Mpsc!Store(p)
  PROVE  /\ MInv' /\ Mpsc!Length' = Mpsc!Length /\ Mpsc!First' = Mpsc!First
         /\ p \in Mpsc!Pending /\ Mpsc!Pending' = Mpsc!Pending \ {p}
         /\ mBuffer' = [mBuffer EXCEPT ![mClaimed[p]] = mObj[p]]
<1> DEFINE f == Mpsc!First
           l == Mpsc!Length
           c == mClaimed[p]
<1>0. /\ mProdPc \in [MpscProducers -> {"idle", "backOff", "claim", "assertEmpty", "store"}]
      /\ mClaimed \in [MpscProducers -> Mpsc!Cells]
      /\ mBuffer \in [Mpsc!Cells -> Values \cup {NoValue}]
  BY DEF MInv, MpscTypeOK
<1>1. /\ mProdPc[p] = "store" /\ mProdPc' = [mProdPc EXCEPT ![p] = "idle"]
      /\ mBuffer' = [mBuffer EXCEPT ![c] = mObj[p]]
      /\ UNCHANGED <<mCount, mHead, mTail, mClaimed, mObj, mConsPc>>
  BY DEF Mpsc!Store, Mpsc!Goto
<1>2. /\ Mpsc!Pending' = Mpsc!Pending \ {p} /\ p \in Mpsc!Pending
      /\ Claiming' = Claiming /\ BackingOff' = BackingOff
  BY <1>0, <1>1 DEF Mpsc!Pending, Claiming, BackingOff
<1>3. f' = f /\ Taking' = Taking
  BY <1>1 DEF Mpsc!First, Taking
<1>4. /\ c \in Mpsc!Cells /\ mBuffer[c] = NoValue /\ Distance(f, c) < l
      /\ mObj[p] \in Values /\ mObj[p] # NoValue
  <2>1. mBuffer[c] = NoValue /\ Distance(f, c) < l
    BY <1>2 DEF MInv, CellsInUse
  <2>2. mObj[p] \in Values
    BY <1>2 DEF MInv, Arguments
  <2> QED BY <1>0, <2>1, <2>2, MpscSizes
<1>5. Stored' = Stored \cup {c} /\ c \notin Stored
  BY <1>0, <1>1, <1>4 DEF Stored
<1>6. IsFiniteSet(Mpsc!Pending) /\ IsFiniteSet(Stored)
  BY Numbers DEF MInv, Room
<1>7. /\ IsFiniteSet(Mpsc!Pending') /\ Cardinality(Mpsc!Pending') = Cardinality(Mpsc!Pending) - 1
      /\ Cardinality(Mpsc!Pending) \in Nat
  BY <1>2, <1>6, Taken
<1>8. Cardinality(Stored') = Cardinality(Stored) + 1 /\ Cardinality(Stored) \in Nat
  BY <1>5, <1>6, Put, Numbers
<1>9. l' = l
  BY <1>7, <1>8, Lengths
<1> HIDE DEF f, l
<1>10. Room'
  BY <1>1, <1>2, <1>3, <1>7, <1>9 DEF MInv, Room, l
<1>11. CellsInUse'
  <2>1. Distance(f', mHead') = IF l' = MpscMax THEN 0 ELSE l'
    BY <1>1, <1>3, <1>9 DEF MInv, CellsInUse, f, l
  <2>2. ASSUME NEW i \in Mpsc!Cells, mBuffer'[i] # NoValue PROVE Distance(f', i) < l'
    <3>1. CASE i = c
      BY <1>3, <1>4, <1>9, <3>1
    <3>2. CASE i # c
      <4>1. mBuffer[i] # NoValue
        BY <1>0, <1>1, <2>2, <3>2
      <4> QED BY <1>3, <1>9, <4>1 DEF MInv, CellsInUse, f, l
    <3> QED BY <3>1, <3>2
  <2>3. ASSUME NEW q \in Mpsc!Pending'
        PROVE  /\ Distance(f', mClaimed'[q]) < l' /\ mBuffer'[mClaimed'[q]] = NoValue
               /\ \A r \in Mpsc!Pending' : mClaimed'[r] = mClaimed'[q] => r = q
    <3>1. q \in Mpsc!Pending /\ q # p /\ mClaimed[q] \in Mpsc!Cells
      BY <1>0, <1>2 DEF Mpsc!Pending
    <3>2. /\ Distance(f, mClaimed[q]) < l /\ mBuffer[mClaimed[q]] = NoValue
          /\ \A r \in Mpsc!Pending : mClaimed[r] = mClaimed[q] => r = q
      BY <3>1 DEF MInv, CellsInUse, f, l
    <3>3. mClaimed[q] # c
      BY <1>2, <3>1, <3>2
    <3> QED BY <1>0, <1>1, <1>2, <1>3, <1>9, <3>1, <3>2, <3>3
  <2> QED BY <2>1, <2>2, <2>3 DEF CellsInUse, f, l
<1>12. Arguments'
  BY <1>1, <1>2 DEF MInv, Arguments
<1> QED BY <1>1, <1>2, <1>3, <1>9, <1>10, <1>11, <1>12 DEF MInv, f, l

\* The consumer empties the first cell in use, and keeps the room.
LEMMA TakeStep ==
  ASSUME MInv, MpscTypeOK', Mpsc!Take
  PROVE  /\ MInv' /\ Mpsc!Length \in Nat \ {0} /\ Mpsc!Length' = Mpsc!Length - 1
         /\ Mpsc!First = mTail /\ Mpsc!First' = (mTail + 1) % MpscMax
         /\ Mpsc!Pending' = Mpsc!Pending
         /\ \A q \in Mpsc!Pending : mClaimed[q] # mTail
<1> DEFINE f == Mpsc!First
           l == Mpsc!Length
<1>0. /\ mClaimed \in [MpscProducers -> Mpsc!Cells] /\ mTail \in Mpsc!Cells
      /\ mHead \in Mpsc!Cells /\ mBuffer \in [Mpsc!Cells -> Values \cup {NoValue}]
      /\ mCount \in Int
  BY DEF MInv, MpscTypeOK
<1>1. /\ mConsPc = "idle" /\ mBuffer[mTail] # NoValue /\ mConsPc' = "advance"
      /\ mBuffer' = [mBuffer EXCEPT ![mTail] = NoValue]
      /\ UNCHANGED <<mCount, mHead, mTail, mProdPc, mClaimed, mObj>>
  BY DEF Mpsc!Take
<1>2. Mpsc!Pending' = Mpsc!Pending /\ Claiming' = Claiming /\ BackingOff' = BackingOff
  BY <1>1 DEF Mpsc!Pending, Claiming, BackingOff
<1>3. f = mTail /\ f' = (mTail + 1) % MpscMax /\ Taking = 0 /\ Taking' = 1
  BY <1>1 DEF Mpsc!First, Taking
<1>4. Stored' = Stored \ {mTail} /\ mTail \in Stored
  BY <1>0, <1>1 DEF Stored
<1>5. /\ IsFiniteSet(Claiming) /\ IsFiniteSet(BackingOff) /\ IsFiniteSet(Mpsc!Pending)
      /\ IsFiniteSet(Stored) /\ Cardinality(Claiming) + l + Taking <= MpscMax
      /\ mCount = Cardinality(Claiming) + Cardinality(BackingOff) + l + Taking
  BY Numbers DEF MInv, Room
<1>6. /\ Cardinality(Claiming) \in Nat /\ Cardinality(BackingOff) \in Nat /\ l \in Nat
      /\ Cardinality(Mpsc!Pending) \in Nat /\ f \in Mpsc!Cells
  BY Numbers
<1>7. Cardinality(Stored') = Cardinality(Stored) - 1 /\ Cardinality(Stored) \in Nat \ {0}
  BY <1>4, <1>5, Taken
<1>8. l' = l - 1 /\ l \in Nat \ {0} /\ l <= MpscMax
  <2>1. l = Cardinality(Stored) + Cardinality(Mpsc!Pending)
        /\ l' = Cardinality(Stored') + Cardinality(Mpsc!Pending')
    BY Lengths
  <2> QED BY <1>2, <1>3, <1>5, <1>6, <1>7, <2>1, MpscSizes
<1> HIDE DEF f, l
<1>9. Room'
  <2>1. Cardinality(Claiming') + l' + Taking' <= MpscMax
    BY <1>2, <1>3, <1>5, <1>6, <1>8, MpscSizes
  <2>2. mCount' = Cardinality(Claiming') + Cardinality(BackingOff') + l' + Taking'
    BY <1>1, <1>2, <1>3, <1>5, <1>6, <1>8
  <2> QED BY <1>2, <1>5, <2>1, <2>2 DEF Room, l
<1>10. /\ Distance(f', f) = MpscMax - 1
       /\ \A i \in Mpsc!Cells : i # f => Distance(f', i) = Distance(f, i) - 1
       /\ \A i \in Mpsc!Cells : Distance(f, i) \in Int
  BY <1>3, <1>6, OneFurther, Distances
<1>11. ASSUME NEW q \in Mpsc!Pending PROVE mClaimed[q] # mTail /\ mClaimed[q] \in Mpsc!Cells
  <2>1. mBuffer[mClaimed[q]] = NoValue
    BY DEF MInv, CellsInUse
  <2> QED BY <1>0, <1>1, <2>1 DEF Mpsc!Pending
<1>12. CellsInUse'
  <2>1. Distance(f', mHead') = IF l' = MpscMax THEN 0 ELSE l'
    <3>1. Distance(f, mHead) = IF l = MpscMax THEN 0 ELSE l
      BY DEF MInv, CellsInUse, f, l
    <3>2. CASE l = MpscMax
      <4>1. mHead = f
        <5>1. Distance(f, mHead) = Distance(f, f)
          BY <1>6, <3>1, <3>2, Distances
        <5> QED BY <1>0, <1>6, <5>1, Distances
      <4>2. Distance(f', mHead) = MpscMax - 1
        BY <1>10, <4>1
      <4> QED BY <1>1, <1>8, <3>2, <4>2, MpscSizes
    <3>3. CASE l # MpscMax
      <4>1. Distance(f, mHead) = l
        BY <3>1, <3>3
      <4>2. mHead # f
        BY <1>6, <1>8, <4>1, Distances
      <4>3. Distance(f', mHead) = l - 1
        BY <1>0, <1>10, <4>1, <4>2
      <4> QED BY <1>1, <1>8, <3>3, <4>3, MpscSizes
    <3> QED BY <3>2, <3>3
  <2>2. ASSUME NEW i \in Mpsc!Cells, mBuffer'[i] # NoValue PROVE Distance(f', i) < l'
    <3>1. i # f /\ mBuffer[i] # NoValue
      BY <1>0, <1>1, <1>3, <2>2
    <3>2. Distance(f, i) < l
      BY <3>1 DEF MInv, CellsInUse, f, l
    <3>3. Distance(f', i) = Distance(f, i) - 1 /\ Distance(f, i) \in Int
      BY <1>10, <3>1
    <3> QED BY <1>8, <3>2, <3>3
  <2>3. ASSUME NEW q \in Mpsc!Pending'
        PROVE  /\ Distance(f', mClaimed'[q]) < l' /\ mBuffer'[mClaimed'[q]] = NoValue
               /\ \A r \in Mpsc!Pending' : mClaimed'[r] = mClaimed'[q] => r = q
    <3>1. q \in Mpsc!Pending /\ mClaimed[q] # f /\ mClaimed[q] \in Mpsc!Cells
      BY <1>2, <1>3, <1>11
    <3>2. /\ Distance(f, mClaimed[q]) < l /\ mBuffer[mClaimed[q]] = NoValue
          /\ \A r \in Mpsc!Pending : mClaimed[r] = mClaimed[q] => r = q
      BY <3>1 DEF MInv, CellsInUse, f, l
    <3>3. Distance(f', mClaimed[q]) = Distance(f, mClaimed[q]) - 1
          /\ Distance(f, mClaimed[q]) \in Int
      BY <1>10, <3>1
    <3>4. Distance(f', mClaimed[q]) < l'
      BY <1>8, <3>2, <3>3
    <3>5. mBuffer'[mClaimed[q]] = NoValue
      BY <1>0, <1>1, <3>1, <3>2
    <3> QED BY <1>1, <1>2, <3>2, <3>4, <3>5
  <2> QED BY <2>1, <2>2, <2>3 DEF CellsInUse, f, l
<1>13. Arguments'
  BY <1>1, <1>2 DEF MInv, Arguments
<1> QED BY <1>2, <1>3, <1>8, <1>9, <1>11, <1>12, <1>13 DEF MInv, f, l

\* tail moves on to what is the consumer's place already.
LEMMA AdvanceStep ==
  ASSUME MInv, MpscTypeOK', Mpsc!Advance
  PROVE  /\ MInv' /\ Mpsc!Pending' = Mpsc!Pending /\ Mpsc!Length' = Mpsc!Length
         /\ Mpsc!First' = Mpsc!First
<1>1. /\ mConsPc = "advance" /\ mConsPc' = "giveBack"
      /\ mTail' = (IF mTail + 1 >= MpscMax THEN 0 ELSE mTail + 1)
      /\ UNCHANGED <<mCount, mHead, mBuffer, mProdPc, mClaimed, mObj>>
  BY DEF Mpsc!Advance
<1>2. Mpsc!Pending' = Mpsc!Pending /\ Claiming' = Claiming /\ BackingOff' = BackingOff
  BY <1>1 DEF Mpsc!Pending, Claiming, BackingOff
<1>3. Taking' = Taking
  BY <1>1 DEF Taking
<1>4. Mpsc!First' = Mpsc!First
  <2>1. mTail \in 0..(MpscMax - 1)
    BY DEF MInv, MpscTypeOK, Mpsc!Cells
  <2>2. PICK x \in 0..(2 * MpscMax - 1) : x = mTail + 1
    BY <2>1, MpscSizes
  <2>3. x % MpscMax = IF x < MpscMax THEN x ELSE x - MpscMax
    BY MpscSizes, Around
  <2>4. mTail' = x % MpscMax
    BY <1>1, <2>1, <2>2, <2>3, MpscSizes
  <2> QED BY <1>1, <2>2, <2>4 DEF Mpsc!First
<1>5. CellsInUse' /\ Mpsc!Length' = Mpsc!Length
  BY <1>1, <1>2, <1>4, CellsKept
<1>6. Arguments'
  BY <1>1, <1>2 DEF MInv, Arguments
<1>7. Room'
  BY <1>1, <1>2, <1>3, <1>5 DEF MInv, Room
<1> QED BY <1>2, <1>4, <1>5, <1>6, <1>7 DEF MInv

\* The room of the cell the consumer has left is given back.
LEMMA GiveBackStep ==
  ASSUME MInv, MpscTypeOK', Mpsc!GiveBack
  PROVE  /\ MInv' /\ Mpsc!Pending' = Mpsc!Pending /\ Mpsc!Length' = Mpsc!Length
         /\ Mpsc!First' = Mpsc!First
<1>1. /\ mConsPc = "giveBack" /\ mConsPc' = "idle" /\ mCount' = mCount - 1
      /\ UNCHANGED <<mHead, mTail, mBuffer, mProdPc, mClaimed, mObj>>
  BY DEF Mpsc!GiveBack
<1>2. Mpsc!Pending' = Mpsc!Pending /\ Claiming' = Claiming /\ BackingOff' = BackingOff
  BY <1>1 DEF Mpsc!Pending, Claiming, BackingOff
<1>3. Taking = 1 /\ Taking' = 0
  BY <1>1 DEF Taking
<1>4. Mpsc!First' = Mpsc!First
  BY <1>1 DEF Mpsc!First
<1>5. CellsInUse' /\ Mpsc!Length' = Mpsc!Length
  BY <1>1, <1>2, <1>4, CellsKept
<1>6. Arguments'
  BY <1>1, <1>2 DEF MInv, Arguments
<1>7. Room'
  <2>1. /\ Cardinality(Claiming) \in Nat /\ Cardinality(BackingOff) \in Nat
        /\ Mpsc!Length \in Nat
    BY Numbers
  <2>2. /\ IsFiniteSet(Claiming) /\ IsFiniteSet(BackingOff) /\ IsFiniteSet(Mpsc!Pending)
        /\ Cardinality(Claiming) + Mpsc!Length + Taking <= MpscMax
        /\ mCount = Cardinality(Claiming) + Cardinality(BackingOff) + Mpsc!Length + Taking
    BY DEF MInv, Room
  <2>3. /\ Cardinality(Claiming') + Mpsc!Length' + Taking' <= MpscMax
        /\ mCount' = Cardinality(Claiming') + Cardinality(BackingOff') + Mpsc!Length' + Taking'
    BY <1>1, <1>2, <1>3, <1>5, <2>1, <2>2, MpscSizes
  <2> QED BY <1>2, <2>2, <2>3 DEF Room
<1> QED BY <1>2, <1>4, <1>5, <1>6, <1>7 DEF MInv

\* The invariant holds before any call.
LEMMA MInvInit == Mpsc!Init => MInv
<1> SUFFICES ASSUME Mpsc!Init PROVE MInv
  OBVIOUS
<1>1. /\ mCount = 0 /\ mHead = 0 /\ mTail = 0 /\ mConsPc = "idle"
      /\ mBuffer = [i \in Mpsc!Cells |-> NoValue]
      /\ mProdPc = [p \in MpscProducers |-> "idle"]
      /\ mClaimed = [p \in MpscProducers |-> 0]
      /\ mObj = [p \in MpscProducers |-> NoValue]
  BY DEF Mpsc!Init
<1>2. 0 \in Mpsc!Cells
  BY MpscSizes DEF Mpsc!Cells
<1>3. MpscTypeOK
  BY <1>1, <1>2 DEF MpscTypeOK
<1>4. Claiming = {} /\ BackingOff = {} /\ Mpsc!Pending = {} /\ Stored = {}
  BY <1>1 DEF Claiming, BackingOff, Mpsc!Pending, Stored
<1>5. Cardinality({}) = 0 /\ IsFiniteSet({})
  BY FS_EmptySet
<1>6. Mpsc!Length = 0 /\ Taking = 0 /\ Mpsc!First = 0
  BY <1>1, <1>4, <1>5, Lengths DEF Taking, Mpsc!First
<1>7. Room
  BY <1>1, <1>4, <1>5, <1>6, MpscSizes DEF Room
<1>8. CellsInUse
  <2>1. Distance(0, 0) = 0
    BY <1>2, Distances
  <2> QED BY <1>1, <1>4, <1>6, <2>1 DEF CellsInUse
<1>9. Arguments
  BY <1>4 DEF Arguments
<1> QED BY <1>3, <1>7, <1>8, <1>9 DEF MInv

\* The invariant is kept by every step.
LEMMA MInvStep == MInv /\ [Mpsc!Next]_(Mpsc!vars) => MInv'
<1> SUFFICES ASSUME MInv, [Mpsc!Next]_(Mpsc!vars) PROVE MInv'
  OBVIOUS
<1>1. CASE Mpsc!Next
  <2>1. MpscTypeOK'
    BY <1>1, MpscTypeStep
  <2> QED BY <1>1, <2>1, ReserveStep, BackOffStep, ClaimStep, AssertEmptyStep, StoreStep, TakeStep,
             AdvanceStep, GiveBackStep DEF Mpsc!Next
<1>2. CASE UNCHANGED Mpsc!vars
  <2>1. UNCHANGED <<mCount, mHead, mTail, mBuffer, mProdPc, mClaimed, mObj, mConsPc>>
    BY <1>2 DEF Mpsc!vars
  <2>2. /\ Mpsc!Pending' = Mpsc!Pending /\ Claiming' = Claiming /\ BackingOff' = BackingOff
        /\ Mpsc!First' = Mpsc!First /\ Taking' = Taking
    BY <2>1 DEF Mpsc!Pending, Claiming, BackingOff, Mpsc!First, Taking
  <2>3. CellsInUse' /\ Mpsc!Length' = Mpsc!Length
    BY <2>1, <2>2, CellsKept
  <2>4. MpscTypeOK' /\ Room' /\ Arguments'
    BY <2>1, <2>2, <2>3 DEF MInv, MpscTypeOK, Room, Arguments
  <2> QED BY <2>3, <2>4 DEF MInv
<1> QED BY <1>1, <1>2

\* The invariant always holds.
LEMMA MpscInvariant == Mpsc!Spec => []MInv
  BY MInvInit, MInvStep, PTL DEF Mpsc!Spec

\* What holds of the queue holds of it in MCSharedAccess.
LEMMA QueueInside == SharedAccessSpec => Mpsc!Spec
<1>1. SharedAccessInit => Mpsc!Init
  BY DEF SharedAccessInit
<1> QED BY <1>1, MpscSteps, PTL DEF SharedAccessSpec, Mpsc!Spec

\* None of the asserts of mpsc.c fails, whatever the number of producers and the
\* capacity: a producer that has reserved room finds the cell at head empty, and
\* the consumer never gives back room nobody reserved.
THEOREM MpscAssertsNeverFail == Mpsc!Spec => []MpscAssertsHold
<1>1. MInv => MpscAssertsHold
  <2> SUFFICES ASSUME MInv PROVE MpscAssertsHold
    OBVIOUS
  <2>1. \A p \in Mpsc!Pending : mBuffer[mClaimed[p]] = NoValue
    BY DEF MInv, CellsInUse
  <2>2. mConsPc = "giveBack" => mCount > 0
    BY Numbers DEF MInv, Room, Taking
  <2> QED BY <2>1, <2>2 DEF MpscAssertsHold, Mpsc!AssertsHold
<1> QED BY <1>1, MpscInvariant, PTL

-----------------------------------------------------------------------------
(* The queue as a bounded FIFO *)

\* The cell of item i of a queue whose first item is in cell f
Place(f, i) == (f + i - 1) % MpscMax

Items == [i \in 1..Mpsc!Length |-> Mpsc!ValueAt(Place(Mpsc!First, i))]

\* Item i is i - 1 cells from the first.
LEMMA Places ==
  ASSUME NEW f \in Mpsc!Cells, NEW i \in 1..MpscMax
  PROVE  Place(f, i) \in Mpsc!Cells /\ Distance(f, Place(f, i)) = i - 1
<1>1. f \in 0..(MpscMax - 1)
  BY DEF Mpsc!Cells
<1>2. PICK x \in 0..(2 * MpscMax - 1) : x = f + i - 1
  BY <1>1, MpscSizes
<1>3. PICK c \in 0..(MpscMax - 1) : c = x % MpscMax
  BY Around DEF Mpsc!Cells
<1>4. c = IF x < MpscMax THEN x ELSE x - MpscMax
  BY <1>3, Around
<1>5. Distance(f, c) = i - 1
  BY <1>1, <1>2, <1>4, MpscSizes DEF Distance
<1> QED BY <1>2, <1>3, <1>5 DEF Place, Mpsc!Cells

\* The places of a queue without its first item
LEMMA PlaceOfNext ==
  ASSUME NEW f \in Mpsc!Cells, NEW i \in 1..(MpscMax - 1)
  PROVE  Place((f + 1) % MpscMax, i) = Place(f, i + 1)
<1>1. f \in Int /\ MpscMax \in Nat \ {0} /\ f + 1 \in Int /\ i - 1 \in Int /\ i \in Int
  BY MpscSizes DEF Mpsc!Cells
<1>2. (((f + 1) % MpscMax) + (i - 1)) % MpscMax = ((f + 1) + (i - 1)) % MpscMax
  BY <1>1, Reduced
<1>3. PICK g \in 0..(MpscMax - 1) : g = (f + 1) % MpscMax
  BY <1>1, Division
<1>4. g + i - 1 = g + (i - 1) /\ (f + 1) + (i - 1) = f + (i + 1) - 1
  BY <1>1, <1>3
<1> QED BY <1>2, <1>3, <1>4 DEF Place

\* What item i is, while its cell is claimed and when it holds a pointer
LEMMA ValueInCell ==
  ASSUME MInv, NEW c \in Mpsc!Cells
  PROVE  /\ Mpsc!ValueAt(c) \in Values \cup {NoValue}
         /\ \A p \in Mpsc!Pending : mClaimed[p] = c => Mpsc!ValueAt(c) = mObj[p]
         /\ (\A p \in Mpsc!Pending : mClaimed[p] # c) => Mpsc!ValueAt(c) = mBuffer[c]
<1> DEFINE late == {p \in Mpsc!Pending : mClaimed[p] = c}
<1>1. Mpsc!ValueAt(c) = IF late # {} THEN mObj[CHOOSE p \in late : TRUE] ELSE mBuffer[c]
  BY DEF Mpsc!ValueAt
<1>2. mBuffer[c] \in Values \cup {NoValue}
  BY DEF MInv, MpscTypeOK
<1>3. \A p \in Mpsc!Pending : mObj[p] \in Values \cup {NoValue}
  BY DEF MInv, Arguments
<1>4. ASSUME NEW p \in Mpsc!Pending, mClaimed[p] = c PROVE Mpsc!ValueAt(c) = mObj[p]
  <2>1. \A q \in Mpsc!Pending : mClaimed[q] = c => q = p
    BY <1>4 DEF MInv, CellsInUse
  <2>2. late = {p}
    BY <1>4, <2>1
  <2>3. (CHOOSE q \in late : TRUE) = p
    BY <2>2
  <2> QED BY <1>1, <2>2, <2>3
<1>5. ASSUME \A p \in Mpsc!Pending : mClaimed[p] # c PROVE Mpsc!ValueAt(c) = mBuffer[c]
  <2>1. late = {}
    BY <1>5
  <2> QED BY <1>1, <2>1
<1>6. Mpsc!ValueAt(c) \in Values \cup {NoValue}
  BY <1>2, <1>3, <1>4, <1>5
<1> QED BY <1>4, <1>5, <1>6

\* Items are where the consumer will look for them.
LEMMA ItemsType ==
  ASSUME MInv
  PROVE  /\ Mpsc!Length \in 0..MpscMax
         /\ Items \in [1..Mpsc!Length -> Values \cup {NoValue}]
<1>1. Mpsc!Length \in 0..MpscMax
  <2>1. /\ Cardinality(Claiming) \in Nat /\ Mpsc!Length \in Nat /\ Taking \in {0, 1}
    BY Numbers
  <2>2. Cardinality(Claiming) + Mpsc!Length + Taking <= MpscMax
    BY DEF MInv, Room
  <2> QED BY <2>1, <2>2, MpscSizes
<1>2. ASSUME NEW i \in 1..Mpsc!Length
      PROVE  Mpsc!ValueAt(Place(Mpsc!First, i)) \in Values \cup {NoValue}
  <2>1. i \in 1..MpscMax /\ Mpsc!First \in Mpsc!Cells
    BY <1>1, MpscSizes, Numbers
  <2> QED BY <2>1, Places, ValueInCell
<1> QED BY <1>1, <1>2 DEF Items

\* A step that leaves the cells in use alone, and what is in them, leaves the
\* queue alone.
LEMMA ItemsKept ==
  ASSUME MInv, Mpsc!Length' = Mpsc!Length, Mpsc!First' = Mpsc!First,
         \A c \in Mpsc!Cells : Mpsc!ValueAt(c)' = Mpsc!ValueAt(c)
  PROVE  Items' = Items
<1>1. ASSUME NEW i \in 1..Mpsc!Length
      PROVE  Mpsc!ValueAt(Place(Mpsc!First, i))' = Mpsc!ValueAt(Place(Mpsc!First, i))
  <2>1. i \in 1..MpscMax /\ Mpsc!First \in Mpsc!Cells
    BY ItemsType, MpscSizes, Numbers
  <2>2. PICK c \in Mpsc!Cells : c = Place(Mpsc!First, i)
    BY <2>1, Places
  <2>3. Place(Mpsc!First, i)' = c
    BY <2>2 DEF Place
  <2>4. Mpsc!ValueAt(c)' = Mpsc!ValueAt(c)
    OBVIOUS
  <2> QED BY <2>2, <2>3, <2>4 DEF Mpsc!ValueAt
<1> QED BY <1>1 DEF Items
\* The producers that have claimed cell c
Late(c) == {p \in Mpsc!Pending : mClaimed[p] = c}

\* A cell whose producer, argument and content stay stands for the same pointer.
LEMMA SameValue ==
  ASSUME NEW c, Late(c)' = Late(c), mBuffer'[c] = mBuffer[c],
         \A p \in Late(c) : mObj'[p] = mObj[p]
  PROVE  Mpsc!ValueAt(c)' = Mpsc!ValueAt(c)
<1>1. CASE Late(c) = {}
  BY <1>1 DEF Late, Mpsc!ValueAt
<1>2. CASE Late(c) # {}
  <2>1. (CHOOSE p \in Late(c) : TRUE) \in Late(c)
    BY <1>2
  <2>2. mObj'[CHOOSE p \in Late(c) : TRUE] = mObj[CHOOSE p \in Late(c) : TRUE]
    BY <2>1
  <2> QED BY <1>2, <2>2 DEF Late, Mpsc!ValueAt
<1> QED BY <1>1, <1>2

\* The queue starts empty.
LEMMA FifoInit == Mpsc!Init => Mpsc!Fifo!Init
<1> SUFFICES ASSUME Mpsc!Init PROVE Mpsc!Fifo!Init
  OBVIOUS
<1>1. MInv
  BY MInvInit
<1>2. Mpsc!Pending = {} /\ Stored = {}
  BY DEF Mpsc!Init, Mpsc!Pending, Stored
<1>3. Mpsc!Length = 0
  BY <1>2, Lengths, FS_EmptySet
<1>4. Items = << >>
  BY <1>3 DEF Items
<1> QED BY <1>4 DEF Mpsc!Fifo!Init, Items, Place, Mpsc!Init

\* A step that changes neither the items nor what the consumer has taken
LEMMA FifoStutters ==
  ASSUME Items' = Items, mRet' = mRet
  PROVE  UNCHANGED Mpsc!Fifo!vars
  BY DEF Mpsc!Fifo!vars, Items, Place

\* The steps that change nothing in the cells or in who has claimed them
LEMMA FifoKept ==
  ASSUME MInv, Mpsc!Length' = Mpsc!Length, Mpsc!First' = Mpsc!First,
         Mpsc!Pending' = Mpsc!Pending, mBuffer' = mBuffer, mClaimed' = mClaimed,
         \A p \in Mpsc!Pending : mObj'[p] = mObj[p]
  PROVE  Items' = Items
<1>1. ASSUME NEW c \in Mpsc!Cells PROVE Mpsc!ValueAt(c)' = Mpsc!ValueAt(c)
  <2>1. Late(c)' = Late(c)
    BY DEF Late
  <2>2. \A p \in Late(c) : mObj'[p] = mObj[p]
    BY DEF Late
  <2> QED BY <2>1, <2>2, SameValue
<1> QED BY <1>1, ItemsKept

\* To store is to keep the pointer where it was claimed to be.
LEMMA FifoStore ==
  ASSUME MInv, MpscTypeOK', NEW p \in MpscProducers, Mpsc!Store(p)
  PROVE  Items' = Items
<1>1. /\ mClaimed' = mClaimed /\ mObj' = mObj
      /\ mBuffer \in [Mpsc!Cells -> Values \cup {NoValue}]
  BY DEF Mpsc!Store, MInv, MpscTypeOK
<1>2. /\ Mpsc!Length' = Mpsc!Length /\ Mpsc!First' = Mpsc!First
      /\ p \in Mpsc!Pending /\ Mpsc!Pending' = Mpsc!Pending \ {p}
      /\ mBuffer' = [mBuffer EXCEPT ![mClaimed[p]] = mObj[p]]
  BY StoreStep
<1>3. ASSUME NEW c \in Mpsc!Cells PROVE Mpsc!ValueAt(c)' = Mpsc!ValueAt(c)
  <2>1. CASE mClaimed[p] = c
    <3>1. Late(c)' = {}
      <4>1. \A q \in Mpsc!Pending : mClaimed[q] = mClaimed[p] => q = p
        BY <1>2 DEF MInv, CellsInUse
      <4> QED BY <1>1, <1>2, <2>1, <4>1 DEF Late
    <3>2. Mpsc!ValueAt(c)' = mBuffer'[c]
      BY <3>1 DEF Late, Mpsc!ValueAt
    <3>3. Mpsc!ValueAt(c) = mObj[p]
      BY <1>2, <2>1, ValueInCell
    <3> QED BY <1>1, <1>2, <2>1, <3>2, <3>3
  <2>2. CASE mClaimed[p] # c
    <3>1. Late(c)' = Late(c)
      BY <1>1, <1>2, <2>2 DEF Late
    <3>2. mBuffer'[c] = mBuffer[c]
      BY <1>1, <1>2, <2>2
    <3> QED BY <1>1, <3>1, <3>2, SameValue
  <2> QED BY <2>1, <2>2
<1> QED BY <1>2, <1>3, ItemsKept

\* To claim a cell is to enqueue.
LEMMA FifoClaim ==
  ASSUME MInv, MpscTypeOK', NEW p \in MpscProducers, Mpsc!Claim(p)
  PROVE  mObj[p] \in Values /\ Mpsc!Fifo!Enqueue(mObj[p])
<1> DEFINE f == Mpsc!First
           l == Mpsc!Length
<1>0. /\ mObj' = mObj /\ mRet' = mRet
      /\ mClaimed \in [MpscProducers -> Mpsc!Cells] /\ mHead \in Mpsc!Cells
  BY DEF Mpsc!Claim, MInv, MpscTypeOK
<1>1. /\ Mpsc!Pending' = Mpsc!Pending \cup {p} /\ p \notin Mpsc!Pending
      /\ l' = l + 1 /\ l < MpscMax /\ Distance(f, mHead) = l
      /\ f' = f /\ mBuffer' = mBuffer /\ p \in Claiming
      /\ mClaimed' = [mClaimed EXCEPT ![p] = mHead]
  BY ClaimStep
<1>2. mObj[p] \in Values
  BY <1>1 DEF MInv, Arguments
<1>3. l \in 0..(MpscMax - 1) /\ f \in Mpsc!Cells
  BY <1>1, ItemsType, Numbers, MpscSizes
<1>4. ASSUME NEW c \in Mpsc!Cells, c # mHead PROVE Mpsc!ValueAt(c)' = Mpsc!ValueAt(c)
  <2>1. \A q \in Mpsc!Pending : mClaimed'[q] = mClaimed[q]
    BY <1>0, <1>1 DEF Mpsc!Pending
  <2>2. mClaimed'[p] = mHead
    BY <1>0, <1>1
  <2>3. Late(c)' = Late(c)
    BY <1>1, <1>4, <2>1, <2>2 DEF Late
  <2> QED BY <1>0, <1>1, <2>3, SameValue
<1>5. PICK h \in Mpsc!Cells : h = mHead
  BY <1>0
<1>6. Mpsc!ValueAt(h)' = mObj[p]
  <2>1. ASSUME NEW q \in Mpsc!Pending PROVE mClaimed'[q] = mClaimed[q] /\ mClaimed[q] # h
    <3>1. Distance(f, mClaimed[q]) < l
      BY DEF MInv, CellsInUse
    <3> HIDE DEF f, l
    <3>2. q \in MpscProducers /\ q # p
      BY <1>1 DEF Mpsc!Pending
    <3> QED BY <1>0, <1>1, <1>3, <1>5, <3>1, <3>2
  <2>2. mClaimed'[p] = h
    BY <1>0, <1>1, <1>5
  <2>3. Late(h)' = {p}
    BY <1>1, <2>1, <2>2 DEF Late
  <2>4. Mpsc!ValueAt(h)' = mObj'[CHOOSE q \in {p} : TRUE]
    BY <2>3 DEF Late, Mpsc!ValueAt
  <2> QED BY <1>0, <2>4
<1> HIDE DEF f, l
<1>7. ASSUME NEW i \in 1..(l + 1)
       PROVE  Mpsc!ValueAt(Place(f, i))' = IF i = l + 1 THEN mObj[p] ELSE Mpsc!ValueAt(Place(f, i))
  <2>1. i \in 1..MpscMax
    BY <1>3, MpscSizes
  <2>2. PICK c \in Mpsc!Cells : c = Place(f, i) /\ Distance(f, c) = i - 1
    BY <1>3, <2>1, Places
  <2>3. Mpsc!ValueAt(Place(f, i))' = Mpsc!ValueAt(c)'
    <3>1. Place(f, i)' = c
      BY <1>1, <2>2 DEF Place, f
    <3> QED BY <3>1 DEF Mpsc!ValueAt
  <2>4. CASE i = l + 1
    <3>1. Distance(f, h) = Distance(f, c)
      BY <1>1, <1>3, <1>5, <2>2, <2>4 DEF f, l
    <3>2. h = c
      BY <1>3, <3>1, Distances
    <3> QED BY <1>6, <2>3, <2>4, <3>2
  <2>5. CASE i # l + 1
    <3>1. Distance(f, c) # l
      BY <1>3, <2>2, <2>5
    <3>2. c # mHead
      BY <1>1, <3>1 DEF f, l
    <3> QED BY <1>4, <2>2, <2>3, <2>5, <3>2
  <2> QED BY <2>4, <2>5
<1>8. Items' = [i \in 1..(l + 1) |-> IF i = l + 1 THEN mObj[p] ELSE Items[i]]
  <2>1. Items' = [i \in 1..(l + 1) |-> Mpsc!ValueAt(Place(f, i))']
    BY <1>1 DEF Items, f, l
  <2>2. ASSUME NEW i \in 1..(l + 1), i # l + 1 PROVE Items[i] = Mpsc!ValueAt(Place(f, i))
    <3>1. i \in 1..l
      BY <1>3, <2>2
    <3> QED BY <3>1 DEF Items, f, l
  <2> QED BY <1>7, <2>1, <2>2
<1>9. Items' = Append(Items, mObj[p])
  BY <1>2, <1>3, <1>8, ItemsType, Appended DEF l
<1>10. Len(Items) < MpscMax
  BY <1>1, ItemsType, Length DEF l
<1> QED BY <1>0, <1>2, <1>9, <1>10 DEF Mpsc!Fifo!Enqueue, Items, Place

\* To empty the first cell in use is to dequeue.
LEMMA FifoTake ==
  ASSUME MInv, MpscTypeOK', Mpsc!Take
  PROVE  Mpsc!Fifo!Dequeue("consumer")
<1> DEFINE f == Mpsc!First
           l == Mpsc!Length
<1>0. /\ mClaimed' = mClaimed /\ mObj' = mObj /\ mRet' = mBuffer[mTail]
      /\ mBuffer' = [mBuffer EXCEPT ![mTail] = NoValue] /\ mTail \in Mpsc!Cells
      /\ mBuffer \in [Mpsc!Cells -> Values \cup {NoValue}]
  BY DEF Mpsc!Take, MInv, MpscTypeOK
<1>1. /\ l \in Nat \ {0} /\ l' = l - 1 /\ f = mTail /\ f' = (f + 1) % MpscMax
      /\ Mpsc!Pending' = Mpsc!Pending
      /\ \A q \in Mpsc!Pending : mClaimed[q] # mTail
  BY TakeStep
<1>2. l \in 1..MpscMax /\ f \in Mpsc!Cells
  BY <1>1, ItemsType, Numbers, MpscSizes
<1>3. Items \in [1..l -> Values \cup {NoValue}]
  BY ItemsType
<1>4. ASSUME NEW c \in Mpsc!Cells, c # mTail PROVE Mpsc!ValueAt(c)' = Mpsc!ValueAt(c)
  <2>1. Late(c)' = Late(c)
    BY <1>0, <1>1 DEF Late
  <2>2. mBuffer'[c] = mBuffer[c]
    BY <1>0, <1>4
  <2> QED BY <1>0, <2>1, <2>2, SameValue
<1> HIDE DEF f, l
<1>5. Items[1] = mBuffer[mTail]
  <2>1. Place(f, 1) = mTail
    <3>1. Distance(f, Place(f, 1)) = 0 /\ Place(f, 1) \in Mpsc!Cells /\ Distance(f, f) = 0
      BY <1>2, MpscSizes, Places, Distances
    <3> QED BY <1>1, <1>2, <3>1, Distances
  <2>2. Mpsc!ValueAt(mTail) = mBuffer[mTail]
    BY <1>0, <1>1, ValueInCell
  <2>3. 1 \in 1..l
    BY <1>2
  <2> QED BY <2>1, <2>2, <2>3 DEF Items, f, l
<1>6. ASSUME NEW i \in 1..(l - 1)
      PROVE  Mpsc!ValueAt(Place(f, i))' = Items[i + 1]
  <2>1. i \in 1..(MpscMax - 1) /\ i + 1 \in 1..MpscMax /\ i + 1 \in 1..l /\ i + 1 - 1 # 0
    BY <1>2, MpscSizes
  <2>2. PICK c \in Mpsc!Cells : c = Place(f, i + 1) /\ Distance(f, c) = i + 1 - 1
    BY <1>2, <2>1, Places
  <2>3. c # mTail
    BY <1>1, <1>2, <2>1, <2>2, Distances
  <2>4. Mpsc!ValueAt(Place(f, i))' = Mpsc!ValueAt(c)'
    <3>1. Place(f, i)' = Place((f + 1) % MpscMax, i)
      BY <1>1 DEF Place
    <3>2. Place(f, i)' = c
      BY <1>2, <2>1, <2>2, <3>1, PlaceOfNext
    <3> QED BY <3>2 DEF Mpsc!ValueAt
  <2>5. Items[i + 1] = Mpsc!ValueAt(c)
    BY <2>1, <2>2 DEF Items, f, l
  <2> QED BY <1>4, <2>3, <2>4, <2>5
<1>7. Items' = [i \in 1..(l - 1) |-> Items[i + 1]]
  <2>1. Items' = [i \in 1..(l - 1) |-> Mpsc!ValueAt(Place(f, i))']
    BY <1>1 DEF Items, f, l
  <2> QED BY <1>6, <2>1
<1>8. Items # << >> /\ Head(Items) = mRet' /\ Items' = Tail(Items)
  <2>1. l \in Nat \ {0}
    BY <1>1 DEF l
  <2>2. Items # << >> /\ Head(Items) = Items[1] /\ Tail(Items) = [i \in 1..(l - 1) |-> Items[i + 1]]
    <3> DEFINE g == Items
               S == Values \cup {NoValue}
    <3>1. g \in [1..l -> S] /\ l \in Nat \ {0}
      BY <1>3, <2>1
    <3> HIDE DEF g, S
    <3>2. Tail(g) = [i \in 1..(l - 1) |-> g[i + 1]]
      BY ZenonT(60), <3>1, HeadRemoved
    <3>3. Head(g) = g[1] /\ g # << >>
      BY <3>1, HeadRemoved
    <3> QED BY <3>2, <3>3 DEF g
  <2> QED BY <1>0, <1>5, <1>7, <2>2
<1> QED BY <1>8 DEF Mpsc!Fifo!Dequeue, Items, Place

\* Every step of the queue is a step of the bounded FIFO or changes nothing in it.
LEMMA FifoStep == MInv /\ [Mpsc!Next]_(Mpsc!vars) => [Mpsc!Fifo!Next]_(Mpsc!Fifo!vars)
<1> SUFFICES ASSUME MInv, [Mpsc!Next]_(Mpsc!vars) PROVE [Mpsc!Fifo!Next]_(Mpsc!Fifo!vars)
  OBVIOUS
<1>0. MInv' /\ MpscTypeOK'
  BY MInvStep DEF MInv
<1>1. ASSUME NEW p \in MpscProducers, NEW v \in Values, Mpsc!Reserve(p, v)
      PROVE  UNCHANGED Mpsc!Fifo!vars
  <2>1. /\ mProdPc[p] = "idle" /\ UNCHANGED <<mTail, mConsPc, mBuffer, mClaimed, mRet>>
        /\ mObj' = [mObj EXCEPT ![p] = v] /\ mObj \in [MpscProducers -> Values \cup {NoValue}]
    BY <1>1 DEF Mpsc!Reserve, Mpsc!Goto, MInv, MpscTypeOK
  <2>2. Mpsc!Length' = Mpsc!Length /\ Mpsc!Pending' = Mpsc!Pending
    BY <1>0, <1>1, ReserveStep
  <2>3. Mpsc!First' = Mpsc!First
    BY <2>1 DEF Mpsc!First
  <2>4. \A q \in Mpsc!Pending : mObj'[q] = mObj[q]
    BY <2>1 DEF Mpsc!Pending
  <2> QED BY <2>1, <2>2, <2>3, <2>4, FifoKept, FifoStutters
<1>2. ASSUME NEW p \in MpscProducers, Mpsc!BackOff(p) PROVE UNCHANGED Mpsc!Fifo!vars
  <2>1. UNCHANGED <<mTail, mConsPc, mBuffer, mClaimed, mObj, mRet>>
    BY <1>2 DEF Mpsc!BackOff
  <2>2. Mpsc!Length' = Mpsc!Length /\ Mpsc!Pending' = Mpsc!Pending
    BY <1>0, <1>2, BackOffStep
  <2>3. Mpsc!First' = Mpsc!First
    BY <2>1 DEF Mpsc!First
  <2> QED BY <2>1, <2>2, <2>3, FifoKept, FifoStutters
<1>3. ASSUME NEW p \in MpscProducers, Mpsc!Claim(p) PROVE Mpsc!Fifo!Next
  BY <1>0, <1>3, FifoClaim DEF Mpsc!Fifo!Next
<1>4. ASSUME NEW p \in MpscProducers, Mpsc!AssertEmpty(p) PROVE UNCHANGED Mpsc!Fifo!vars
  <2>1. /\ Mpsc!Length' = Mpsc!Length /\ Mpsc!First' = Mpsc!First
        /\ Mpsc!Pending' = Mpsc!Pending
    BY <1>0, <1>4, AssertEmptyStep
  <2>2. UNCHANGED <<mBuffer, mClaimed, mObj, mRet>>
    BY <1>4 DEF Mpsc!AssertEmpty
  <2> QED BY <2>1, <2>2, FifoKept, FifoStutters
<1>5. ASSUME NEW p \in MpscProducers, Mpsc!Store(p) PROVE UNCHANGED Mpsc!Fifo!vars
  <2>1. mRet' = mRet
    BY <1>5 DEF Mpsc!Store
  <2> QED BY <1>0, <1>5, <2>1, FifoStore, FifoStutters
<1>6. CASE Mpsc!Take
  <2>1. Mpsc!Fifo!Dequeue("consumer")
    BY <1>0, <1>6, FifoTake
  <2> QED BY <2>1 DEF Mpsc!Fifo!Next
<1>7. CASE Mpsc!Advance
  <2>1. /\ Mpsc!Length' = Mpsc!Length /\ Mpsc!First' = Mpsc!First
        /\ Mpsc!Pending' = Mpsc!Pending
    BY <1>0, <1>7, AdvanceStep
  <2>2. UNCHANGED <<mBuffer, mClaimed, mObj, mRet>>
    BY <1>7 DEF Mpsc!Advance
  <2> QED BY <2>1, <2>2, FifoKept, FifoStutters
<1>8. CASE Mpsc!GiveBack
  <2>1. /\ Mpsc!Length' = Mpsc!Length /\ Mpsc!First' = Mpsc!First
        /\ Mpsc!Pending' = Mpsc!Pending
    BY <1>0, <1>8, GiveBackStep
  <2>2. UNCHANGED <<mBuffer, mClaimed, mObj, mRet>>
    BY <1>8 DEF Mpsc!GiveBack
  <2> QED BY <2>1, <2>2, FifoKept, FifoStutters
<1>9. CASE UNCHANGED Mpsc!vars
  BY <1>9 DEF Mpsc!vars, Mpsc!Fifo!vars, Mpsc!Length, Mpsc!First, Mpsc!ValueAt, Mpsc!Pending
<1> QED BY <1>1, <1>2, <1>3, <1>4, <1>5, <1>6, <1>7, <1>8, <1>9 DEF Mpsc!Next

\* The queue is a bounded FIFO of max pointers, whatever the number of producers:
\* an enqueue takes effect when it advances head, a dequeue when it empties its
\* cell.
THEOREM MpscIsFifo == Mpsc!Spec => MpscImplementsFifo
<1>1. Mpsc!Spec => []MInv
  BY MpscInvariant
<1> QED BY <1>1, FifoInit, FifoStep, PTL
        DEF Mpsc!Spec, MpscImplementsFifo, Mpsc!ImplementsFifo, Mpsc!Fifo!Spec

-----------------------------------------------------------------------------
(* The cache with a pair of slabs per thread                               *)
(*                                                                         *)
(* Slabs that the pool, the consumer slabs and the threads hold differ, so *)
(* an entry that counts belongs to one of them, and what moves a slab      *)
(* moves no buffer.  The invariant says that every buffer is in exactly    *)
(* one entry that counts, in one thread's hand or out once: so a thread    *)
(* with a full slab and one more buffer in its hand leaves too few buffers *)
(* to fill every slab of the pool.                                         *)

\* The slab thread t fills, and how many of its buffers count
CurrentSlab(t) == IF pc[t] \in {"first", "adopt"} THEN slabEmpty[t] ELSE slabProd[OwnHalf[t]]
Filled(t) == IF pc[t] \in {"first", "adopt", "restart"} THEN 0 ELSE nProd[OwnHalf[t]]

\* The buffer in entry c
Content(c) == buffers[c[1]][c[2]]

\* The entries that hold a buffer: of a full slab in the pool, not yet taken from
\* a consumer slab, or counted in a producer slab
PoolCell(c) == \E i \in 0..(nSlabsAvailable - 1) : c[1] = slabs[i]
ConsCell(c) == \E h \in Cache!Halves : c[1] = slabCons[h] /\ c[2] < nCons[h]
ProdCell(c) == \E t \in CacheThreads : c[1] = CurrentSlab(t) /\ c[2] < Filled(t)
Live == {c \in Cache!Addresses : PoolCell(c) \/ ConsCell(c) \/ ProdCell(c)}

\* The threads that are giving a buffer back have it in hand.
InHand == {t \in CacheThreads : pc[t] # "idle"}

\* The slabs of the pool, the consumer slabs and those the threads fill differ.
SlabsApart ==
  /\ \A i, j \in 0..(PoolSlots - 1) : slabs[i] = slabs[j] => i = j
  /\ \A h, k \in Cache!Halves : slabCons[h] = slabCons[k] => h = k
  /\ \A t, u \in CacheThreads : CurrentSlab(t) = CurrentSlab(u) => t = u
  /\ \A i \in 0..(PoolSlots - 1), h \in Cache!Halves : slabs[i] # slabCons[h]
  /\ \A i \in 0..(PoolSlots - 1), t \in CacheThreads : slabs[i] # CurrentSlab(t)
  /\ \A h \in Cache!Halves, t \in CacheThreads : slabCons[h] # CurrentSlab(t)

\* How far thread t has got in bcache_prod
ProgressOf(t) ==
  LET h == OwnHalf[t]
  IN  /\ pc[t] \in {"store", "count"} => n[t] = nProd[h] /\ n[t] < SlabSize
      /\ pc[t] = "trade" => nProd[h] = SlabSize
      /\ pc[t] = "count" => buffers[slabProd[h]][n[t]] = buffer[t]
      /\ pc[t] = "adopt" => buffers[slabEmpty[t]][0] = buffer[t]
      /\ pc[t] = "restart" => buffers[slabProd[h]][0] = buffer[t]
Progress == \A t \in CacheThreads : ProgressOf(t)

\* A buffer is in one place, and only those that go round are anywhere.
Exclusive ==
  /\ \A c \in Live : Content(c) \in Cache!Circulating
  /\ \A c, d \in Live : Content(c) = Content(d) => c = d
  /\ \A t \in InHand : buffer[t] \in Cache!Circulating /\ \A c \in Live : Content(c) # buffer[t]
  /\ \A t, u \in InHand : buffer[t] = buffer[u] => t = u
  /\ \A h \in Cache!Halves, b \in Cache!Addresses :
       out[h][b] # 0 =>
         /\ out[h][b] = 1 /\ b \in Cache!Circulating
         /\ \A c \in Live : Content(c) # b
         /\ \A t \in InHand : buffer[t] # b
         /\ \A k \in Cache!Halves : out[k][b] # 0 => k = h

\* Every buffer that goes round is somewhere.
Complete ==
  \A b \in Cache!Circulating :
    \/ \E c \in Live : Content(c) = b
    \/ \E t \in InHand : buffer[t] = b
    \/ \E h \in Cache!Halves : out[h][b] # 0

\* The invariant of the cache
CInv ==
  /\ CacheTypeOK /\ nSlabsAvailable \in 0..PoolSlots
  /\ SlabsApart /\ Progress /\ Exclusive /\ Complete

-----------------------------------------------------------------------------
\* What is assumed of the slabs and the two threads of a port
LEMMA CacheSizes ==
  /\ PoolSlots \in Nat \ {0} /\ SlabSize \in Nat \ {0}
  /\ Cache!Halves = {0, 1} /\ Cache!NSlabs = PoolSlots + 4
  /\ \A t \in CacheThreads : OwnHalf[t] \in Cache!Halves
  /\ \A t, u \in CacheThreads : OwnHalf[t] = OwnHalf[u] => t = u
  /\ \A h \in Cache!Halves : \E t \in CacheThreads : h = OwnHalf[t]
<1>1. PICK tx \in CacheThreads : tx # rx /\ CacheThreads = {rx, tx}
  BY SharedAccessAssumption DEF CacheParameters
<1>2. OwnHalf[rx] = 0 /\ OwnHalf[tx] = 1 /\ Cache!Halves = {OwnHalf[t] : t \in CacheThreads}
  BY <1>1 DEF OwnHalf, Cache!Halves
<1>3. Cache!Halves = {0, 1}
  BY <1>1, <1>2
<1>4. Cardinality({0, 1}) = 2
  <2>1. Cardinality({0}) = 1 /\ IsFiniteSet({0})
    BY FS_Singleton
  <2>2. Cardinality({0} \cup {1}) = Cardinality({0}) + 1
    BY <2>1, FS_AddElement
  <2>3. {0} \cup {1} = {0, 1}
    OBVIOUS
  <2> QED BY <2>1, <2>2, <2>3
<1>5. Cache!Cardinality({0, 1}) = 2
  BY <1>4 DEF Cache!Cardinality, Cardinality
<1>6. PoolSlots \in Nat \ {0} /\ SlabSize \in Nat \ {0}
  BY SharedAccessAssumption DEF CacheParameters, Cache!RaceParameters
<1>7. Cache!NSlabs = PoolSlots + 4
  BY <1>3, <1>5, <1>6 DEF Cache!NSlabs
<1> QED BY <1>1, <1>2, <1>3, <1>6, <1>7

\* The slabs, and the buffers that go round
LEMMA CacheSets ==
  /\ Cache!SlabIds = 0..(PoolSlots + 3) /\ Cache!Entries = 0..(SlabSize - 1)
  /\ Cache!Addresses = Cache!SlabIds \X Cache!Entries
  /\ Cache!Circulating = ((0..(PoolSlots - 1)) \cup {PoolSlots + 1}) \X Cache!Entries
<1>1. /\ Cache!SlabIds = 0..(PoolSlots + 3) /\ Cache!Entries = 0..(SlabSize - 1)
      /\ Cache!Addresses = Cache!SlabIds \X Cache!Entries
  BY CacheSizes DEF Cache!SlabIds, Cache!Entries, Cache!Addresses
<1>2. Cache!ConsAtInit(1) = PoolSlots + 1
  BY CacheSizes DEF Cache!ConsAtInit
<1>3. Cache!Circulating = {b \in Cache!Addresses : b[1] < PoolSlots \/ b[1] = PoolSlots + 1}
  BY <1>2, CacheSizes DEF Cache!Circulating
<1> QED BY <1>1, <1>3, CacheSizes

\* Every slab and entry a thread works on exists.
LEMMA CacheTypeStep ==
  ASSUME CInv, Cache!Next, nSlabsAvailable' \in 0..PoolSlots
  PROVE  CacheTypeOK'
<1> DEFINE S == Cache!SlabIds
           E == Cache!Entries
           A == Cache!Addresses
           H == Cache!Halves
<1>0. /\ slabs \in [S -> S] /\ nSlabsAvailable \in 0..PoolSlots /\ buffers \in [S -> [E -> A]]
      /\ slabCons \in [H -> S] /\ slabProd \in [H -> S]
      /\ nCons \in [H -> 0..SlabSize] /\ nProd \in [H -> 0..SlabSize]
      /\ out \in [H -> [A -> Nat]] /\ buffer \in [CacheThreads -> A]
      /\ pc \in [CacheThreads -> {"idle", "store", "count", "trade", "first", "adopt", "restart"}]
      /\ n \in [CacheThreads -> 0..SlabSize] /\ slabEmpty \in [CacheThreads -> S]
  BY DEF CInv, CacheTypeOK, Cache!TypeOK
<1>1. \A t \in CacheThreads : OwnHalf[t] \in H
  BY CacheSizes
<1>2. nSlabsAvailable' \in 0..Cache!NSlabs
  BY CacheSizes
<1>3. \A i \in 0..PoolSlots : i \in S /\ slabs[i] \in S
  <2>1. \A i \in 0..PoolSlots : i \in S
    BY CacheSets, CacheSizes
  <2> HIDE DEF S
  <2> QED BY <1>0, <2>1
<1>5. SlabSize \in Nat \ {0} /\ 0 \in E
  BY CacheSets, CacheSizes
<1> HIDE DEF S, E, A, H
<1> SUFFICES
             /\ slabs' \in [S -> S] /\ buffers' \in [S -> [E -> A]]
             /\ slabCons' \in [H -> S] /\ slabProd' \in [H -> S]
             /\ nCons' \in [H -> 0..SlabSize] /\ nProd' \in [H -> 0..SlabSize]
             /\ out' \in [H -> [A -> Nat]] /\ buffer' \in [CacheThreads -> A]
             /\ pc' \in [CacheThreads -> {"idle", "store", "count", "trade", "first", "adopt", "restart"}]
             /\ n' \in [CacheThreads -> 0..SlabSize] /\ slabEmpty' \in [CacheThreads -> S]
  BY <1>2 DEF CacheTypeOK, Cache!TypeOK, S, E, A, H
<1>6. PICK t \in CacheThreads :
       \/ Cache!ConsCheckTrade(t) \/ Cache!Cons(t) \/ \E b \in A : Cache!Call(t, b)
       \/ Cache!Store(t) \/ Cache!Count(t)
       \/ Cache!Trade(t) \/ Cache!StoreFirst(t) \/ Cache!Adopt(t) \/ Cache!Restart(t)
  BY DEF Cache!Next, A
<1>7. CASE Cache!ConsCheckTrade(t)
  <2>1. nSlabsAvailable - 1 \in 0..PoolSlots
    BY <1>0, <1>7 DEF Cache!ConsCheckTrade, Cache!consumer
  <2> QED BY <1>0, <1>1, <1>3, <1>5, <1>7, <2>1 DEF Cache!ConsCheckTrade, Cache!Goto, Cache!consumer
<1>8. CASE Cache!Cons(t)
  <2> DEFINE h == OwnHalf[t]
             a == buffers[slabCons[h]][nCons[h] - 1]
  <2>1. nCons[h] \in 1..SlabSize /\ nCons' = [nCons EXCEPT ![h] = nCons[h] - 1]
    BY <1>0, <1>1, <1>8 DEF Cache!Cons
  <2>2. nCons[h] - 1 \in E /\ nCons[h] - 1 \in 0..SlabSize
    BY <1>5, <2>1, CacheSets DEF E
  <2>3. a \in A
    BY <1>0, <1>1, <2>2
  <2>4. out' = [out EXCEPT ![h][a] = out[h][a] + 1]
    BY <1>8 DEF Cache!Cons
  <2> HIDE DEF a
  <2>5. out' \in [H -> [A -> Nat]]
    BY <1>0, <1>1, <2>3, <2>4
  <2>6. nCons' \in [H -> 0..SlabSize]
    BY <1>0, <1>1, <2>1, <2>2
  <2>7. /\ pc' = [pc EXCEPT ![t] = "idle"]
        /\ UNCHANGED <<slabs, buffers, slabCons, slabProd, nProd, buffer, n, slabEmpty>>
    BY <1>8 DEF Cache!Cons, Cache!Goto
  <2>8. pc' \in [CacheThreads ->
                 {"idle", "store", "count", "trade", "first", "adopt", "restart"}]
    BY <1>0, <2>7
  <2> QED BY <1>0, <2>5, <2>6, <2>7, <2>8
<1>9. CASE \E b \in A : Cache!Call(t, b)
  <2>1. PICK b \in A : Cache!Call(t, b)
    BY <1>9
  <2>2. out' = [out EXCEPT ![OwnHalf[t]][b] = out[OwnHalf[t]][b] - 1] /\ out[OwnHalf[t]][b] > 0
    BY <2>1 DEF Cache!Call
  <2>3. out' \in [H -> [A -> Nat]]
    BY <1>0, <1>1, <2>2
  <2> QED BY <1>0, <1>1, <2>1, <2>3 DEF Cache!Call, Cache!Goto, Cache!consumer
<1>10. CASE Cache!Store(t)
  <2>1. n[t] \in E
    BY <1>0, <1>10, CacheSets, CacheSizes DEF Cache!Store, Cache!Goto, CInv, Progress, ProgressOf, E
  <2>2. buffers' \in [S -> [E -> A]]
    BY <1>0, <1>1, <1>10, <2>1 DEF Cache!Store
  <2> QED BY <1>0, <1>10, <2>2 DEF Cache!Store, Cache!Goto, Cache!consumer
<1>11. CASE Cache!Count(t)
  <2>1. n[t] + 1 \in 0..SlabSize
    BY <1>0, <1>5, <1>11 DEF Cache!Count, Cache!Goto, CInv, Progress, ProgressOf
  <2> QED BY <1>0, <1>1, <1>11, <2>1 DEF Cache!Count, Cache!Goto, Cache!consumer
<1>12. CASE Cache!Trade(t)
  BY <1>0, <1>1, <1>3, <1>12 DEF Cache!Trade, Cache!Goto, Cache!consumer
<1>13. CASE Cache!StoreFirst(t)
  BY <1>0, <1>5, <1>13 DEF Cache!StoreFirst, Cache!Goto, Cache!consumer
<1>14. CASE Cache!Adopt(t)
  BY <1>0, <1>1, <1>14 DEF Cache!Adopt, Cache!Goto, Cache!consumer
<1>15. CASE Cache!Restart(t)
  BY <1>0, <1>1, <1>5, <1>15 DEF Cache!Restart, Cache!Goto, Cache!consumer
<1> QED BY <1>6, <1>7, <1>8, <1>9, <1>10, <1>11, <1>12, <1>13, <1>14, <1>15

\* The types that the proofs below use
LEMMA CacheTypes ==
  ASSUME CInv
  PROVE  /\ slabs \in [Cache!SlabIds -> Cache!SlabIds] /\ nSlabsAvailable \in 0..PoolSlots
         /\ buffers \in [Cache!SlabIds -> [Cache!Entries -> Cache!Addresses]]
         /\ slabCons \in [Cache!Halves -> Cache!SlabIds]
         /\ slabProd \in [Cache!Halves -> Cache!SlabIds]
         /\ nCons \in [Cache!Halves -> 0..SlabSize] /\ nProd \in [Cache!Halves -> 0..SlabSize]
         /\ out \in [Cache!Halves -> [Cache!Addresses -> Nat]]
         /\ buffer \in [CacheThreads -> Cache!Addresses]
         /\ pc \in [CacheThreads ->
                     {"idle", "store", "count", "trade", "first", "adopt", "restart"}]
         /\ n \in [CacheThreads -> 0..SlabSize] /\ slabEmpty \in [CacheThreads -> Cache!SlabIds]
  BY DEF CInv, CacheTypeOK, Cache!TypeOK

\* The slab a thread fills is a slab, and holds no more than a slab.
LEMMA CurrentTypes ==
  ASSUME CInv, NEW t \in CacheThreads
  PROVE  CurrentSlab(t) \in Cache!SlabIds /\ Filled(t) \in 0..SlabSize
<1>1. OwnHalf[t] \in Cache!Halves /\ 0 \in 0..SlabSize
  BY CacheSizes
<1> QED BY <1>1, CacheTypes DEF CurrentSlab, Filled

\* An entry is its slab and its place in the slab.
LEMMA SameCell ==
  ASSUME NEW c \in Cache!Addresses, NEW d \in Cache!Addresses, c[1] = d[1], c[2] = d[2]
  PROVE  c = d
  BY DEF Cache!Addresses

\* A thread that is about to trade a full slab finds a slab that is not full: were
\* all the pool's slabs full, the buffers in them, in its own slab and in its hand
\* would be more than there are.
LEMMA RoomToTrade ==
  ASSUME CInv, NEW t \in CacheThreads, pc[t] = "trade"
  PROVE  nSlabsAvailable < PoolSlots
<1> SUFFICES ASSUME ~ (nSlabsAvailable < PoolSlots) PROVE FALSE
  OBVIOUS
<1> DEFINE X == ((0..(PoolSlots - 1)) \cup {PoolSlots + 1}) \X Cache!Entries
           Slab(i) == IF i = PoolSlots + 1 THEN CurrentSlab(t) ELSE slabs[i]
           Cell(x) == <<Slab(x[1]), x[2]>>
           f == [x \in X |-> Content(Cell(x))]
<1>1. nSlabsAvailable = PoolSlots /\ PoolSlots \in Nat \ {0}
  <2>1. PoolSlots \in Nat \ {0} /\ nSlabsAvailable \in 0..PoolSlots
    BY CacheSizes DEF CInv
  <2> QED BY <2>1
<1>2. t \in InHand /\ buffer[t] \in X
  BY CacheSets DEF InHand, CInv, Exclusive
<1>3. Filled(t) = SlabSize
  BY DEF Filled, CInv, Progress, ProgressOf
<1>4. ASSUME NEW x \in X PROVE Cell(x) \in Live
  <2>1. x[2] \in Cache!Entries /\ x[2] < SlabSize
    BY CacheSets, CacheSizes
  <2>2. CASE x[1] = PoolSlots + 1
    <3>1. Cell(x) \in Cache!Addresses
      BY <2>1, <2>2, CacheSets, CurrentTypes
    <3> QED BY <1>3, <2>1, <2>2, <3>1 DEF Live, ProdCell
  <2>3. CASE x[1] # PoolSlots + 1
    <3>1. x[1] \in 0..(nSlabsAvailable - 1) /\ x[1] \in Cache!SlabIds
      BY <1>1, <2>3, CacheSets
    <3>2. Cell(x) \in Cache!Addresses
      BY <2>1, <2>3, <3>1, CacheSets, CacheTypes
    <3> QED BY <2>3, <3>1, <3>2 DEF Live, PoolCell
  <2> QED BY <2>2, <2>3
<1>5. ASSUME NEW x \in X, NEW y \in X, Cell(x) = Cell(y) PROVE x = y
  <2>1. Slab(x[1]) = Slab(y[1]) /\ x[2] = y[2]
    BY <1>5
  <2>2. x[1] = y[1]
    <3>1. /\ \A i, j \in 0..(PoolSlots - 1) : slabs[i] = slabs[j] => i = j
          /\ \A i \in 0..(PoolSlots - 1) : slabs[i] # CurrentSlab(t)
      BY DEF CInv, SlabsApart
    <3>2. x[1] \in (0..(PoolSlots - 1)) \cup {PoolSlots + 1}
          /\ y[1] \in (0..(PoolSlots - 1)) \cup {PoolSlots + 1}
      OBVIOUS
    <3> QED BY <2>1, <3>1, <3>2
  <2> QED BY <2>1, <2>2
<1> HIDE DEF Cell
<1>6. f \in [X -> X \ {buffer[t]}]
  <2>1. ASSUME NEW x \in X PROVE Content(Cell(x)) \in X \ {buffer[t]}
    BY <1>2, <1>4, CacheSets DEF CInv, Exclusive
  <2> QED BY <2>1
<1>7. \A x, y \in X : f[x] = f[y] => x = y
  BY <1>4, <1>5 DEF CInv, Exclusive
<1>8. IsFiniteSet(X)
  <2>1. IsFiniteSet(0..(PoolSlots - 1)) /\ IsFiniteSet(Cache!Entries)
    BY CacheSizes, CacheSets, FS_Interval
  <2>2. IsFiniteSet((0..(PoolSlots - 1)) \cup {PoolSlots + 1})
    BY <2>1, FS_AddElement
  <2> QED BY <2>1, <2>2, FS_Product
<1> HIDE DEF X, f
<1>9. /\ IsFiniteSet(X \ {buffer[t]}) /\ Cardinality(X) \in Nat
      /\ Cardinality(X \ {buffer[t]}) = Cardinality(X) - 1
  BY <1>2, <1>8, FS_RemoveElement, FS_CardinalityType
<1>10. Cardinality(X \ {buffer[t]}) < Cardinality(X)
  BY <1>9
<1>11. \E x, y \in X : x # y /\ f[x] = f[y]
  BY <1>6, <1>8, <1>9, <1>10, FS_PigeonHole
<1> QED BY <1>7, <1>11

\* Steps that move no buffer
LEMMA HeldKept ==
  ASSUME CInv, Live' = Live, InHand' = InHand, out' = out,
         \A c \in Live : Content(c)' = Content(c),
         \A t \in InHand : buffer'[t] = buffer[t]
  PROVE  Exclusive' /\ Complete'
<1>1. Exclusive'
  BY DEF CInv, Exclusive
<1>2. Complete'
  BY DEF CInv, Complete
<1> QED BY <1>1, <1>2

\* A buffer that a thread had in its hand counts as stored.
LEMMA HandToCell ==
  ASSUME CInv, NEW t \in InHand, NEW c \in Cache!Addresses, Content(c) = buffer[t],
         Live' = Live \cup {c}, InHand' = InHand \ {t},
         buffers' = buffers, buffer' = buffer, out' = out
  PROVE  Exclusive' /\ Complete'
<1>1. \A d : Content(d)' = Content(d)
  BY DEF Content
<1>2. t \in CacheThreads
  BY DEF InHand
<1>3. Exclusive'
  <2> USE DEF CInv, Exclusive
  <2>1. \A d \in Live' : Content(d)' \in Cache!Circulating
    BY <1>1
  <2>2. \A d, e \in Live' : Content(d)' = Content(e)' => d = e
    BY <1>1
  <2>3. \A u \in InHand' : buffer'[u] \in Cache!Circulating /\ \A d \in Live' : Content(d)' # buffer'[u]
    BY <1>1
  <2>4. \A u, v \in InHand' : buffer'[u] = buffer'[v] => u = v
    OBVIOUS
  <2>5. ASSUME NEW h \in Cache!Halves, NEW b \in Cache!Addresses, out'[h][b] # 0
        PROVE  /\ out'[h][b] = 1 /\ b \in Cache!Circulating
               /\ \A d \in Live' : Content(d)' # b
               /\ \A u \in InHand' : buffer'[u] # b
               /\ \A k \in Cache!Halves : out'[k][b] # 0 => k = h
    BY <1>1, <2>5
  <2> QED BY <2>1, <2>2, <2>3, <2>4, <2>5 DEF Exclusive
<1>4. Complete'
  <2> SUFFICES ASSUME NEW b \in Cache!Circulating
               PROVE  \/ \E d \in Live' : Content(d)' = b
                      \/ \E u \in InHand' : buffer'[u] = b
                      \/ \E h \in Cache!Halves : out'[h][b] # 0
    BY DEF Complete
  <2>1. \/ \E d \in Live : Content(d) = b
        \/ \E u \in InHand : buffer[u] = b
        \/ \E h \in Cache!Halves : out[h][b] # 0
    BY DEF CInv, Complete
  <2> QED BY <1>1, <2>1
<1> QED BY <1>3, <1>4

\* What a step of thread t that changes neither the half nor the place of any other
\* thread leaves of the others.
LEMMA OtherThreads ==
  ASSUME CInv, NEW t \in CacheThreads, NEW u \in CacheThreads, u # t,
         pc'[u] = pc[u], slabEmpty'[u] = slabEmpty[u],
         \A h \in Cache!Halves \ {OwnHalf[t]} : slabProd'[h] = slabProd[h] /\ nProd'[h] = nProd[h]
  PROVE  CurrentSlab(u)' = CurrentSlab(u) /\ Filled(u)' = Filled(u)
<1>1. OwnHalf[u] \in Cache!Halves \ {OwnHalf[t]}
  BY CacheSizes
<1> QED BY <1>1 DEF CurrentSlab, Filled

\* bcache_cons_check trades an empty slab for a full one.
LEMMA ConsTradeStep ==
  ASSUME CInv, NEW t \in CacheThreads, Cache!ConsCheckTrade(t)
  PROVE  /\ nSlabsAvailable' \in 0..PoolSlots
         /\ SlabsApart' /\ Progress' /\ Exclusive' /\ Complete'
<1> DEFINE h == OwnHalf[t]
           k == nSlabsAvailable - 1
<1>1. /\ nCons[h] = 0 /\ nSlabsAvailable > 0 /\ pc[t] = "idle" /\ pc' = [pc EXCEPT ![t] = "idle"]
      /\ slabs' = [slabs EXCEPT ![k] = slabCons[h]] /\ nSlabsAvailable' = k
      /\ slabCons' = [slabCons EXCEPT ![h] = slabs[k]]
      /\ nCons' = [nCons EXCEPT ![h] = SlabSize]
      /\ UNCHANGED <<buffers, slabProd, nProd, out, buffer, n, slabEmpty>>
  BY DEF Cache!ConsCheckTrade, Cache!Goto
<1>2. pc' = pc
  BY <1>1, CacheTypes
<1>3. k \in 0..(PoolSlots - 1) /\ nSlabsAvailable' \in 0..PoolSlots
  <2>1. PoolSlots \in Nat /\ nSlabsAvailable \in 0..PoolSlots
    BY CacheSizes DEF CInv
  <2> QED BY <1>1, <2>1
<1>4. h \in Cache!Halves /\ \A i \in 0..(PoolSlots - 1) : i \in Cache!SlabIds
  BY CacheSets, CacheSizes
<1>5. /\ slabs'[k] = slabCons[h] /\ \A i \in 0..(PoolSlots - 1) : i # k => slabs'[i] = slabs[i]
      /\ slabCons'[h] = slabs[k] /\ \A g \in Cache!Halves : g # h => slabCons'[g] = slabCons[g]
      /\ nCons'[h] = SlabSize /\ \A g \in Cache!Halves : g # h => nCons'[g] = nCons[g]
  BY <1>1, <1>3, <1>4, CacheTypes
<1>6. \A u \in CacheThreads : CurrentSlab(u)' = CurrentSlab(u) /\ Filled(u)' = Filled(u)
  BY <1>1, <1>2 DEF CurrentSlab, Filled
<1> HIDE DEF k, h
<1>7. SlabsApart'
  BY <1>3, <1>4, <1>5, <1>6 DEF CInv, SlabsApart
<1>8. Progress'
  BY <1>1, <1>2 DEF CInv, Progress, ProgressOf
<1>9. Live' = Live
  <2>1. ASSUME NEW c \in Cache!Addresses
        PROVE  PoolCell(c)' \/ ConsCell(c)' \/ ProdCell(c)' <=> PoolCell(c) \/ ConsCell(c) \/ ProdCell(c)
    <3>1. c[2] < SlabSize /\ ~ (c[2] < 0)
      BY CacheSets, CacheSizes
    <3>2. PoolCell(c) <=> c[1] = slabs[k] \/ PoolCell(c)'
      <4>1. \A i \in Int : i \in 0..(nSlabsAvailable - 1) <=> i = k \/ i \in 0..(nSlabsAvailable' - 1)
        BY <1>1, <1>3, CacheSizes DEF k
      <4>2. \A i \in 0..(nSlabsAvailable' - 1) : i \in 0..(PoolSlots - 1) /\ i # k
        BY <1>1, <1>3, CacheSizes DEF k
      <4>3. PoolCell(c)' <=> \E i \in 0..(nSlabsAvailable' - 1) : c[1] = slabs[i]
        BY <1>5, <4>2 DEF PoolCell
      <4>4. k \in 0..(nSlabsAvailable - 1)
        BY <1>3, CacheSizes DEF k
      <4>5. \A i \in 0..(nSlabsAvailable - 1) : i = k \/ i \in 0..(nSlabsAvailable' - 1)
        BY <4>1
      <4>6. \A i \in 0..(nSlabsAvailable' - 1) : i \in 0..(nSlabsAvailable - 1)
        BY <4>1
      <4> QED BY <4>3, <4>4, <4>5, <4>6 DEF PoolCell
    <3>3. ConsCell(c)' <=> c[1] = slabs[k] \/ ConsCell(c)
      BY <1>1, <1>4, <1>5, <3>1 DEF ConsCell, h
    <3>4. ProdCell(c)' <=> ProdCell(c)
      BY <1>6 DEF ProdCell
    <3> QED BY <3>2, <3>3, <3>4
  <2> QED BY <2>1 DEF Live
<1>10. InHand' = InHand
  BY <1>2 DEF InHand
<1>11. \A c \in Live : Content(c)' = Content(c)
  BY <1>1 DEF Content
<1> QED BY <1>1, <1>3, <1>7, <1>8, <1>9, <1>10, <1>11, HeldKept

\* The entries of the slab a thread fills: those counted hold a buffer.
LEMMA CellOfThread ==
  ASSUME CInv, NEW t \in CacheThreads, NEW c \in Cache!Addresses, c[1] = CurrentSlab(t)
  PROVE  c \in Live <=> c[2] < Filled(t)
<1>1. ~ PoolCell(c)
  <2>1. \A i \in 0..(nSlabsAvailable - 1) : i \in 0..(PoolSlots - 1)
    <3>1. nSlabsAvailable \in 0..PoolSlots /\ PoolSlots \in Nat
      BY CacheSizes DEF CInv
    <3> QED BY <3>1
  <2> QED BY <2>1 DEF PoolCell, CInv, SlabsApart
<1>2. ~ ConsCell(c)
  BY DEF ConsCell, CInv, SlabsApart
<1>3. ProdCell(c) <=> c[2] < Filled(t)
  BY DEF ProdCell, CInv, SlabsApart
<1> QED BY <1>1, <1>2, <1>3 DEF Live

\* A buffer written behind the counted ones overwrites none of those that count,
\* nor what another thread has written.
LEMMA Written ==
  ASSUME CInv, NEW t \in CacheThreads, NEW e \in Cache!Entries, e = Filled(t),
         buffers' = [buffers EXCEPT ![CurrentSlab(t)][e] = buffer[t]]
  PROVE  /\ \A c \in Live : Content(c)' = Content(c)
         /\ \A u \in CacheThreads \ {t} : \A i \in Cache!Entries :
              buffers'[CurrentSlab(u)][i] = buffers[CurrentSlab(u)][i]
         /\ buffers'[CurrentSlab(t)][e] = buffer[t]
<1>1. /\ buffers \in [Cache!SlabIds -> [Cache!Entries -> Cache!Addresses]]
      /\ \A u \in CacheThreads : CurrentSlab(u) \in Cache!SlabIds
  BY CacheTypes, CurrentTypes
<1>2. ASSUME NEW c \in Live PROVE Content(c)' = Content(c)
  <2>1. c \in Cache!Addresses /\ c[1] \in Cache!SlabIds /\ c[2] \in Cache!Entries
    BY CacheSets DEF Live
  <2>2. ~ (c[1] = CurrentSlab(t) /\ c[2] = e)
    <3>1. e \in Int
      BY CacheSets
    <3> QED BY <2>1, <3>1, CellOfThread
  <2> QED BY <1>1, <2>1, <2>2 DEF Content
<1>3. ASSUME NEW u \in CacheThreads \ {t}, NEW i \in Cache!Entries
      PROVE  buffers'[CurrentSlab(u)][i] = buffers[CurrentSlab(u)][i]
  <2>1. CurrentSlab(u) # CurrentSlab(t)
    BY DEF CInv, SlabsApart
  <2> QED BY <1>1, <2>1
<1>4. buffers'[CurrentSlab(t)][e] = buffer[t]
  BY <1>1
<1> QED BY <1>2, <1>3, <1>4

\* A step that leaves all slabs where they are and what is counted of them
LEMMA SlabsKept ==
  ASSUME CInv, UNCHANGED <<slabs, nSlabsAvailable, slabCons, nCons>>,
         \A u \in CacheThreads : CurrentSlab(u)' = CurrentSlab(u) /\ Filled(u)' = Filled(u)
  PROVE  nSlabsAvailable' \in 0..PoolSlots /\ SlabsApart' /\ Live' = Live
<1>1. SlabsApart'
  BY DEF CInv, SlabsApart
<1>2. \A c : PoolCell(c)' = PoolCell(c) /\ ConsCell(c)' = ConsCell(c)
  BY DEF PoolCell, ConsCell
<1>3. \A c : ProdCell(c)' <=> ProdCell(c)
  BY DEF ProdCell
<1>4. Live' = Live
  BY <1>2, <1>3 DEF Live
<1> QED BY <1>1, <1>4 DEF CInv

\* What thread u has done so far stands while another thread works on its own half.
LEMMA OtherProgress ==
  ASSUME CInv, NEW t \in CacheThreads, NEW u \in CacheThreads, u # t,
         pc'[u] = pc[u], n'[u] = n[u], buffer'[u] = buffer[u], slabEmpty'[u] = slabEmpty[u],
         \A h \in Cache!Halves \ {OwnHalf[t]} : slabProd'[h] = slabProd[h] /\ nProd'[h] = nProd[h],
         \A i \in Cache!Entries : buffers'[CurrentSlab(u)][i] = buffers[CurrentSlab(u)][i]
  PROVE  ProgressOf(u)'
<1>1. OwnHalf[u] \in Cache!Halves \ {OwnHalf[t]}
  BY CacheSizes
<1>2. 0 \in Cache!Entries /\ (pc[u] = "count" => n[u] \in Cache!Entries)
  <2>1. n[u] \in 0..SlabSize /\ SlabSize \in Nat \ {0}
    BY CacheTypes, CacheSizes
  <2> QED BY <2>1, CacheSets DEF CInv, Progress, ProgressOf
<1> QED BY <1>1, <1>2 DEF CInv, Progress, ProgressOf, CurrentSlab

\* slab_prod[n_buffers_prod] = buffer
LEMMA CacheStoreStep ==
  ASSUME CInv, NEW t \in CacheThreads, Cache!Store(t)
  PROVE  /\ nSlabsAvailable' \in 0..PoolSlots
         /\ SlabsApart' /\ Progress' /\ Exclusive' /\ Complete'
<1>1. /\ pc[t] = "store" /\ pc' = [pc EXCEPT ![t] = "count"]
      /\ buffers' = [buffers EXCEPT ![slabProd[OwnHalf[t]]][n[t]] = buffer[t]]
      /\ UNCHANGED <<slabs, nSlabsAvailable, slabCons, nCons, slabProd, nProd, out, buffer, n,
                     slabEmpty>>
  BY DEF Cache!Store, Cache!Goto, Cache!consumer
<1>2. pc'[t] = "count" /\ \A u \in CacheThreads : u # t => pc'[u] = pc[u]
  BY <1>1, CacheTypes
<1>3. \A u \in CacheThreads : CurrentSlab(u)' = CurrentSlab(u) /\ Filled(u)' = Filled(u)
  BY <1>1, <1>2 DEF CurrentSlab, Filled
<1>4. CurrentSlab(t) = slabProd[OwnHalf[t]] /\ n[t] = Filled(t) /\ n[t] < SlabSize
  BY <1>1 DEF CurrentSlab, Filled, CInv, Progress, ProgressOf
<1>5. n[t] \in Cache!Entries
  <2>1. n[t] \in 0..SlabSize /\ SlabSize \in Nat
    BY CacheTypes, CacheSizes
  <2> QED BY <1>4, <2>1, CacheSets
<1>6. /\ \A c \in Live : Content(c)' = Content(c)
      /\ \A u \in CacheThreads \ {t} : \A i \in Cache!Entries :
           buffers'[CurrentSlab(u)][i] = buffers[CurrentSlab(u)][i]
      /\ buffers'[CurrentSlab(t)][n[t]] = buffer[t]
  BY <1>1, <1>4, <1>5, Written
<1>7. Progress'
  <2> SUFFICES ASSUME NEW u \in CacheThreads PROVE ProgressOf(u)'
    BY DEF Progress
  <2>1. CASE u = t
    BY <1>1, <1>2, <1>4, <1>6, <2>1 DEF CInv, Progress, ProgressOf
  <2>2. CASE u # t
    BY <1>1, <1>2, <1>6, <2>2, OtherProgress
  <2> QED BY <2>1, <2>2
<1>8. InHand' = InHand
  BY <1>1, <1>2 DEF InHand
<1> QED BY <1>1, <1>3, <1>6, <1>7, <1>8, SlabsKept, HeldKept

\* slab_empty[0] = buffer
LEMMA CacheStoreFirstStep ==
  ASSUME CInv, NEW t \in CacheThreads, Cache!StoreFirst(t)
  PROVE  /\ nSlabsAvailable' \in 0..PoolSlots
         /\ SlabsApart' /\ Progress' /\ Exclusive' /\ Complete'
<1>1. /\ pc[t] = "first" /\ pc' = [pc EXCEPT ![t] = "adopt"]
      /\ buffers' = [buffers EXCEPT ![slabEmpty[t]][0] = buffer[t]]
      /\ UNCHANGED <<slabs, nSlabsAvailable, slabCons, nCons, slabProd, nProd, out, buffer, n,
                     slabEmpty>>
  BY DEF Cache!StoreFirst, Cache!Goto, Cache!consumer
<1>2. pc'[t] = "adopt" /\ \A u \in CacheThreads : u # t => pc'[u] = pc[u]
  BY <1>1, CacheTypes
<1>3. \A u \in CacheThreads : CurrentSlab(u)' = CurrentSlab(u) /\ Filled(u)' = Filled(u)
  BY <1>1, <1>2 DEF CurrentSlab, Filled
<1>4. CurrentSlab(t) = slabEmpty[t] /\ Filled(t) = 0 /\ 0 \in Cache!Entries
  BY <1>1, CacheSets, CacheSizes DEF CurrentSlab, Filled
<1>5. /\ \A c \in Live : Content(c)' = Content(c)
      /\ \A u \in CacheThreads \ {t} : \A i \in Cache!Entries :
           buffers'[CurrentSlab(u)][i] = buffers[CurrentSlab(u)][i]
      /\ buffers'[CurrentSlab(t)][0] = buffer[t]
  BY <1>1, <1>4, Written
<1>6. Progress'
  <2> SUFFICES ASSUME NEW u \in CacheThreads PROVE ProgressOf(u)'
    BY DEF Progress
  <2>1. CASE u = t
    BY <1>1, <1>2, <1>4, <1>5, <2>1 DEF ProgressOf
  <2>2. CASE u # t
    BY <1>1, <1>2, <1>5, <2>2, OtherProgress
  <2> QED BY <2>1, <2>2
<1>7. InHand' = InHand
  BY <1>1, <1>2 DEF InHand
<1> QED BY <1>1, <1>3, <1>5, <1>6, <1>7, SlabsKept, HeldKept

\* bc->n_buffers_prod = n_buffers_prod + 1, or = 1 for a new slab: the buffer behind
\* the counted ones counts.
LEMMA CountedStep ==
  ASSUME CInv, NEW t \in CacheThreads, pc[t] \in {"count", "restart"},
         pc' = [pc EXCEPT ![t] = "idle"], Filled(t) < SlabSize,
         nProd' = [nProd EXCEPT ![OwnHalf[t]] = Filled(t) + 1],
         buffers[CurrentSlab(t)][Filled(t)] = buffer[t],
         UNCHANGED <<slabs, nSlabsAvailable, buffers, slabCons, nCons, slabProd, out, buffer, n,
                     slabEmpty>>
  PROVE  /\ nSlabsAvailable' \in 0..PoolSlots
         /\ SlabsApart' /\ Progress' /\ Exclusive' /\ Complete'
<1>1. pc'[t] = "idle" /\ \A u \in CacheThreads : u # t => pc'[u] = pc[u]
  BY CacheTypes
<1>2. /\ OwnHalf[t] \in Cache!Halves /\ nProd'[OwnHalf[t]] = Filled(t) + 1
      /\ \A h \in Cache!Halves \ {OwnHalf[t]} : nProd'[h] = nProd[h]
  BY CacheSizes, CacheTypes
<1>3. CurrentSlab(t)' = CurrentSlab(t) /\ Filled(t)' = Filled(t) + 1
  BY <1>1, <1>2 DEF CurrentSlab, Filled
<1>4. \A u \in CacheThreads \ {t} : CurrentSlab(u)' = CurrentSlab(u) /\ Filled(u)' = Filled(u)
  BY <1>1, <1>2, OtherThreads
<1>5. SlabsApart'
  BY <1>3, <1>4 DEF CInv, SlabsApart
<1>6. Progress'
  <2> SUFFICES ASSUME NEW u \in CacheThreads PROVE ProgressOf(u)'
    BY DEF Progress
  <2>1. CASE u = t
    BY <1>1, <2>1 DEF ProgressOf
  <2>2. CASE u # t
    BY <1>1, <1>2, <2>2, OtherProgress
  <2> QED BY <2>1, <2>2
<1>7. PICK c \in Cache!Addresses : c = <<CurrentSlab(t), Filled(t)>>
  <2>1. Filled(t) \in Cache!Entries
    <3>1. Filled(t) \in 0..SlabSize /\ SlabSize \in Nat
      BY CurrentTypes, CacheSizes
    <3> QED BY <3>1, CacheSets
  <2> QED BY <2>1, CurrentTypes, CacheSets
<1>8. Content(c) = buffer[t]
  BY <1>7 DEF Content
<1>9. Live' = Live \cup {c}
  <2>1. ASSUME NEW d \in Cache!Addresses PROVE ProdCell(d)' <=> ProdCell(d) \/ d = c
    <3>1. d = c <=> d[1] = CurrentSlab(t) /\ d[2] = Filled(t)
      BY <1>7, SameCell
    <3>2. d[2] < Filled(t) + 1 <=> d[2] < Filled(t) \/ d[2] = Filled(t)
      <4>1. d[2] \in Int /\ Filled(t) \in Int
        BY CacheSets, CacheSizes, CurrentTypes
      <4> QED BY <4>1
    <3> QED BY <1>3, <1>4, <3>1, <3>2 DEF ProdCell
  <2>2. \A d : PoolCell(d)' = PoolCell(d) /\ ConsCell(d)' = ConsCell(d)
    BY DEF PoolCell, ConsCell
  <2> QED BY <2>1, <2>2 DEF Live
<1>10. t \in InHand /\ InHand' = InHand \ {t}
  BY <1>1 DEF InHand
<1>11. Exclusive' /\ Complete'
  BY <1>8, <1>9, <1>10, HandToCell
<1> QED BY <1>5, <1>6, <1>11 DEF CInv

\* bc->n_buffers_prod = n_buffers_prod + 1
LEMMA CacheCountStep ==
  ASSUME CInv, NEW t \in CacheThreads, Cache!Count(t)
  PROVE  /\ nSlabsAvailable' \in 0..PoolSlots
         /\ SlabsApart' /\ Progress' /\ Exclusive' /\ Complete'
<1>1. /\ pc[t] = "count" /\ pc' = [pc EXCEPT ![t] = "idle"]
      /\ nProd' = [nProd EXCEPT ![OwnHalf[t]] = n[t] + 1]
      /\ UNCHANGED <<slabs, nSlabsAvailable, buffers, slabCons, nCons, slabProd, out, buffer, n,
                     slabEmpty>>
  BY DEF Cache!Count, Cache!Goto, Cache!consumer
<1>2. /\ CurrentSlab(t) = slabProd[OwnHalf[t]] /\ Filled(t) = n[t] /\ n[t] < SlabSize
      /\ buffers[CurrentSlab(t)][n[t]] = buffer[t]
  BY <1>1 DEF CurrentSlab, Filled, CInv, Progress, ProgressOf
<1> QED BY <1>1, <1>2, CountedStep

\* bc->n_buffers_prod = 1
LEMMA CacheRestartStep ==
  ASSUME CInv, NEW t \in CacheThreads, Cache!Restart(t)
  PROVE  /\ nSlabsAvailable' \in 0..PoolSlots
         /\ SlabsApart' /\ Progress' /\ Exclusive' /\ Complete'
<1>1. /\ pc[t] = "restart" /\ pc' = [pc EXCEPT ![t] = "idle"]
      /\ nProd' = [nProd EXCEPT ![OwnHalf[t]] = 1]
      /\ UNCHANGED <<slabs, nSlabsAvailable, buffers, slabCons, nCons, slabProd, out, buffer, n,
                     slabEmpty>>
  BY DEF Cache!Restart, Cache!Goto, Cache!consumer
<1>2. /\ CurrentSlab(t) = slabProd[OwnHalf[t]] /\ Filled(t) = 0 /\ 0 < SlabSize
      /\ buffers[CurrentSlab(t)][0] = buffer[t] /\ 1 = 0 + 1
  BY <1>1, CacheSizes DEF CurrentSlab, Filled, CInv, Progress, ProgressOf
<1> QED BY <1>1, <1>2, CountedStep

\* bc->slab_prod = slab_empty
LEMMA CacheAdoptStep ==
  ASSUME CInv, NEW t \in CacheThreads, Cache!Adopt(t)
  PROVE  /\ nSlabsAvailable' \in 0..PoolSlots
         /\ SlabsApart' /\ Progress' /\ Exclusive' /\ Complete'
<1>1. /\ pc[t] = "adopt" /\ pc' = [pc EXCEPT ![t] = "restart"]
      /\ slabProd' = [slabProd EXCEPT ![OwnHalf[t]] = slabEmpty[t]]
      /\ UNCHANGED <<slabs, nSlabsAvailable, buffers, slabCons, nCons, nProd, out, buffer, n,
                     slabEmpty>>
  BY DEF Cache!Adopt, Cache!Goto, Cache!consumer
<1>2. /\ pc'[t] = "restart" /\ \A u \in CacheThreads : u # t => pc'[u] = pc[u]
      /\ slabProd'[OwnHalf[t]] = slabEmpty[t]
      /\ \A h \in Cache!Halves \ {OwnHalf[t]} : slabProd'[h] = slabProd[h]
  BY <1>1, CacheTypes, CacheSizes
<1>3. CurrentSlab(t)' = CurrentSlab(t) /\ Filled(t)' = Filled(t)
  BY <1>1, <1>2 DEF CurrentSlab, Filled
<1>4. \A u \in CacheThreads \ {t} : CurrentSlab(u)' = CurrentSlab(u) /\ Filled(u)' = Filled(u)
  BY <1>1, <1>2, OtherThreads
<1>5. Progress'
  <2> SUFFICES ASSUME NEW u \in CacheThreads PROVE ProgressOf(u)'
    BY DEF Progress
  <2>1. CASE u = t
    BY <1>1, <1>2, <2>1 DEF CInv, Progress, ProgressOf
  <2>2. CASE u # t
    BY <1>1, <1>2, <2>2, OtherProgress
  <2> QED BY <2>1, <2>2
<1>6. InHand' = InHand
  BY <1>1, <1>2 DEF InHand
<1>7. \A c \in Live : Content(c)' = Content(c)
  BY <1>1 DEF Content
<1> QED BY <1>1, <1>3, <1>4, <1>5, <1>6, <1>7, SlabsKept, HeldKept

\* The critical section: a full slab goes into the pool, and one that nobody works on
\* comes out.
LEMMA CacheTradeStep ==
  ASSUME CInv, NEW t \in CacheThreads, Cache!Trade(t)
  PROVE  /\ nSlabsAvailable' \in 0..PoolSlots
         /\ SlabsApart' /\ Progress' /\ Exclusive' /\ Complete'
<1> DEFINE k == nSlabsAvailable
           full == slabProd[OwnHalf[t]]
<1>1. /\ pc[t] = "trade" /\ pc' = [pc EXCEPT ![t] = "first"]
      /\ slabEmpty' = [slabEmpty EXCEPT ![t] = slabs[k]]
      /\ slabs' = [slabs EXCEPT ![k] = full] /\ nSlabsAvailable' = k + 1
      /\ UNCHANGED <<buffers, slabCons, nCons, slabProd, nProd, out, buffer, n>>
  BY DEF Cache!Trade, Cache!Goto, Cache!consumer
<1>2. k \in 0..(PoolSlots - 1) /\ nSlabsAvailable' \in 0..PoolSlots
  <2>1. PoolSlots \in Nat /\ nSlabsAvailable \in 0..PoolSlots
    BY CacheSizes DEF CInv
  <2>2. nSlabsAvailable < PoolSlots
    BY <1>1, RoomToTrade
  <2> QED BY <1>1, <2>1, <2>2
<1>3. \A i \in 0..(PoolSlots - 1) : i \in Cache!SlabIds
  BY CacheSets, CacheSizes
<1>4. /\ slabs'[k] = full /\ \A i \in 0..(PoolSlots - 1) : i # k => slabs'[i] = slabs[i]
      /\ slabEmpty'[t] = slabs[k] /\ \A u \in CacheThreads : u # t => slabEmpty'[u] = slabEmpty[u]
      /\ pc'[t] = "first" /\ \A u \in CacheThreads : u # t => pc'[u] = pc[u]
  BY <1>1, <1>2, <1>3, CacheTypes
<1>5. /\ CurrentSlab(t) = full /\ CurrentSlab(t)' = slabs[k]
      /\ Filled(t) = SlabSize /\ Filled(t)' = 0
  BY <1>1, <1>4 DEF CurrentSlab, Filled, CInv, Progress, ProgressOf
<1>6. \A u \in CacheThreads \ {t} : CurrentSlab(u)' = CurrentSlab(u) /\ Filled(u)' = Filled(u)
  BY <1>1, <1>4, OtherThreads
<1> HIDE DEF k, full
<1>7. SlabsApart'
  BY <1>1, <1>2, <1>4, <1>5, <1>6 DEF CInv, SlabsApart
<1>8. Progress'
  <2> SUFFICES ASSUME NEW u \in CacheThreads PROVE ProgressOf(u)'
    BY DEF Progress
  <2>1. CASE u = t
    BY <1>4, <2>1 DEF ProgressOf
  <2>2. CASE u # t
    BY <1>1, <1>4, <2>2, OtherProgress
  <2> QED BY <2>1, <2>2
<1>9. Live' = Live
  <2>1. ASSUME NEW c \in Cache!Addresses
        PROVE  PoolCell(c)' \/ ConsCell(c)' \/ ProdCell(c)' <=> PoolCell(c) \/ ConsCell(c) \/ ProdCell(c)
    <3>1. c[2] < SlabSize /\ ~ (c[2] < 0)
      BY CacheSets, CacheSizes
    <3>2. PoolCell(c)' <=> c[1] = full \/ PoolCell(c)
      <4>1. k \in 0..(nSlabsAvailable' - 1)
        BY <1>1, <1>2, CacheSizes DEF k
      <4>2. \A i \in 0..(nSlabsAvailable' - 1) : i = k \/ i \in 0..(nSlabsAvailable - 1)
        BY <1>1, <1>2, CacheSizes DEF k
      <4>3. \A i \in 0..(nSlabsAvailable - 1) :
               i \in 0..(nSlabsAvailable' - 1) /\ i \in 0..(PoolSlots - 1) /\ i # k
        BY <1>1, <1>2, CacheSizes DEF k
      <4> QED BY <1>4, <4>1, <4>2, <4>3 DEF PoolCell
    <3>3. ConsCell(c)' <=> ConsCell(c)
      BY <1>1 DEF ConsCell
    <3>4. ProdCell(c) <=> c[1] = full \/ ProdCell(c)'
      BY <1>5, <1>6, <3>1 DEF ProdCell
    <3> QED BY <3>2, <3>3, <3>4
  <2> QED BY <2>1 DEF Live
<1>10. InHand' = InHand
  BY <1>1, <1>4 DEF InHand
<1>11. \A c \in Live : Content(c)' = Content(c)
  BY <1>1 DEF Content
<1> QED BY <1>1, <1>2, <1>7, <1>8, <1>9, <1>10, <1>11, HeldKept

\* A packet's buffer is given back: it is out no more, and in the thread's hand.
LEMMA CacheCallStep ==
  ASSUME CInv, NEW t \in CacheThreads, NEW b \in Cache!Addresses, Cache!Call(t, b)
  PROVE  /\ nSlabsAvailable' \in 0..PoolSlots
         /\ SlabsApart' /\ Progress' /\ Exclusive' /\ Complete'
<1> DEFINE h == OwnHalf[t]
<1>1. /\ out[h][b] > 0 /\ pc[t] = "idle"
      /\ pc' = [pc EXCEPT ![t] = IF nProd[h] < SlabSize THEN "store" ELSE "trade"]
      /\ out' = [out EXCEPT ![h][b] = out[h][b] - 1]
      /\ buffer' = [buffer EXCEPT ![t] = b] /\ n' = [n EXCEPT ![t] = nProd[h]]
      /\ UNCHANGED <<slabs, nSlabsAvailable, buffers, slabCons, nCons, slabProd, nProd, slabEmpty>>
  BY DEF Cache!Call, Cache!Goto, Cache!consumer
<1>2. /\ pc'[t] = IF nProd[h] < SlabSize THEN "store" ELSE "trade"
      /\ \A u \in CacheThreads : u # t => pc'[u] = pc[u] /\ buffer'[u] = buffer[u] /\ n'[u] = n[u]
      /\ buffer'[t] = b /\ n'[t] = nProd[h]
  BY <1>1, CacheTypes
<1>3. \A u \in CacheThreads : CurrentSlab(u)' = CurrentSlab(u) /\ Filled(u)' = Filled(u)
  BY <1>1, <1>2 DEF CurrentSlab, Filled
<1>4. Progress'
  <2> SUFFICES ASSUME NEW u \in CacheThreads PROVE ProgressOf(u)'
    BY DEF Progress
  <2>1. CASE u = t
    <3>1. nProd[h] \in 0..SlabSize /\ SlabSize \in Nat
      BY CacheTypes, CacheSizes
    <3>2. ~ (nProd[h] < SlabSize) => nProd[h] = SlabSize
      BY <3>1
    <3> QED BY <1>1, <1>2, <2>1, <3>2 DEF ProgressOf
  <2>2. CASE u # t
    BY <1>1, <1>2, <2>2, OtherProgress
  <2> QED BY <2>1, <2>2
<1>5. t \notin InHand /\ InHand' = InHand \cup {t}
  BY <1>1, <1>2 DEF InHand
<1>6. Live' = Live /\ nSlabsAvailable' \in 0..PoolSlots /\ SlabsApart'
  BY <1>1, <1>3, SlabsKept
<1>7. \A c : Content(c)' = Content(c)
  BY <1>1 DEF Content
<1>8. /\ h \in Cache!Halves /\ out'[h][b] = 0
      /\ out[h][b] = 1 /\ b \in Cache!Circulating
      /\ \A c \in Live : Content(c) # b
      /\ \A u \in InHand : buffer[u] # b
      /\ \A g \in Cache!Halves : out[g][b] # 0 => g = h
  <2>1. h \in Cache!Halves /\ out[h][b] # 0
    BY <1>1, CacheSizes
  <2>2. out[h][b] = 1
    BY <2>1 DEF CInv, Exclusive
  <2>3. out'[h][b] = 0
    BY <1>1, <2>1, <2>2, CacheTypes
  <2> QED BY <2>1, <2>2, <2>3 DEF CInv, Exclusive
<1>9. \A g \in Cache!Halves, a \in Cache!Addresses : <<g, a>> # <<h, b>> => out'[g][a] = out[g][a]
  BY <1>1, <1>8, CacheTypes
<1> HIDE DEF h
<1>10. Exclusive'
  <2> USE DEF CInv, Exclusive
  <2>1. \A d \in Live' : Content(d)' \in Cache!Circulating
    BY <1>6, <1>7
  <2>2. \A d, e \in Live' : Content(d)' = Content(e)' => d = e
    BY <1>6, <1>7
  <2>3. \A u \in InHand : u # t /\ buffer'[u] = buffer[u]
    BY <1>2, <1>5 DEF InHand
  <2>4. \A u \in InHand' : buffer'[u] \in Cache!Circulating /\ \A d \in Live' : Content(d)' # buffer'[u]
    BY <1>2, <1>5, <1>6, <1>7, <1>8, <2>3
  <2>5. \A u, v \in InHand' : buffer'[u] = buffer'[v] => u = v
    BY <1>2, <1>5, <1>8, <2>3
  <2>6. ASSUME NEW g \in Cache!Halves, NEW a \in Cache!Addresses, out'[g][a] # 0
        PROVE  /\ out'[g][a] = 1 /\ a \in Cache!Circulating
               /\ \A d \in Live' : Content(d)' # a
               /\ \A u \in InHand' : buffer'[u] # a
               /\ \A k \in Cache!Halves : out'[k][a] # 0 => k = g
    <3>1. <<g, a>> # <<h, b>>
      BY <1>8, <2>6
    <3>2. out[g][a] # 0 /\ out'[g][a] = out[g][a]
      BY <1>9, <2>6, <3>1
    <3>3. a # b
      BY <1>8, <3>1, <3>2
    <3>4. \A k \in Cache!Halves : out'[k][a] = out[k][a]
      BY <1>9, <3>3
    <3> QED BY <1>2, <1>5, <1>6, <1>7, <2>3, <3>2, <3>3, <3>4
  <2> QED BY <2>1, <2>2, <2>4, <2>5, <2>6 DEF Exclusive
<1>11. Complete'
  <2> SUFFICES ASSUME NEW a \in Cache!Circulating
               PROVE  \/ \E d \in Live' : Content(d)' = a
                      \/ \E u \in InHand' : buffer'[u] = a
                      \/ \E g \in Cache!Halves : out'[g][a] # 0
    BY DEF Complete
  <2>1. \/ \E d \in Live : Content(d) = a
        \/ \E u \in InHand : buffer[u] = a
        \/ \E g \in Cache!Halves : out[g][a] # 0
    BY DEF CInv, Complete
  <2>2. CASE a = b
    BY <1>2, <1>5, <2>2
  <2>3. CASE a # b
    <3>1. a \in Cache!Addresses
      BY CacheSets, CacheSizes
    <3>2. \A g \in Cache!Halves : out'[g][a] = out[g][a]
      BY <1>9, <2>3, <3>1
    <3>3. \A u \in InHand : u \in InHand' /\ buffer'[u] = buffer[u]
      BY <1>2, <1>5 DEF InHand
    <3> QED BY <1>6, <1>7, <2>1, <3>2, <3>3
  <2> QED BY <2>2, <2>3
<1> QED BY <1>4, <1>6, <1>10, <1>11

\* The last buffer of a consumer slab goes out.
LEMMA CacheConsStep ==
  ASSUME CInv, NEW t \in CacheThreads, Cache!Cons(t)
  PROVE  /\ nSlabsAvailable' \in 0..PoolSlots
         /\ SlabsApart' /\ Progress' /\ Exclusive' /\ Complete'
<1> DEFINE h == OwnHalf[t]
           last == nCons[h] - 1
           b == buffers[slabCons[h]][last]
<1>1. /\ nCons[h] > 0 /\ pc[t] = "idle" /\ pc' = [pc EXCEPT ![t] = "idle"]
      /\ nCons' = [nCons EXCEPT ![h] = last]
      /\ out' = [out EXCEPT ![h][b] = out[h][b] + 1]
      /\ UNCHANGED <<slabs, nSlabsAvailable, buffers, slabCons, slabProd, nProd, buffer, n,
                     slabEmpty>>
  BY DEF Cache!Cons, Cache!Goto
<1>2. pc' = pc
  BY <1>1, CacheTypes
<1>3. h \in Cache!Halves /\ last \in Cache!Entries /\ nCons[h] = last + 1
  <2>1. h \in Cache!Halves /\ nCons[h] \in 0..SlabSize /\ SlabSize \in Nat \ {0}
    BY CacheTypes, CacheSizes
  <2> QED BY <1>1, <2>1, CacheSets
<1>4. /\ nCons'[h] = last /\ \A g \in Cache!Halves : g # h => nCons'[g] = nCons[g]
  BY <1>1, <1>3, CacheTypes
<1>5. PICK c \in Cache!Addresses : c = <<slabCons[h], last>>
  BY <1>3, CacheSets, CacheTypes
<1>6. PICK a \in Cache!Addresses : a = b
  BY <1>3, CacheTypes
<1>7. Content(c) = a
  BY <1>5, <1>6 DEF Content
<1>8. \A u \in CacheThreads : CurrentSlab(u)' = CurrentSlab(u) /\ Filled(u)' = Filled(u)
  BY <1>1, <1>2 DEF CurrentSlab, Filled
<1>9. SlabsApart' /\ nSlabsAvailable' \in 0..PoolSlots
  BY SMTT(60), <1>1, <1>8 DEF CInv, SlabsApart
<1>10. Progress'
  BY SMTT(30), <1>1, <1>2 DEF CInv, Progress, ProgressOf
<1>11. out' = [out EXCEPT ![h][a] = out[h][a] + 1]
  BY <1>1, <1>6
<1> HIDE DEF b, last, h
<1>12. c \in Live /\ Live' = Live \ {c}
  <2>1. ~ PoolCell(c) /\ ~ ProdCell(c)
    <3>1. \A i \in 0..(nSlabsAvailable - 1) : i \in 0..(PoolSlots - 1)
      <4>1. nSlabsAvailable \in 0..PoolSlots /\ PoolSlots \in Nat
        BY CacheSizes DEF CInv
      <4> QED BY <4>1
    <3> QED BY <1>3, <1>5, <3>1 DEF PoolCell, ProdCell, CInv, SlabsApart
  <2>2. ASSUME NEW d \in Cache!Addresses
        PROVE  ConsCell(d) <=> ConsCell(d)' \/ d = c
    <3>1. d[2] \in Int /\ last \in Int
      BY <1>3, CacheSets, CacheSizes
    <3>2. d = c <=> d[1] = slabCons[h] /\ d[2] = last
      BY <1>5, SameCell
    <3>3. d[2] < nCons[h] <=> d[2] < last \/ d[2] = last
      BY <1>3, <3>1
    <3> QED BY <1>1, <1>3, <1>4, <3>2, <3>3 DEF ConsCell
  <2>3. ~ ConsCell(c)'
    <3>1. \A g \in Cache!Halves : slabCons[g] = slabCons[h] => g = h
      BY <1>3 DEF CInv, SlabsApart
    <3>2. ~ (last < last)
      BY <1>3, CacheSets, CacheSizes
    <3> QED BY <1>1, <1>4, <1>5, <3>1, <3>2 DEF ConsCell
  <2>4. \A d : PoolCell(d)' = PoolCell(d) /\ (ProdCell(d)' <=> ProdCell(d))
    BY <1>1, <1>8 DEF PoolCell, ProdCell
  <2> QED BY <2>1, <2>2, <2>3, <2>4 DEF Live
<1>13. InHand' = InHand
  BY <1>2 DEF InHand
<1>14. \A d : Content(d)' = Content(d)
  BY <1>1 DEF Content
<1>15. /\ a \in Cache!Circulating /\ \A u \in InHand : buffer[u] # a
       /\ \A d \in Live' : Content(d) # a
       /\ \A g \in Cache!Halves : out[g][a] = 0
  <2>1. a \in Cache!Circulating /\ \A u \in InHand : buffer[u] # a
    BY <1>7, <1>12 DEF CInv, Exclusive
  <2>2. \A d \in Live' : Content(d) # a
    BY <1>7, <1>12 DEF CInv, Exclusive
  <2>3. \A g \in Cache!Halves : out[g][a] = 0
    BY <1>7, <1>12 DEF CInv, Exclusive
  <2> QED BY <2>1, <2>2, <2>3
<1>16. /\ out'[h][a] = 1
       /\ \A g \in Cache!Halves, d \in Cache!Addresses : <<g, d>> # <<h, a>> => out'[g][d] = out[g][d]
  BY <1>3, <1>11, <1>15, CacheTypes
<1>17. Exclusive'
  <2> USE DEF CInv, Exclusive
  <2>1. \A d \in Live' : Content(d)' \in Cache!Circulating
    BY <1>12, <1>14
  <2>2. \A d, e \in Live' : Content(d)' = Content(e)' => d = e
    BY <1>12, <1>14
  <2>3. \A u \in InHand' : buffer'[u] \in Cache!Circulating /\ \A d \in Live' : Content(d)' # buffer'[u]
    BY <1>1, <1>12, <1>13, <1>14
  <2>4. \A u, v \in InHand' : buffer'[u] = buffer'[v] => u = v
    BY <1>1, <1>13
  <2>5. ASSUME NEW g \in Cache!Halves, NEW d \in Cache!Addresses, out'[g][d] # 0
        PROVE  /\ out'[g][d] = 1 /\ d \in Cache!Circulating
               /\ \A e \in Live' : Content(e)' # d
               /\ \A u \in InHand' : buffer'[u] # d
               /\ \A i \in Cache!Halves : out'[i][d] # 0 => i = g
    <3>1. CASE d = a
      <4>1. \A i \in Cache!Halves : out'[i][a] # 0 => i = h
        BY <1>15, <1>16
      <4> QED BY <1>1, <1>13, <1>14, <1>15, <1>16, <2>5, <3>1, <4>1
    <3>2. CASE d # a
      <4>1. \A i \in Cache!Halves : out'[i][d] = out[i][d]
        BY <1>16, <3>2
      <4> QED BY <1>1, <1>12, <1>13, <1>14, <2>5, <4>1
    <3> QED BY <3>1, <3>2
  <2> QED BY <2>1, <2>2, <2>3, <2>4, <2>5 DEF Exclusive
<1>18. Complete'
  <2> SUFFICES ASSUME NEW d \in Cache!Circulating
               PROVE  \/ \E e \in Live' : Content(e)' = d
                      \/ \E u \in InHand' : buffer'[u] = d
                      \/ \E g \in Cache!Halves : out'[g][d] # 0
    BY DEF Complete
  <2>1. \/ \E e \in Live : Content(e) = d
        \/ \E u \in InHand : buffer[u] = d
        \/ \E g \in Cache!Halves : out[g][d] # 0
    BY DEF CInv, Complete
  <2>2. CASE d = a
    BY <1>3, <1>16, <2>2
  <2>3. CASE d # a
    <3>1. d \in Cache!Addresses
      BY SMTT(30), CacheSets, CacheSizes
    <3>2. \A g \in Cache!Halves : out'[g][d] = out[g][d]
      BY <1>16, <2>3, <3>1
    <3>3. \A e \in Live : Content(e) = d => e \in Live'
      BY <1>7, <1>12, <2>3
    <3> QED BY <1>1, <1>13, <1>14, <2>1, <3>2, <3>3
  <2> QED BY <2>2, <2>3
<1> QED BY <1>9, <1>10, <1>17, <1>18

\* The invariant is kept by every step.
LEMMA CInvStep == CInv /\ [Cache!Next]_(Cache!vars) => CInv'
<1> SUFFICES ASSUME CInv, [Cache!Next]_(Cache!vars) PROVE CInv'
  OBVIOUS
<1>1. CASE Cache!Next
  <2>1. PICK t \in CacheThreads :
          \/ Cache!ConsCheckTrade(t) \/ Cache!Cons(t)
          \/ \E b \in Cache!Addresses : Cache!Call(t, b)
          \/ Cache!Store(t) \/ Cache!Count(t)
          \/ Cache!Trade(t) \/ Cache!StoreFirst(t) \/ Cache!Adopt(t) \/ Cache!Restart(t)
    BY <1>1 DEF Cache!Next
  <2>2. /\ nSlabsAvailable' \in 0..PoolSlots
        /\ SlabsApart' /\ Progress' /\ Exclusive' /\ Complete'
    BY <2>1, ConsTradeStep, CacheConsStep, CacheCallStep, CacheStoreStep, CacheCountStep,
       CacheTradeStep, CacheStoreFirstStep, CacheAdoptStep, CacheRestartStep
  <2>3. CacheTypeOK'
    BY <1>1, <2>2, CacheTypeStep
  <2> QED BY <2>2, <2>3 DEF CInv
<1>2. CASE UNCHANGED Cache!vars
  <2>1. UNCHANGED <<slabs, nSlabsAvailable, buffers, slabCons, nCons, slabProd, nProd, out, pc,
                    buffer, n, slabEmpty>>
    BY <1>2 DEF Cache!vars, Cache!consumer
  <2>2. CacheTypeOK'
    BY <2>1 DEF CInv, CacheTypeOK, Cache!TypeOK
  <2>3. \A u \in CacheThreads : CurrentSlab(u)' = CurrentSlab(u) /\ Filled(u)' = Filled(u)
    BY <2>1 DEF CurrentSlab, Filled
  <2>4. Progress'
    BY <2>1 DEF CInv, Progress, ProgressOf
  <2>5. InHand' = InHand /\ \A c : Content(c)' = Content(c)
    BY <2>1 DEF InHand, Content
  <2> QED BY <2>1, <2>2, <2>3, <2>4, <2>5, SlabsKept, HeldKept DEF CInv
<1> QED BY <1>1, <1>2

\* The invariant holds before any call: every entry holds its own address.
LEMMA CInvInit == Cache!Init => CInv
<1> SUFFICES ASSUME Cache!Init PROVE CInv
  OBVIOUS
<1>1. /\ slabs = [i \in Cache!SlabIds |-> i] /\ nSlabsAvailable = PoolSlots
      /\ buffers = [s \in Cache!SlabIds |-> [e \in Cache!Entries |-> <<s, e>>]]
      /\ slabCons = [h \in Cache!Halves |-> PoolSlots + 3 - 2 * h]
      /\ slabProd = [h \in Cache!Halves |-> PoolSlots + 2 - 2 * h]
      /\ nProd = [h \in Cache!Halves |-> 0]
      /\ nCons = [h \in Cache!Halves |-> IF h = 0 THEN 0 ELSE SlabSize]
      /\ out = [h \in Cache!Halves |-> [b \in Cache!Addresses |-> 0]]
      /\ pc = [t \in CacheThreads |-> "idle"] /\ buffer = [t \in CacheThreads |-> <<0, 0>>]
      /\ n = [t \in CacheThreads |-> 0] /\ slabEmpty = [t \in CacheThreads |-> 0]
  BY CacheSizes DEF Cache!Init, Cache!ConsAtInit, Cache!ProdAtInit
<1>2. CacheTypeOK
  <2>1. \A h \in Cache!Halves :
           PoolSlots + 3 - 2 * h \in Cache!SlabIds /\ PoolSlots + 2 - 2 * h \in Cache!SlabIds
    BY CacheSizes, CacheSets
  <2>2. 0 \in Cache!SlabIds /\ 0 \in Cache!Entries /\ <<0, 0>> \in Cache!Addresses
    BY CacheSizes, CacheSets
  <2>3. \A s \in Cache!SlabIds, e \in Cache!Entries : <<s, e>> \in Cache!Addresses
    BY CacheSets
  <2>4. 0 \in 0..SlabSize /\ SlabSize \in 0..SlabSize /\ PoolSlots \in 0..Cache!NSlabs
    BY CacheSizes
  <2> QED BY <1>1, <2>1, <2>2, <2>3, <2>4 DEF CacheTypeOK, Cache!TypeOK
<1>3. \A t \in CacheThreads : CurrentSlab(t) = PoolSlots + 2 - 2 * OwnHalf[t] /\ Filled(t) = 0
  BY <1>1, CacheSizes DEF CurrentSlab, Filled
<1>4. /\ \A i \in 0..(PoolSlots - 1) : slabs[i] = i
      /\ slabCons[0] = PoolSlots + 3 /\ slabCons[1] = PoolSlots + 1
      /\ nCons[0] = 0 /\ nCons[1] = SlabSize
  <2>1. \A i \in 0..(PoolSlots - 1) : i \in Cache!SlabIds
    BY CacheSizes, CacheSets
  <2>2. 0 \in Cache!Halves /\ 1 \in Cache!Halves /\ PoolSlots \in Nat
    BY CacheSizes
  <2> QED BY <1>1, <2>1, <2>2
<1>5. SlabsApart
  <2>1. \A t \in CacheThreads : OwnHalf[t] \in {0, 1} /\ CurrentSlab(t) \in {PoolSlots, PoolSlots + 2}
    BY <1>3, CacheSizes
  <2>2. \A t, u \in CacheThreads : CurrentSlab(t) = CurrentSlab(u) => t = u
    <3> SUFFICES ASSUME NEW t \in CacheThreads, NEW u \in CacheThreads,
                        CurrentSlab(t) = CurrentSlab(u)
                 PROVE  t = u
      OBVIOUS
    <3>1. OwnHalf[t] \in {0, 1} /\ OwnHalf[u] \in {0, 1} /\ PoolSlots \in Nat
      BY CacheSizes
    <3>2. OwnHalf[t] = OwnHalf[u]
      BY <1>3, <3>1
    <3> QED BY <3>2, CacheSizes
  <2>3. PoolSlots \in Nat /\ Cache!Halves = {0, 1}
    BY CacheSizes
  <2> QED BY <1>4, <2>1, <2>2, <2>3 DEF SlabsApart
<1>6. Progress
  BY <1>1 DEF Progress, ProgressOf
<1>7. Live = Cache!Circulating
  <2>1. ASSUME NEW c \in Cache!Addresses
        PROVE  c \in Live <=> c[1] \in 0..(PoolSlots - 1) \/ c[1] = PoolSlots + 1
    <3>1. c[2] < SlabSize /\ ~ (c[2] < 0)
      BY CacheSets, CacheSizes
    <3>2. PoolCell(c) <=> c[1] \in 0..(PoolSlots - 1)
      BY <1>1, <1>4 DEF PoolCell
    <3>3. ConsCell(c) <=> c[1] = PoolSlots + 1
      BY <1>4, <3>1, CacheSizes DEF ConsCell
    <3>4. ~ ProdCell(c)
      BY <1>3, <3>1 DEF ProdCell
    <3> QED BY <3>2, <3>3, <3>4 DEF Live
  <2>2. Live \subseteq Cache!Addresses /\ Cache!Circulating \subseteq Cache!Addresses
    BY CacheSets, CacheSizes DEF Live
  <2>3. \A c \in Cache!Addresses :
           c \in Cache!Circulating <=> c[1] \in 0..(PoolSlots - 1) \/ c[1] = PoolSlots + 1
    BY CacheSets, CacheSizes
  <2> QED BY <2>1, <2>2, <2>3
<1>8. \A c \in Live : Content(c) = c
  BY <1>1, CacheSets DEF Live, Content
<1>9. InHand = {}
  BY <1>1 DEF InHand
<1>10. \A h \in Cache!Halves, b \in Cache!Addresses : out[h][b] = 0
  BY <1>1
<1>11. Exclusive
  BY <1>7, <1>8, <1>9, <1>10 DEF Exclusive
<1>12. Complete
  BY <1>7, <1>8 DEF Complete
<1>13. nSlabsAvailable \in 0..PoolSlots
  BY <1>1, CacheSizes
<1> QED BY <1>2, <1>5, <1>6, <1>11, <1>12, <1>13 DEF CInv

\* The invariant always holds.
LEMMA CacheInvariant == Cache!Spec => []CInv
  BY CInvInit, CInvStep, PTL DEF Cache!Spec

\* What holds of the cache holds of it in MCSharedAccess.
LEMMA CacheInside == SharedAccessSpec => Cache!Spec
<1>1. SharedAccessInit => Cache!Init
  BY DEF SharedAccessInit
<1>2. [SharedAccessNext]_<<used, vars, cacheVars, mpscVars>> => [Cache!Next]_(Cache!vars)
  BY DEF SharedAccessNext, cacheVars, Cache!vars, Cache!consumer
<1> QED BY <1>1, <1>2, PTL DEF SharedAccessSpec, Cache!Spec

\* Every index stays in its array, whatever the sizes of pool and slabs.
THEOREM CacheTypeCorrect == Cache!Spec => []CacheTypeOK
<1>1. CInv => CacheTypeOK
  BY DEF CInv
<1> QED BY <1>1, CacheInvariant, PTL

\* For all sizes of pool and slabs: a thread about to trade its full producer slab
\* finds a slab in the pool that is not full and that nobody works on, as the comment
\* of bcache_prod says.
THEOREM CacheTradeFindsSlab == Cache!Spec => []CacheSlabAvailable
<1>1. CInv => CacheSlabAvailable
  <2> SUFFICES ASSUME CInv, NEW t \in CacheThreads, pc[t] = "trade"
               PROVE  nSlabsAvailable < PoolSlots /\ slabs[nSlabsAvailable] \notin Cache!InUse
    BY DEF CacheSlabAvailable, Cache!EmptySlabAvailable
  <2> DEFINE s == slabs[nSlabsAvailable]
  <2>1. nSlabsAvailable < PoolSlots
    BY RoomToTrade
  <2>2. /\ nSlabsAvailable \in 0..(PoolSlots - 1)
        /\ \A i \in 0..(nSlabsAvailable - 1) : i \in 0..(PoolSlots - 1) /\ i # nSlabsAvailable
    <3>1. nSlabsAvailable \in 0..PoolSlots /\ PoolSlots \in Nat
      BY CacheSizes DEF CInv
    <3> QED BY <2>1, <3>1
  <2>3. \A i \in 0..(nSlabsAvailable - 1) : slabs[i] # s
    BY <2>2 DEF CInv, SlabsApart
  <2>4. \A h \in Cache!Halves : slabCons[h] # s
    BY <2>2 DEF CInv, SlabsApart
  <2>5. \A u \in CacheThreads : CurrentSlab(u) # s
    BY <2>2 DEF CInv, SlabsApart
  <2>6. \A u \in Cache!Trading : slabEmpty[u] # s
    BY <2>5 DEF Cache!Trading, CurrentSlab
  <2>7. \A h \in Cache!Halves \ {OwnHalf[u] : u \in Cache!Trading} : slabProd[h] # s
    <3> SUFFICES ASSUME NEW h \in Cache!Halves, h \notin {OwnHalf[u] : u \in Cache!Trading}
                 PROVE  slabProd[h] # s
      OBVIOUS
    <3>1. PICK u \in CacheThreads : h = OwnHalf[u]
      BY CacheSizes
    <3>2. u \notin Cache!Trading
      BY <3>1
    <3> QED BY <2>5, <3>1, <3>2 DEF Cache!Trading, CurrentSlab
  <2> HIDE DEF s
  <2>8. s \notin Cache!InUse
    BY <2>3, <2>4, <2>6, <2>7 DEF Cache!InUse
  <2> QED BY <2>1, <2>8 DEF s
<1> QED BY <1>1, CacheInvariant, PTL

\* The cache's module and this one count alike.
LEMMA CacheCardinality == \A S : Cache!Cardinality(S) = Cardinality(S)
  BY DEF Cache!Cardinality, Cardinality

\* The entries of the pool, of the consumer and of the producer slabs that hold b, as
\* InPool, InCons and InProd count them
PoolPlaces(b) ==
  {x \in (0..(nSlabsAvailable - 1)) \X Cache!Entries : buffers[slabs[x[1]]][x[2]] = b}
ConsPlaces(b) ==
  {x \in Cache!Halves \X Cache!Entries : x[2] < nCons[x[1]] /\ buffers[slabCons[x[1]]][x[2]] = b}
ProdPlaces(b) ==
  {x \in Cache!Halves \X Cache!Entries : x[2] < nProd[x[1]] /\ buffers[slabProd[x[1]]][x[2]] = b}

\* With all threads idle, each of them is an entry that counts.
LEMMA PlacesAreLive ==
  ASSUME CInv, \A t \in CacheThreads : pc[t] = "idle", NEW b
  PROVE  /\ \A x \in PoolPlaces(b) :
              <<slabs[x[1]], x[2]>> \in Live /\ Content(<<slabs[x[1]], x[2]>>) = b
         /\ \A x \in ConsPlaces(b) :
              <<slabCons[x[1]], x[2]>> \in Live /\ Content(<<slabCons[x[1]], x[2]>>) = b
         /\ \A x \in ProdPlaces(b) :
              <<slabProd[x[1]], x[2]>> \in Live /\ Content(<<slabProd[x[1]], x[2]>>) = b
<1>1. ASSUME NEW x \in PoolPlaces(b)
      PROVE  <<slabs[x[1]], x[2]>> \in Live /\ Content(<<slabs[x[1]], x[2]>>) = b
  <2>1. x[1] \in 0..(nSlabsAvailable - 1) /\ x[2] \in Cache!Entries
    BY DEF PoolPlaces
  <2>2. x[1] \in Cache!SlabIds
    <3>1. nSlabsAvailable \in 0..PoolSlots /\ PoolSlots \in Nat
      BY CacheSizes DEF CInv
    <3> QED BY <2>1, <3>1, CacheSets
  <2>3. <<slabs[x[1]], x[2]>> \in Cache!Addresses
    BY <2>1, <2>2, CacheSets, CacheTypes
  <2> QED BY <2>1, <2>3 DEF PoolPlaces, Live, PoolCell, Content
<1>2. ASSUME NEW x \in ConsPlaces(b)
      PROVE  <<slabCons[x[1]], x[2]>> \in Live /\ Content(<<slabCons[x[1]], x[2]>>) = b
  <2>1. x[1] \in Cache!Halves /\ x[2] \in Cache!Entries /\ x[2] < nCons[x[1]]
    BY DEF ConsPlaces
  <2>2. <<slabCons[x[1]], x[2]>> \in Cache!Addresses
    BY <2>1, CacheSets, CacheTypes
  <2> QED BY <2>1, <2>2 DEF ConsPlaces, Live, ConsCell, Content
<1>3. ASSUME NEW x \in ProdPlaces(b)
      PROVE  <<slabProd[x[1]], x[2]>> \in Live /\ Content(<<slabProd[x[1]], x[2]>>) = b
  <2>1. x[1] \in Cache!Halves /\ x[2] \in Cache!Entries /\ x[2] < nProd[x[1]]
    BY DEF ProdPlaces
  <2>2. <<slabProd[x[1]], x[2]>> \in Cache!Addresses
    BY <2>1, CacheSets, CacheTypes
  <2>3. PICK t \in CacheThreads : x[1] = OwnHalf[t]
    BY <2>1, CacheSizes
  <2>4. CurrentSlab(t) = slabProd[x[1]] /\ Filled(t) = nProd[x[1]]
    BY <2>3 DEF CurrentSlab, Filled
  <2> QED BY <2>1, <2>2, <2>4 DEF ProdPlaces, Live, ProdCell, Content
<1> QED BY <1>1, <1>2, <1>3

\* A buffer in an entry that counts is in one place of one kind.
LEMMA OnePlace ==
  ASSUME CInv, \A t \in CacheThreads : pc[t] = "idle", NEW c \in Live, NEW b, Content(c) = b
  PROVE  \E x : \/ PoolPlaces(b) = {x} /\ ConsPlaces(b) = {} /\ ProdPlaces(b) = {}
                \/ PoolPlaces(b) = {} /\ ConsPlaces(b) = {x} /\ ProdPlaces(b) = {}
                \/ PoolPlaces(b) = {} /\ ConsPlaces(b) = {} /\ ProdPlaces(b) = {x}
<1>1. /\ \A x \in PoolPlaces(b) : slabs[x[1]] = c[1] /\ x[2] = c[2]
      /\ \A x \in ConsPlaces(b) : slabCons[x[1]] = c[1] /\ x[2] = c[2]
      /\ \A x \in ProdPlaces(b) : slabProd[x[1]] = c[1] /\ x[2] = c[2]
  <2>1. \A d \in Live : Content(d) = b => d = c
    BY DEF CInv, Exclusive
  <2>2. \A s, e : <<s, e>> \in Live /\ Content(<<s, e>>) = b => s = c[1] /\ e = c[2]
    BY <2>1
  <2>3. ASSUME NEW x \in PoolPlaces(b) PROVE slabs[x[1]] = c[1] /\ x[2] = c[2]
    <3>1. <<slabs[x[1]], x[2]>> \in Live /\ Content(<<slabs[x[1]], x[2]>>) = b
      BY PlacesAreLive
    <3> QED BY <2>2, <3>1
  <2>4. ASSUME NEW x \in ConsPlaces(b) PROVE slabCons[x[1]] = c[1] /\ x[2] = c[2]
    <3>1. <<slabCons[x[1]], x[2]>> \in Live /\ Content(<<slabCons[x[1]], x[2]>>) = b
      BY PlacesAreLive
    <3> QED BY <2>2, <3>1
  <2>5. ASSUME NEW x \in ProdPlaces(b) PROVE slabProd[x[1]] = c[1] /\ x[2] = c[2]
    <3>1. <<slabProd[x[1]], x[2]>> \in Live /\ Content(<<slabProd[x[1]], x[2]>>) = b
      BY PlacesAreLive
    <3> QED BY <2>2, <3>1
  <2> QED BY <2>3, <2>4, <2>5
<1>2. /\ \A x \in PoolPlaces(b) : x[1] \in 0..(PoolSlots - 1) /\ x = <<x[1], x[2]>>
      /\ \A x \in ConsPlaces(b) : x[1] \in Cache!Halves /\ x = <<x[1], x[2]>>
      /\ \A x \in ProdPlaces(b) : x[1] \in Cache!Halves /\ x = <<x[1], x[2]>>
  <2>1. \A i \in 0..(nSlabsAvailable - 1) : i \in 0..(PoolSlots - 1)
    <3>1. nSlabsAvailable \in 0..PoolSlots /\ PoolSlots \in Nat
      BY CacheSizes DEF CInv
    <3> QED BY <3>1
  <2> QED BY <2>1 DEF PoolPlaces, ConsPlaces, ProdPlaces
<1>3. /\ \A i, j \in 0..(PoolSlots - 1) : slabs[i] = slabs[j] => i = j
      /\ \A h, k \in Cache!Halves : slabCons[h] = slabCons[k] => h = k
      /\ \A h, k \in Cache!Halves : slabProd[h] = slabProd[k] => h = k
      /\ \A i \in 0..(PoolSlots - 1), h \in Cache!Halves : slabs[i] # slabCons[h] /\ slabs[i] # slabProd[h]
      /\ \A h, k \in Cache!Halves : slabCons[h] # slabProd[k]
  <2>1. \A h \in Cache!Halves : \E t \in CacheThreads : h = OwnHalf[t] /\ CurrentSlab(t) = slabProd[h]
    BY CacheSizes DEF CurrentSlab
  <2> QED BY <2>1 DEF CInv, SlabsApart
<1>4. PoolPlaces(b) # {} \/ ConsPlaces(b) # {} \/ ProdPlaces(b) # {}
  <2>1. c \in Cache!Addresses /\ c[2] \in Cache!Entries /\ buffers[c[1]][c[2]] = b
    BY CacheSets DEF Live, Content
  <2>2. CASE PoolCell(c)
    <3>1. PICK i \in 0..(nSlabsAvailable - 1) : c[1] = slabs[i]
      BY <2>2 DEF PoolCell
    <3>2. <<i, c[2]>> \in PoolPlaces(b)
      BY <2>1, <3>1 DEF PoolPlaces
    <3> QED BY <3>2
  <2>3. CASE ConsCell(c)
    <3>1. PICK h \in Cache!Halves : c[1] = slabCons[h] /\ c[2] < nCons[h]
      BY <2>3 DEF ConsCell
    <3>2. <<h, c[2]>> \in ConsPlaces(b)
      BY <2>1, <3>1 DEF ConsPlaces
    <3> QED BY <3>2
  <2>4. CASE ProdCell(c)
    <3>1. PICK t \in CacheThreads : c[1] = CurrentSlab(t) /\ c[2] < Filled(t)
      BY <2>4 DEF ProdCell
    <3>2. OwnHalf[t] \in Cache!Halves /\ c[1] = slabProd[OwnHalf[t]] /\ c[2] < nProd[OwnHalf[t]]
      BY <3>1, CacheSizes DEF CurrentSlab, Filled
    <3>3. <<OwnHalf[t], c[2]>> \in ProdPlaces(b)
      BY <2>1, <3>2 DEF ProdPlaces
    <3> QED BY <3>3
  <2> QED BY <2>2, <2>3, <2>4 DEF Live
<1>5. /\ \A x, y \in PoolPlaces(b) : x = y
      /\ \A x, y \in ConsPlaces(b) : x = y
      /\ \A x, y \in ProdPlaces(b) : x = y
  BY <1>1, <1>2, <1>3
<1>6. /\ PoolPlaces(b) # {} => ConsPlaces(b) = {} /\ ProdPlaces(b) = {}
      /\ ConsPlaces(b) # {} => PoolPlaces(b) = {} /\ ProdPlaces(b) = {}
      /\ ProdPlaces(b) # {} => PoolPlaces(b) = {} /\ ConsPlaces(b) = {}
  BY <1>1, <1>2, <1>3
<1>7. /\ PoolPlaces(b) # {} => \E x : PoolPlaces(b) = {x}
      /\ ConsPlaces(b) # {} => \E x : ConsPlaces(b) = {x}
      /\ ProdPlaces(b) # {} => \E x : ProdPlaces(b) = {x}
  BY <1>5
<1> QED BY <1>4, <1>6, <1>7

\* For all sizes of pool and slabs: while neither thread is inside bcache_prod, every
\* buffer is in exactly one place, however their calls were interleaved.
THEOREM CacheKeepsBuffersOnce == Cache!Spec => []CacheBufferOnce
<1>1. CInv => CacheBufferOnce
  <2> SUFFICES ASSUME CInv, \A t \in CacheThreads : pc[t] = "idle", NEW b \in Cache!Circulating
               PROVE  /\ Cache!InPool(b) + Cache!InCons(b) + Cache!InProd(b)
                          + Cardinality(Cache!OutIn(b)) = 1
                      /\ \A h \in Cache!Halves : out[h][b] <= 1
    BY CacheCardinality DEF CacheBufferOnce, Cache!EachBufferOnce
  <2>1. b \in Cache!Addresses
    BY CacheSets, CacheSizes
  <2>2. /\ Cache!InPool(b) = Cardinality(PoolPlaces(b))
        /\ Cache!InCons(b) = Cardinality(ConsPlaces(b))
        /\ Cache!InProd(b) = Cardinality(ProdPlaces(b))
    BY CacheCardinality DEF Cache!InPool, Cache!InCons, Cache!InProd, PoolPlaces, ConsPlaces, ProdPlaces
  <2>3. \A h \in Cache!Halves : out[h][b] \in {0, 1}
    BY <2>1, CacheTypes DEF CInv, Exclusive
  <2>4. Cache!OutIn(b) = {h \in Cache!Halves : out[h][b] # 0}
    BY <2>3 DEF Cache!OutIn
  <2>5. Cardinality({}) = 0 /\ \A x : Cardinality({x}) = 1
    BY FS_EmptySet, FS_Singleton
  <2>6. CASE \E c \in Live : Content(c) = b
    <3>1. PICK c \in Live : Content(c) = b
      BY <2>6
    <3>2. Cache!OutIn(b) = {}
      BY <2>1, <2>4, <3>1 DEF CInv, Exclusive
    <3>3. /\ Cardinality(PoolPlaces(b)) \in {0, 1} /\ Cardinality(ConsPlaces(b)) \in {0, 1}
          /\ Cardinality(ProdPlaces(b)) \in {0, 1}
          /\ Cardinality(PoolPlaces(b)) + Cardinality(ConsPlaces(b)) + Cardinality(ProdPlaces(b)) = 1
      <4>1. PICK x : \/ PoolPlaces(b) = {x} /\ ConsPlaces(b) = {} /\ ProdPlaces(b) = {}
                     \/ PoolPlaces(b) = {} /\ ConsPlaces(b) = {x} /\ ProdPlaces(b) = {}
                     \/ PoolPlaces(b) = {} /\ ConsPlaces(b) = {} /\ ProdPlaces(b) = {x}
        BY <3>1, OnePlace
      <4>2. Cardinality({x}) = 1
        BY <2>5
      <4> QED BY <2>5, <4>1, <4>2
    <3> QED BY <2>2, <2>3, <2>5, <3>2, <3>3
  <2>7. CASE ~ \E c \in Live : Content(c) = b
    <3>1. PoolPlaces(b) = {} /\ ConsPlaces(b) = {} /\ ProdPlaces(b) = {}
      BY <2>7, PlacesAreLive
    <3>2. InHand = {}
      BY DEF InHand
    <3>3. PICK h \in Cache!Halves : out[h][b] # 0
      BY <2>7, <3>2 DEF CInv, Complete
    <3>4. \A k \in Cache!Halves : out[k][b] # 0 => k = h
      BY <2>1, <3>3 DEF CInv, Exclusive
    <3>5. Cache!OutIn(b) = {h}
      BY <2>4, <3>3, <3>4
    <3>6. Cardinality(Cache!OutIn(b)) = 1
      BY <2>5, <3>5
    <3>7. /\ Cache!InPool(b) = 0 /\ Cache!InCons(b) = 0 /\ Cache!InProd(b) = 0
      BY <2>2, <2>5, <3>1
    <3> QED BY <2>3, <3>6, <3>7
  <2> QED BY <2>6, <2>7
<1> QED BY <1>1, CacheInvariant, PTL

-----------------------------------------------------------------------------
(* The cache: its calls as single steps                                    *)
(*                                                                         *)
(* SlabCache sees the slabs as sequences.  What a thread has collected     *)
(* changes when it writes n_buffers_prod or trades its slab; until then    *)
(* what it has stored lies behind the entries that count, and after a      *)
(* trade only the buffer in its hand counts until n_buffers_prod is 1.     *)

InTrade == {"first", "adopt", "restart"}

\* What thread t has collected since its last trade
Gathered(t) ==
  IF pc[t] \in InTrade THEN <<buffer[t]>> ELSE Slice(buffers, slabProd[OwnHalf[t]], nProd[OwnHalf[t]])

\* The full slabs and the stock, before and after a step
LEMMA CacheMapped ==
  /\ Cache!FullSlabs = [i \in 1..nSlabsAvailable |-> Slice(buffers, slabs[i - 1], SlabSize)]
  /\ Cache!Stock = [h \in Cache!Halves |-> Slice(buffers, slabCons[h], nCons[h])]
BY DEF Cache!FullSlabs, Cache!Stock, Cache!Contents, Slice

LEMMA CacheMappedNext ==
  /\ Cache!FullSlabs' = [i \in 1..nSlabsAvailable' |-> Slice(buffers', slabs'[i - 1], SlabSize)]
  /\ Cache!Stock' = [h \in Cache!Halves |-> Slice(buffers', slabCons'[h], nCons'[h])]
BY DEF Cache!FullSlabs, Cache!Stock, Cache!Contents, Slice

\* Each half has one thread, and holds what that thread has collected.
LEMMA CollectedByThread ==
  /\ Cache!Collected = [h \in Cache!Halves |-> Cache!Collected[h]]
  /\ \A t \in CacheThreads : Cache!Collected[OwnHalf[t]] = Gathered(t)
<1> DEFINE late(h) == {u \in CacheThreads : OwnHalf[u] = h /\ pc[u] \in InTrade}
           C(h) == IF late(h) # {} THEN <<buffer[CHOOSE u \in late(h) : TRUE]>>
                   ELSE Slice(buffers, slabProd[h], nProd[h])
<1>1. Cache!Collected = [h \in Cache!Halves |-> C(h)]
  BY DEF Cache!Collected, Cache!Contents, Slice, InTrade
<1>2. ASSUME NEW t \in CacheThreads PROVE C(OwnHalf[t]) = Gathered(t)
  <2>1. late(OwnHalf[t]) = IF pc[t] \in InTrade THEN {t} ELSE {}
    BY CacheSizes
  <2> QED BY <2>1 DEF Gathered
<1>3. \A t \in CacheThreads : OwnHalf[t] \in Cache!Halves
  BY CacheSizes
<1> HIDE DEF C
<1> QED BY <1>1, <1>2, <1>3

LEMMA CollectedByThreadNext ==
  /\ Cache!Collected' = [h \in Cache!Halves |-> Cache!Collected'[h]]
  /\ \A t \in CacheThreads : Cache!Collected'[OwnHalf[t]] = Gathered(t)'
<1> DEFINE late(h) == {u \in CacheThreads : OwnHalf[u] = h /\ pc'[u] \in InTrade}
           C(h) == IF late(h) # {} THEN <<buffer'[CHOOSE u \in late(h) : TRUE]>>
                   ELSE Slice(buffers', slabProd'[h], nProd'[h])
<1>1. Cache!Collected' = [h \in Cache!Halves |-> C(h)]
  BY DEF Cache!Collected, Cache!Contents, Slice, InTrade
<1>2. ASSUME NEW t \in CacheThreads PROVE C(OwnHalf[t]) = Gathered(t)'
  <2>1. late(OwnHalf[t]) = IF pc'[t] \in InTrade THEN {t} ELSE {}
    BY CacheSizes
  <2> QED BY <2>1 DEF Gathered
<1>3. \A t \in CacheThreads : OwnHalf[t] \in Cache!Halves
  BY CacheSizes
<1> HIDE DEF C
<1> QED BY <1>1, <1>2, <1>3

\* A step of thread t changes what it has collected, if anything.
LEMMA CollectedStep ==
  ASSUME NEW t \in CacheThreads, NEW v, Gathered(t)' = v,
         \A u \in CacheThreads \ {t} : Gathered(u)' = Gathered(u)
  PROVE  Cache!Collected' = [Cache!Collected EXCEPT ![OwnHalf[t]] = v]
<1> DEFINE C == Cache!Collected
           D == Cache!Collected'
<1>1. /\ C = [h \in Cache!Halves |-> C[h]] /\ D = [h \in Cache!Halves |-> D[h]]
      /\ \A u \in CacheThreads : C[OwnHalf[u]] = Gathered(u) /\ D[OwnHalf[u]] = Gathered(u)'
  BY CollectedByThread, CollectedByThreadNext
<1> HIDE DEF C, D
<1>2. D[OwnHalf[t]] = v
  BY <1>1
<1>3. ASSUME NEW h \in Cache!Halves, h # OwnHalf[t] PROVE D[h] = C[h]
  <2>1. PICK u \in CacheThreads : h = OwnHalf[u]
    BY CacheSizes
  <2> QED BY <1>1, <1>3, <2>1
<1>4. D = [C EXCEPT ![OwnHalf[t]] = v]
  BY <1>1, <1>2, <1>3, CacheSizes
<1> QED BY <1>4 DEF C, D

LEMMA CollectedKept ==
  ASSUME \A u \in CacheThreads : Gathered(u)' = Gathered(u)
  PROVE  Cache!Collected' = Cache!Collected
<1> DEFINE C == Cache!Collected
           D == Cache!Collected'
<1>1. /\ C = [h \in Cache!Halves |-> C[h]] /\ D = [h \in Cache!Halves |-> D[h]]
      /\ \A u \in CacheThreads : C[OwnHalf[u]] = Gathered(u) /\ D[OwnHalf[u]] = Gathered(u)'
  BY CollectedByThread, CollectedByThreadNext
<1> HIDE DEF C, D
<1>2. \A h \in Cache!Halves : D[h] = C[h]
  BY <1>1, CacheSizes
<1> QED BY <1>1, <1>2 DEF C, D

\* What is in a slab
LEMMA SlabContents ==
  ASSUME CInv, NEW s \in Cache!SlabIds, NEW k \in 0..SlabSize
  PROVE  /\ Slice(buffers, s, k) \in [1..k -> Cache!Addresses] /\ Len(Slice(buffers, s, k)) = k
         /\ Slice(buffers, s, k) = << >> <=> k = 0
<1>1. k \in Nat /\ \A e \in 0..(k - 1) : buffers[s][e] \in Cache!Addresses
  <2>1. k \in Nat /\ SlabSize \in Nat /\ \A e \in 0..(k - 1) : e \in Cache!Entries
    BY CacheSizes, CacheSets
  <2> QED BY <2>1, CacheTypes
<1> QED BY <1>1, SliceType

\* The pool holds a sequence of full slabs.
LEMMA PoolContents ==
  ASSUME CInv
  PROVE  /\ Cache!FullSlabs \in [1..nSlabsAvailable -> Cache!Calls!Slabs]
         /\ Len(Cache!FullSlabs) = nSlabsAvailable /\ nSlabsAvailable \in Nat
<1>1. nSlabsAvailable \in Nat /\ SlabSize \in 0..SlabSize
      /\ \A i \in 1..nSlabsAvailable : i - 1 \in Cache!SlabIds
  <2>1. nSlabsAvailable \in 0..PoolSlots /\ PoolSlots \in Nat /\ SlabSize \in Nat
    BY CacheTypes, CacheSizes
  <2> QED BY <2>1, CacheSets
<1>2. \A i \in 1..nSlabsAvailable : Slice(buffers, slabs[i - 1], SlabSize) \in Cache!Calls!Slabs
  BY <1>1, CacheTypes, SlabContents DEF Cache!Calls!Slabs
<1>3. Cache!FullSlabs \in [1..nSlabsAvailable -> Cache!Calls!Slabs]
  BY <1>2, CacheMapped
<1> DEFINE F == Cache!FullSlabs
           S == Cache!Calls!Slabs
<1>4. F \in [1..nSlabsAvailable -> S]
  BY <1>3
<1> HIDE DEF F, S
<1>5. Len(F) = nSlabsAvailable
  BY <1>1, <1>4, Length
<1> QED BY <1>1, <1>4, <1>5 DEF F, S

\* Until its call takes effect, a buffer given back still counts as handed out.
Early == {"store", "count", "trade"}

LEMMA CacheHandedOut ==
  \A b : b \in Cache!HandedOut <=>
    \/ b \in Cache!Addresses /\ \E h \in Cache!Halves : out[h][b] > 0
    \/ \E t \in CacheThreads : pc[t] \in Early /\ b = buffer[t]
BY DEF Cache!HandedOut, Early

LEMMA CacheHandedOutNext ==
  \A b : b \in Cache!HandedOut' <=>
    \/ b \in Cache!Addresses /\ \E h \in Cache!Halves : out'[h][b] > 0
    \/ \E t \in CacheThreads : pc'[t] \in Early /\ b = buffer'[t]
BY DEF Cache!HandedOut, Early

LEMMA HandedOutKept ==
  ASSUME out' = out, buffer' = buffer,
         \A u \in CacheThreads : pc'[u] \in Early <=> pc[u] \in Early
  PROVE  Cache!HandedOut' = Cache!HandedOut
<1>1. \A b : b \in Cache!HandedOut' <=> b \in Cache!HandedOut
  BY CacheHandedOut, CacheHandedOutNext
<1> QED BY <1>1

\* The call of thread t takes effect: the buffer in its hand is inside again.
LEMMA HandedIn ==
  ASSUME CInv, NEW t \in CacheThreads, pc[t] \in Early, pc'[t] \notin Early,
         \A u \in CacheThreads \ {t} : pc'[u] = pc[u], out' = out, buffer' = buffer
  PROVE  buffer[t] \in Cache!HandedOut /\ Cache!HandedOut' = Cache!HandedOut \ {buffer[t]}
<1>1. t \in InHand
  BY DEF InHand, Early
<1>2. ASSUME NEW u \in CacheThreads, pc[u] \in Early, u # t PROVE buffer[u] # buffer[t]
  <2>1. u \in InHand
    BY <1>2 DEF InHand, Early
  <2> QED BY <1>1, <1>2, <2>1 DEF CInv, Exclusive
<1>3. \A h \in Cache!Halves, b \in Cache!Addresses : out[h][b] > 0 => b # buffer[t]
  <2>1. \A h \in Cache!Halves, b \in Cache!Addresses : out[h][b] > 0 => out[h][b] # 0
    OBVIOUS
  <2> QED BY <1>1, <2>1 DEF CInv, Exclusive
<1>4. \A b : b \in Cache!HandedOut' <=> b \in Cache!HandedOut /\ b # buffer[t]
  <2> SUFFICES ASSUME NEW b PROVE b \in Cache!HandedOut' <=> b \in Cache!HandedOut /\ b # buffer[t]
    OBVIOUS
  <2>1. b \in Cache!HandedOut' <=>
          \/ b \in Cache!Addresses /\ \E h \in Cache!Halves : out[h][b] > 0
          \/ \E u \in CacheThreads : u # t /\ pc[u] \in Early /\ b = buffer[u]
    BY CacheHandedOutNext
  <2>2. b \in Cache!HandedOut <=>
          \/ b \in Cache!Addresses /\ \E h \in Cache!Halves : out[h][b] > 0
          \/ \E u \in CacheThreads : u # t /\ pc[u] \in Early /\ b = buffer[u]
          \/ b = buffer[t]
    BY CacheHandedOut
  <2> QED BY <1>2, <1>3, <2>1, <2>2
<1>5. buffer[t] \in Cache!HandedOut
  BY CacheHandedOut
<1> QED BY <1>4, <1>5

\* bcache_cons_check trades an empty slab for a full one.
LEMMA ConsTradeTrades ==
  ASSUME CInv, NEW t \in CacheThreads, Cache!ConsCheckTrade(t)
  PROVE  Cache!Calls!Trade(OwnHalf[t])
<1> DEFINE h == OwnHalf[t]
           k == nSlabsAvailable
           top == slabs[k - 1]
<1>1. /\ nCons[h] = 0 /\ k > 0 /\ pc' = [pc EXCEPT ![t] = "idle"] /\ pc[t] = "idle"
      /\ slabs' = [slabs EXCEPT ![k - 1] = slabCons[h]] /\ nSlabsAvailable' = k - 1
      /\ slabCons' = [slabCons EXCEPT ![h] = top] /\ nCons' = [nCons EXCEPT ![h] = SlabSize]
      /\ UNCHANGED <<buffers, slabProd, nProd, out, buffer>>
  BY DEF Cache!ConsCheckTrade, Cache!Goto
<1>2. pc' = pc
  BY <1>1, CacheTypes
<1>3. /\ k \in Nat \ {0} /\ k <= PoolSlots /\ h \in Cache!Halves /\ SlabSize \in Nat \ {0}
      /\ PoolSlots \in Nat
  BY <1>1, CacheTypes, CacheSizes
<1>4. /\ \A i \in 1..k : i - 1 \in Cache!SlabIds
      /\ \A i \in 1..(k - 1) : i \in 1..k /\ i - 1 # k - 1
      /\ k \in 1..k
  BY <1>3, CacheSets
<1>5. /\ Cache!FullSlabs = [i \in 1..k |-> Slice(buffers, slabs[i - 1], SlabSize)]
      /\ Cache!FullSlabs' = [i \in 1..(k - 1) |-> Slice(buffers, slabs[i - 1], SlabSize)]
  <2>1. \A i \in 1..(k - 1) : slabs'[i - 1] = slabs[i - 1]
    BY <1>1, <1>4, CacheTypes
  <2> QED BY <1>1, <2>1, CacheMapped, CacheMappedNext
<1>6. Cache!FullSlabs' = Cache!Calls!Without(Cache!FullSlabs, 1) /\ Cache!FullSlabs # << >>
  <2> DEFINE F == Cache!FullSlabs
             S == Cache!Calls!Slabs
  <2>1. k \in Nat /\ F \in [1..k -> S] /\ k - 1 \in 0..k /\ Len(F) = k
    BY <1>3, PoolContents
  <2>2. [i \in 1..(k - 1) |-> F[i]] = Cache!FullSlabs'
    BY <1>4, <1>5
  <2> HIDE DEF F, S
  <2>3. SubSeq(F, 1, k - 1) = [i \in 1..(k - 1) |-> F[i]]
    <3> HIDE DEF k
    <3> QED BY <2>1, Shortened
  <2>4. Cache!Calls!Without(F, 1) = SubSeq(F, 1, k - 1)
    BY <2>1 DEF Cache!Calls!Without
  <2>5. F # << >>
    BY <1>3, <2>1, EmptySeq
  <2> QED BY <2>2, <2>3, <2>4, <2>5 DEF F
<1>7. Cache!Calls!Last(Cache!FullSlabs) = Slice(buffers, top, SlabSize)
  BY <1>4, <1>5, PoolContents DEF Cache!Calls!Last
<1>8. Cache!Stock' = [Cache!Stock EXCEPT ![h] = Slice(buffers, top, SlabSize)]
  BY <1>1, <1>3, CacheTypes, CacheMapped, CacheMappedNext
<1>9. Cache!Stock[h] = << >>
  <2>1. slabCons[h] \in Cache!SlabIds /\ 0 \in 0..SlabSize
    BY <1>3, CacheTypes
  <2>2. Slice(buffers, slabCons[h], 0) = << >>
    BY <2>1, SlabContents
  <2> QED BY <1>1, <1>3, <2>2, CacheMapped
<1>10. Cache!Collected' = Cache!Collected
  <2>1. \A u \in CacheThreads : Gathered(u)' = Gathered(u)
    BY <1>1, <1>2 DEF Gathered
  <2> QED BY <2>1, CollectedKept
<1>11. Cache!HandedOut' = Cache!HandedOut
  BY <1>1, <1>2, HandedOutKept
<1> QED BY <1>6, <1>7, <1>8, <1>9, <1>10, <1>11 DEF Cache!Calls!Trade

\* bcache_cons hands out the last buffer.
LEMMA ConsTakes ==
  ASSUME CInv, NEW t \in CacheThreads, Cache!Cons(t)
  PROVE  /\ 1 \in 1..Len(Cache!Stock[OwnHalf[t]])
         /\ Cache!Calls!Take(OwnHalf[t], 1)
<1> DEFINE h == OwnHalf[t]
           m == nCons[h]
           s == slabCons[h]
           b == buffers[s][m - 1]
<1>1. /\ m > 0 /\ pc[t] = "idle" /\ pc' = [pc EXCEPT ![t] = "idle"]
      /\ nCons' = [nCons EXCEPT ![h] = m - 1]
      /\ out' = [out EXCEPT ![h][b] = out[h][b] + 1]
      /\ UNCHANGED <<slabs, nSlabsAvailable, buffers, slabCons, slabProd, nProd, buffer>>
  BY DEF Cache!Cons, Cache!Goto
<1>2. pc' = pc
  BY <1>1, CacheTypes
<1>3. /\ h \in Cache!Halves /\ m \in 0..SlabSize /\ s \in Cache!SlabIds /\ SlabSize \in Nat
      /\ m \in Nat \ {0} /\ m - 1 \in Cache!Entries
  <2>1. h \in Cache!Halves /\ m \in 0..SlabSize /\ s \in Cache!SlabIds /\ SlabSize \in Nat
    BY CacheTypes, CacheSizes
  <2> QED BY <1>1, <2>1, CacheSets
<1>4. b \in Cache!Addresses
  BY <1>3, CacheTypes
<1>5. Cache!Stock[h] = Slice(buffers, s, m) /\ Len(Cache!Stock[h]) = m
  <2>1. Cache!Stock[h] = Slice(buffers, s, m)
    BY <1>3, CacheMapped
  <2> QED BY <1>3, <2>1, SlabContents
<1>6. Cache!Calls!Without(Cache!Stock[h], 1) = Slice(buffers, s, m - 1)
  <2>1. m \in Nat /\ 1 \in 0..m
    BY <1>3
  <2> HIDE DEF m, s, h
  <2>2. SubSeq(Slice(buffers, s, m), 1, m - 1) = Slice(buffers, s, m - 1)
    BY SMTT(60), <2>1, SliceCut
  <2> QED BY <1>5, <2>2 DEF Cache!Calls!Without
<1>7. Cache!Calls!Ending(Cache!Stock[h], 1) = {b}
  <2>1. m - 1 + 1 = m /\ m..m = {m} /\ m \in 1..m
    BY <1>3
  <2>2. Slice(buffers, s, m)[m] = b
    BY <2>1 DEF Slice
  <2> HIDE DEF m, s, h, b
  <2> QED BY <1>5, <2>1, <2>2 DEF Cache!Calls!Ending
<1>8. Cache!Stock' = [Cache!Stock EXCEPT ![h] = Slice(buffers, s, m - 1)]
  BY <1>1, <1>3, CacheTypes, CacheMapped, CacheMappedNext
<1>9. Cache!FullSlabs' = Cache!FullSlabs
  BY SMTT(30), <1>1, CacheMapped, CacheMappedNext
<1>10. Cache!Collected' = Cache!Collected
  <2>1. \A u \in CacheThreads : Gathered(u)' = Gathered(u)
    BY SMTT(60), <1>1, <1>2 DEF Gathered
  <2> QED BY <2>1, CollectedKept
<1>11. /\ out'[h][b] = out[h][b] + 1 /\ out[h][b] \in Nat
       /\ \A g \in Cache!Halves, a \in Cache!Addresses : <<g, a>> # <<h, b>> => out'[g][a] = out[g][a]
  BY <1>1, <1>3, <1>4, CacheTypes
<1>12. Cache!HandedOut' = Cache!HandedOut \cup {b}
  <2> HIDE DEF b, h
  <2>1. out'[h][b] > 0
    BY <1>11
  <2>2. ASSUME NEW a, a # b
        PROVE  (a \in Cache!Addresses /\ \E g \in Cache!Halves : out'[g][a] > 0)
                 <=> (a \in Cache!Addresses /\ \E g \in Cache!Halves : out[g][a] > 0)
    BY <1>11, <2>2
  <2>3. \A a : a # b => (a \in Cache!HandedOut' <=> a \in Cache!HandedOut)
    BY <1>1, <1>2, <2>2, CacheHandedOut, CacheHandedOutNext
  <2>4. b \in Cache!HandedOut'
    BY <1>3, <1>4, <2>1, CacheHandedOutNext
  <2> QED BY <2>3, <2>4
<1>13. 1 \in 1..Len(Cache!Stock[h])
  BY <1>3, <1>5
<1> QED BY <1>6, <1>7, <1>8, <1>9, <1>10, <1>12, <1>13 DEF Cache!Calls!Take

\* A call that begins moves the buffer from the packet to the thread's hand.
LEMMA CallKeeps ==
  ASSUME CInv, NEW t \in CacheThreads, NEW b \in Cache!Addresses, Cache!Call(t, b)
  PROVE  UNCHANGED Cache!Calls!vars
<1> DEFINE h == OwnHalf[t]
<1>1. /\ out[h][b] > 0 /\ pc[t] = "idle"
      /\ pc' = [pc EXCEPT ![t] = IF nProd[h] < SlabSize THEN "store" ELSE "trade"]
      /\ out' = [out EXCEPT ![h][b] = out[h][b] - 1] /\ buffer' = [buffer EXCEPT ![t] = b]
      /\ UNCHANGED <<slabs, nSlabsAvailable, buffers, slabCons, nCons, slabProd, nProd>>
  BY DEF Cache!Call, Cache!Goto, Cache!consumer
<1>2. /\ pc'[t] \in {"store", "trade"} /\ buffer'[t] = b
      /\ \A u \in CacheThreads \ {t} : pc'[u] = pc[u] /\ buffer'[u] = buffer[u]
  BY <1>1, CacheTypes
<1>3. /\ h \in Cache!Halves /\ out[h][b] = 1
      /\ \A g \in Cache!Halves : out[g][b] # 0 => g = h
  <2>1. h \in Cache!Halves /\ out[h][b] # 0
    BY <1>1, CacheSizes
  <2> QED BY <2>1 DEF CInv, Exclusive
<1>4. /\ \A g \in Cache!Halves : out'[g][b] = 0
      /\ \A g \in Cache!Halves, a \in Cache!Addresses : a # b => out'[g][a] = out[g][a]
  BY <1>1, <1>3, CacheTypes
<1>5. UNCHANGED <<Cache!FullSlabs, Cache!Stock>>
  BY <1>1, CacheMapped, CacheMappedNext
<1>6. Cache!Collected' = Cache!Collected
  <2>1. Gathered(t)' = Gathered(t)
    BY <1>1, <1>2 DEF Gathered, InTrade
  <2>2. \A u \in CacheThreads \ {t} : Gathered(u)' = Gathered(u)
    BY <1>1, <1>2 DEF Gathered
  <2> QED BY <2>1, <2>2, CollectedKept
<1>7. Cache!HandedOut' = Cache!HandedOut
  <2>1. ASSUME NEW a, a # b PROVE a \in Cache!HandedOut' <=> a \in Cache!HandedOut
    <3>1. (\E u \in CacheThreads : pc'[u] \in Early /\ a = buffer'[u])
            <=> (\E u \in CacheThreads : pc[u] \in Early /\ a = buffer[u])
      BY <1>1, <1>2, <2>1 DEF Early
    <3>2. (a \in Cache!Addresses /\ \E g \in Cache!Halves : out'[g][a] > 0)
            <=> (a \in Cache!Addresses /\ \E g \in Cache!Halves : out[g][a] > 0)
      BY <1>4, <2>1
    <3> QED BY <3>1, <3>2, CacheHandedOut, CacheHandedOutNext
  <2>2. b \in Cache!HandedOut
    BY <1>1, <1>3, CacheHandedOut
  <2>3. b \in Cache!HandedOut'
    BY <1>2, CacheHandedOutNext DEF Early
  <2> QED BY <2>1, <2>2, <2>3
<1> QED BY <1>5, <1>6, <1>7 DEF Cache!Calls!vars

\* A buffer written behind those that count changes no sequence.
LEMMA WriteKeeps ==
  ASSUME CInv, NEW t \in CacheThreads, NEW e \in Cache!Entries, e = Filled(t),
         buffers' = [buffers EXCEPT ![CurrentSlab(t)][e] = buffer[t]],
         UNCHANGED <<slabs, nSlabsAvailable, slabCons, nCons, slabProd, nProd, buffer>>,
         \A u \in CacheThreads : pc'[u] \in InTrade <=> pc[u] \in InTrade
  PROVE  UNCHANGED <<Cache!FullSlabs, Cache!Stock, Cache!Collected>>
<1>1. /\ buffers \in [Cache!SlabIds -> [Cache!Entries -> Cache!Addresses]]
      /\ CurrentSlab(t) \in Cache!SlabIds
  BY CacheTypes, CurrentTypes
<1>2. /\ \A s \in Cache!SlabIds : s # CurrentSlab(t) => buffers'[s] = buffers[s]
      /\ \A i \in Cache!Entries : i # e => buffers'[CurrentSlab(t)][i] = buffers[CurrentSlab(t)][i]
  BY <1>1
<1>3. \A i \in 1..nSlabsAvailable : /\ slabs[i - 1] \in Cache!SlabIds
                                    /\ slabs[i - 1] # CurrentSlab(t)
  <2>1. \A i \in 1..nSlabsAvailable : i - 1 \in 0..(PoolSlots - 1) /\ i - 1 \in Cache!SlabIds
    <3>1. nSlabsAvailable \in 0..PoolSlots /\ PoolSlots \in Nat
      BY CacheTypes, CacheSizes
    <3> QED BY <3>1, CacheSets
  <2> QED BY <2>1, CacheTypes DEF CInv, SlabsApart
<1>4. Cache!FullSlabs' = Cache!FullSlabs
  <2>1. \A i \in 1..nSlabsAvailable :
           Slice(buffers', slabs[i - 1], SlabSize) = Slice(buffers, slabs[i - 1], SlabSize)
    BY <1>2, <1>3 DEF Slice
  <2> QED BY <2>1, CacheMapped, CacheMappedNext
<1>5. Cache!Stock' = Cache!Stock
  <2>1. \A h \in Cache!Halves : slabCons[h] \in Cache!SlabIds /\ slabCons[h] # CurrentSlab(t)
    BY CacheTypes DEF CInv, SlabsApart
  <2>2. \A h \in Cache!Halves :
           Slice(buffers', slabCons[h], nCons[h]) = Slice(buffers, slabCons[h], nCons[h])
    BY <1>2, <2>1 DEF Slice
  <2> QED BY <2>2, CacheMapped, CacheMappedNext
<1>6. Cache!Collected' = Cache!Collected
  <2>1. ASSUME NEW u \in CacheThreads PROVE Gathered(u)' = Gathered(u)
    <3> DEFINE s == slabProd[OwnHalf[u]]
               k == nProd[OwnHalf[u]]
    <3>1. CASE pc[u] \in InTrade
      BY <3>1 DEF Gathered
    <3>2. CASE pc[u] \notin InTrade
      <4>1. CurrentSlab(u) = s /\ Filled(u) = k
        BY <3>2 DEF CurrentSlab, Filled, InTrade
      <4>2. Slice(buffers', s, k) = Slice(buffers, s, k)
        <5>1. CASE u = t
          <6>1. k = e /\ k \in Nat /\ k < SlabSize /\ SlabSize \in Nat
            BY <4>1, <5>1, CacheSizes, CacheSets
          <6>2. \A i \in 1..k : i - 1 \in Cache!Entries /\ i - 1 # e
            BY <6>1, CacheSets
          <6> QED BY <1>2, <4>1, <5>1, <6>2 DEF Slice
        <5>2. CASE u # t
          <6>1. CurrentSlab(u) # CurrentSlab(t) /\ CurrentSlab(u) \in Cache!SlabIds
            BY <5>2, CurrentTypes DEF CInv, SlabsApart
          <6> QED BY <1>2, <4>1, <6>1 DEF Slice
        <5> QED BY <5>1, <5>2
      <4> QED BY <3>2, <4>2 DEF Gathered
    <3> QED BY <3>1, <3>2
  <2> QED BY <2>1, CollectedKept
<1> QED BY <1>4, <1>5, <1>6

\* slab_prod[n_buffers_prod] = buffer and slab_empty[0] = buffer
LEMMA StoresKeep ==
  ASSUME CInv, NEW t \in CacheThreads, Cache!Store(t) \/ Cache!StoreFirst(t)
  PROVE  UNCHANGED Cache!Calls!vars
<1>1. /\ pc' = [pc EXCEPT ![t] = IF pc[t] = "store" THEN "count" ELSE "adopt"]
      /\ pc[t] \in {"store", "first"}
      /\ UNCHANGED <<slabs, nSlabsAvailable, slabCons, nCons, slabProd, nProd, out, buffer>>
  BY DEF Cache!Store, Cache!StoreFirst, Cache!Goto, Cache!consumer
<1>2. \A u \in CacheThreads : /\ pc'[u] \in InTrade <=> pc[u] \in InTrade
                              /\ pc'[u] \in Early <=> pc[u] \in Early
  BY <1>1, CacheTypes DEF InTrade, Early
<1>3. PICK e \in Cache!Entries : /\ e = Filled(t)
                                 /\ buffers' = [buffers EXCEPT ![CurrentSlab(t)][e] = buffer[t]]
  <2>1. CASE Cache!Store(t)
    <3>1. pc[t] = "store" /\ buffers' = [buffers EXCEPT ![slabProd[OwnHalf[t]]][n[t]] = buffer[t]]
      BY <2>1 DEF Cache!Store, Cache!Goto
    <3>2. CurrentSlab(t) = slabProd[OwnHalf[t]] /\ n[t] = Filled(t) /\ n[t] < SlabSize
      BY <3>1 DEF CurrentSlab, Filled, CInv, Progress, ProgressOf
    <3>3. n[t] \in Cache!Entries
      <4>1. n[t] \in 0..SlabSize /\ SlabSize \in Nat
        BY CacheTypes, CacheSizes
      <4> QED BY <3>2, <4>1, CacheSets
    <3> QED BY <3>1, <3>2, <3>3
  <2>2. CASE Cache!StoreFirst(t)
    <3>1. pc[t] = "first" /\ buffers' = [buffers EXCEPT ![slabEmpty[t]][0] = buffer[t]]
      BY <2>2 DEF Cache!StoreFirst, Cache!Goto
    <3>2. CurrentSlab(t) = slabEmpty[t] /\ Filled(t) = 0 /\ 0 \in Cache!Entries
      BY <3>1, CacheSets, CacheSizes DEF CurrentSlab, Filled
    <3> QED BY <3>1, <3>2
  <2> QED BY <2>1, <2>2
<1>4. UNCHANGED <<Cache!FullSlabs, Cache!Stock, Cache!Collected>>
  BY <1>1, <1>2, <1>3, WriteKeeps
<1>5. Cache!HandedOut' = Cache!HandedOut
  BY <1>1, <1>2, HandedOutKept
<1> QED BY <1>4, <1>5 DEF Cache!Calls!vars

\* bc->slab_prod = slab_empty and bc->n_buffers_prod = 1: the new slab begins with the
\* buffer that was in the thread's hand.
LEMMA NewSlabKeeps ==
  ASSUME CInv, NEW t \in CacheThreads, Cache!Adopt(t) \/ Cache!Restart(t)
  PROVE  UNCHANGED Cache!Calls!vars
<1> DEFINE h == OwnHalf[t]
<1>1. /\ pc' = [pc EXCEPT ![t] = IF pc[t] = "adopt" THEN "restart" ELSE "idle"]
      /\ pc[t] \in {"adopt", "restart"}
      /\ UNCHANGED <<slabs, nSlabsAvailable, buffers, slabCons, nCons, out, buffer>>
      /\ pc[t] = "adopt" => slabProd' = [slabProd EXCEPT ![h] = slabEmpty[t]] /\ nProd' = nProd
      /\ pc[t] = "restart" => nProd' = [nProd EXCEPT ![h] = 1] /\ slabProd' = slabProd
  BY DEF Cache!Adopt, Cache!Restart, Cache!Goto, Cache!consumer
<1>2. /\ \A u \in CacheThreads \ {t} : pc'[u] = pc[u]
      /\ pc[t] = "adopt" => pc'[t] = "restart"
      /\ pc[t] = "restart" => pc'[t] = "idle"
  BY <1>1, CacheTypes
<1>3. UNCHANGED <<Cache!FullSlabs, Cache!Stock>>
  BY <1>1, CacheMapped, CacheMappedNext
<1>4. Gathered(t)' = Gathered(t)
  <2>1. CASE pc[t] = "adopt"
    BY <1>1, <1>2, <2>1 DEF Gathered, InTrade
  <2>2. CASE pc[t] = "restart"
    <3>1. nProd'[h] = 1 /\ slabProd' = slabProd /\ buffers[slabProd[h]][0] = buffer[t]
      BY <1>1, <2>2, CacheTypes, CacheSizes DEF CInv, Progress, ProgressOf
    <3>2. Slice(buffers', slabProd'[h], nProd'[h]) = <<buffer[t]>>
      <4>1. [i \in 1..1 |-> buffers[slabProd[h]][i - 1]] = <<buffer[t]>>
        BY <3>1
      <4> QED BY <1>1, <3>1, <4>1 DEF Slice
    <3> QED BY <1>2, <2>2, <3>2 DEF Gathered, InTrade
  <2> QED BY <1>1, <2>1, <2>2
<1>5. \A u \in CacheThreads \ {t} : Gathered(u)' = Gathered(u)
  <2>1. \A u \in CacheThreads \ {t} : /\ OwnHalf[u] \in Cache!Halves \ {h}
                                      /\ slabProd'[OwnHalf[u]] = slabProd[OwnHalf[u]]
                                      /\ nProd'[OwnHalf[u]] = nProd[OwnHalf[u]]
    BY <1>1, CacheSizes, CacheTypes
  <2> QED BY <1>1, <1>2, <2>1 DEF Gathered
<1>6. Cache!Collected' = Cache!Collected
  BY <1>4, <1>5, CollectedKept
<1>7. Cache!HandedOut' = Cache!HandedOut
  <2>1. \A u \in CacheThreads : pc'[u] \in Early <=> pc[u] \in Early
    BY <1>1, <1>2 DEF Early
  <2> QED BY <1>1, <2>1, HandedOutKept
<1> QED BY <1>3, <1>6, <1>7 DEF Cache!Calls!vars

\* bc->n_buffers_prod = n_buffers_prod + 1: the buffer is collected.
LEMMA CountGives ==
  ASSUME CInv, NEW t \in CacheThreads, Cache!Count(t)
  PROVE  Cache!Calls!Give(OwnHalf[t], buffer[t])
<1> DEFINE h == OwnHalf[t]
           s == slabProd[h]
           k == nProd[h]
           b == buffer[t]
<1>1. /\ pc[t] = "count" /\ pc' = [pc EXCEPT ![t] = "idle"]
      /\ nProd' = [nProd EXCEPT ![h] = n[t] + 1]
      /\ UNCHANGED <<slabs, nSlabsAvailable, buffers, slabCons, nCons, slabProd, out, buffer>>
  BY DEF Cache!Count, Cache!Goto, Cache!consumer
<1>2. /\ pc'[t] = "idle" /\ \A u \in CacheThreads \ {t} : pc'[u] = pc[u]
      /\ n[t] = k /\ k < SlabSize /\ buffers[s][k] = b
  BY <1>1, CacheTypes DEF CInv, Progress, ProgressOf
<1>3. /\ h \in Cache!Halves /\ k \in 0..SlabSize /\ k \in Nat /\ s \in Cache!SlabIds
      /\ nProd'[h] = k + 1
      /\ \A g \in Cache!Halves \ {h} : nProd'[g] = nProd[g]
  <2>1. h \in Cache!Halves /\ k \in 0..SlabSize /\ SlabSize \in Nat
    BY CacheTypes, CacheSizes
  <2> QED BY <1>1, <1>2, <2>1, CacheTypes
<1>4. UNCHANGED <<Cache!FullSlabs, Cache!Stock>>
  BY <1>1, CacheMapped, CacheMappedNext
<1>5. Cache!Collected[h] = Slice(buffers, s, k) /\ Len(Cache!Collected[h]) = k
  <2>1. Cache!Collected[h] = Slice(buffers, s, k)
    BY <1>1, CollectedByThread DEF Gathered, InTrade
  <2> QED BY <1>3, <2>1, SlabContents
<1>6. Gathered(t)' = Append(Cache!Collected[h], b)
  <2>1. Gathered(t)' = Slice(buffers, s, k + 1)
    BY <1>1, <1>2, <1>3 DEF Gathered, InTrade
  <2>2. k \in Nat
    BY <1>3
  <2> HIDE DEF s, k, b, h
  <2>3. Slice(buffers, s, k + 1) = Append(Slice(buffers, s, k), buffers[s][k])
    BY <2>2, SliceGrown
  <2> QED BY <1>2, <1>5, <2>1, <2>3
<1>7. \A u \in CacheThreads \ {t} : Gathered(u)' = Gathered(u)
  <2>1. \A u \in CacheThreads \ {t} : OwnHalf[u] \in Cache!Halves \ {h}
    BY CacheSizes
  <2> QED BY <1>1, <1>2, <1>3, <2>1 DEF Gathered
<1>8. Cache!Collected' = [Cache!Collected EXCEPT ![h] = Append(Cache!Collected[h], b)]
  BY <1>6, <1>7, CollectedStep
<1>9. b \in Cache!HandedOut /\ Cache!HandedOut' = Cache!HandedOut \ {b}
  BY <1>1, <1>2, HandedIn DEF Early
<1> HIDE DEF s, k, b, h
<1>10. Len(Cache!Collected[h]) < SlabSize
  BY <1>2, <1>5
<1> QED BY <1>4, <1>8, <1>9, <1>10 DEF Cache!Calls!Give, b, h

\* The critical section: the full slab joins the pool, and the buffer in the thread's
\* hand begins the next one.
LEMMA TradeGives ==
  ASSUME CInv, NEW t \in CacheThreads, Cache!Trade(t)
  PROVE  Cache!Calls!Give(OwnHalf[t], buffer[t])
<1> DEFINE h == OwnHalf[t]
           s == slabProd[h]
           k == nSlabsAvailable
           b == buffer[t]
<1>1. /\ pc[t] = "trade" /\ pc' = [pc EXCEPT ![t] = "first"]
      /\ slabs' = [slabs EXCEPT ![k] = s] /\ nSlabsAvailable' = k + 1
      /\ UNCHANGED <<buffers, slabCons, nCons, slabProd, nProd, out, buffer>>
  BY DEF Cache!Trade, Cache!Goto, Cache!consumer
<1>2. /\ pc'[t] = "first" /\ \A u \in CacheThreads \ {t} : pc'[u] = pc[u]
      /\ nProd[h] = SlabSize
  BY <1>1, CacheTypes DEF CInv, Progress, ProgressOf
<1>3. /\ h \in Cache!Halves /\ s \in Cache!SlabIds /\ SlabSize \in 0..SlabSize
      /\ k \in Nat /\ k \in Cache!SlabIds
  <2>1. k \in 0..PoolSlots /\ PoolSlots \in Nat /\ SlabSize \in Nat
    BY CacheTypes, CacheSizes
  <2>2. SlabSize \in 0..SlabSize /\ k \in Nat /\ k \in 0..(PoolSlots + 3)
    BY <2>1
  <2>3. h \in Cache!Halves /\ Cache!SlabIds = 0..(PoolSlots + 3)
    BY CacheSizes, CacheSets
  <2>4. s \in Cache!SlabIds
    BY <2>3, CacheTypes
  <2> QED BY <2>2, <2>3, <2>4
<1>4. Cache!Stock' = Cache!Stock
  BY <1>1, CacheMapped, CacheMappedNext
<1>5. Cache!Collected[h] = Slice(buffers, s, SlabSize) /\ Len(Cache!Collected[h]) = SlabSize
  <2>1. Cache!Collected[h] = Slice(buffers, s, SlabSize)
    BY <1>1, <1>2, CollectedByThread DEF Gathered, InTrade
  <2> QED BY <1>3, <2>1, SlabContents
<1>6. Cache!FullSlabs' = Append(Cache!FullSlabs, Cache!Collected[h])
  <2> DEFINE F == Cache!FullSlabs
             S == Cache!Calls!Slabs
             c == Cache!Collected[h]
  <2>1. k \in Nat /\ F \in [1..k -> S] /\ c \in S
    <3>1. Slice(buffers, s, SlabSize) \in S
      BY <1>3, SlabContents DEF Cache!Calls!Slabs
    <3> QED BY <1>5, <3>1, PoolContents
  <2>2. \A i \in 1..k : F[i] = Slice(buffers, slabs[i - 1], SlabSize)
    BY CacheMapped
  <2>3. ASSUME NEW i \in 1..(k + 1)
        PROVE  Slice(buffers, slabs'[i - 1], SlabSize) = IF i = k + 1 THEN c ELSE F[i]
    <3>1. CASE i = k + 1
      <4>1. slabs'[i - 1] = s
        BY <1>1, <1>3, <3>1, CacheTypes
      <4> QED BY <1>5, <3>1, <4>1
    <3>2. CASE i # k + 1
      <4>1. i \in 1..k /\ i - 1 # k
        BY <1>3, <3>2
      <4>2. slabs'[i - 1] = slabs[i - 1]
        BY <1>1, <4>1, CacheTypes
      <4> QED BY <2>2, <3>2, <4>1, <4>2
    <3> QED BY <3>1, <3>2
  <2>4. Cache!FullSlabs' = [i \in 1..(k + 1) |-> Slice(buffers, slabs'[i - 1], SlabSize)]
    BY <1>1, CacheMappedNext
  <2> HIDE DEF F, S, c, k
  <2>5. Append(F, c) = [i \in 1..(k + 1) |-> IF i = k + 1 THEN c ELSE F[i]]
    BY <2>1, Appended
  <2>6. Cache!FullSlabs' = [i \in 1..(k + 1) |-> IF i = k + 1 THEN c ELSE F[i]]
    BY <2>3, <2>4
  <2> QED BY <2>5, <2>6 DEF F, c
<1>7. Gathered(t)' = <<b>>
  BY <1>1, <1>2 DEF Gathered, InTrade
<1>8. \A u \in CacheThreads \ {t} : Gathered(u)' = Gathered(u)
  BY <1>1, <1>2 DEF Gathered
<1>9. Cache!Collected' = [Cache!Collected EXCEPT ![h] = <<b>>]
  BY <1>7, <1>8, CollectedStep
<1>10. b \in Cache!HandedOut /\ Cache!HandedOut' = Cache!HandedOut \ {b}
  BY <1>1, <1>2, HandedIn DEF Early
<1> HIDE DEF s, k, b, h
<1> QED BY <1>4, <1>5, <1>6, <1>9, <1>10 DEF Cache!Calls!Give, b, h

\* In the beginning the pool and one stock hold different buffers, and nothing is out.
LEMMA CacheCallsInit == Cache!Init => Cache!Calls!Init
<1> SUFFICES ASSUME Cache!Init PROVE Cache!Calls!Init
  OBVIOUS
<1> DEFINE F == Cache!FullSlabs
           S == Cache!Stock
<1>1. CInv
  BY CInvInit
<1>2. /\ \A s \in Cache!SlabIds, e \in Cache!Entries : buffers[s][e] = <<s, e>>
      /\ \A s \in Cache!SlabIds : slabs[s] = s
      /\ nSlabsAvailable = PoolSlots
      /\ slabCons = [h \in Cache!Halves |-> PoolSlots + 3 - 2 * h]
      /\ nCons = [h \in Cache!Halves |-> IF h = 0 THEN 0 ELSE SlabSize]
      /\ nProd = [h \in Cache!Halves |-> 0]
      /\ pc = [t \in CacheThreads |-> "idle"]
      /\ out = [h \in Cache!Halves |-> [b \in Cache!Addresses |-> 0]]
  BY CacheSizes DEF Cache!Init, Cache!ConsAtInit
<1>3. /\ PoolSlots \in Nat \ {0} /\ SlabSize \in Nat \ {0} /\ Cache!Halves = {0, 1}
      /\ \A i \in 1..PoolSlots : i - 1 \in Cache!SlabIds /\ i - 1 # PoolSlots + 1
      /\ \A i \in 1..SlabSize : i - 1 \in Cache!Entries
      /\ PoolSlots + 1 \in Cache!SlabIds
  BY CacheSizes, CacheSets
<1>4. F \in [1..PoolSlots -> Cache!Calls!Slabs] /\ Len(F) = PoolSlots
  BY <1>1, <1>2, PoolContents
<1>5. F \in Seq(Cache!Calls!Slabs)
  <2> DEFINE D == Cache!Calls!Slabs
  <2>1. F \in [1..PoolSlots -> D] /\ PoolSlots \in Nat
    BY <1>3, <1>4
  <2> HIDE DEF F, D
  <2>2. F \in Seq(D)
    BY <2>1, SeqDef
  <2> QED BY <2>2 DEF D
<1>6. \A i \in 1..PoolSlots, k \in 1..SlabSize : F[i][k] = <<i - 1, k - 1>>
  BY <1>2, <1>3, CacheMapped DEF Slice
<1>7. /\ S[0] = << >> /\ S[1] = Slice(buffers, PoolSlots + 1, SlabSize)
      /\ S = [h \in {0, 1} |-> S[h]]
  <2>1. Slice(buffers, PoolSlots + 3, 0) = << >>
    BY <1>1, CacheSets, CacheSizes, SlabContents
  <2>2. S = [h \in {0, 1} |-> Slice(buffers, slabCons[h], nCons[h])]
    BY <1>3, CacheMapped
  <2>3. /\ slabCons[0] = PoolSlots + 3 /\ nCons[0] = 0
        /\ slabCons[1] = PoolSlots + 1 /\ nCons[1] = SlabSize
    BY <1>2, <1>3
  <2> HIDE DEF S
  <2> QED BY <2>1, <2>2, <2>3
<1>8. /\ S[1] \in Cache!Calls!Slabs /\ Len(S[1]) = SlabSize
      /\ \A k \in 1..SlabSize : S[1][k] = <<PoolSlots + 1, k - 1>>
  <2>1. SlabSize \in 0..SlabSize
    BY <1>3
  <2>2. \A k \in 1..SlabSize : Slice(buffers, PoolSlots + 1, SlabSize)[k] = <<PoolSlots + 1, k - 1>>
    BY <1>2, <1>3 DEF Slice
  <2> HIDE DEF S
  <2> QED BY <1>1, <1>3, <1>7, <2>1, <2>2, SlabContents DEF Cache!Calls!Slabs
<1>9. S \in [Cache!Halves -> {<< >>} \cup Cache!Calls!Slabs]
  <2> HIDE DEF S
  <2> QED BY <1>3, <1>7, <1>8
<1>10. Cache!Collected = [h \in Cache!Halves |-> << >>]
  <2>1. \A t \in CacheThreads : Gathered(t) = << >>
    <3>1. ASSUME NEW t \in CacheThreads PROVE Slice(buffers, slabProd[OwnHalf[t]], 0) = << >>
      <4>1. slabProd[OwnHalf[t]] \in Cache!SlabIds
        BY <1>1, CacheTypes, CacheSizes
      <4>2. 0 \in 0..SlabSize
        BY <1>3
      <4> QED BY <1>1, <4>1, <4>2, SlabContents
    <3>2. \A t \in CacheThreads : nProd[OwnHalf[t]] = 0 /\ pc[t] \notin InTrade
      BY <1>2, CacheSizes DEF InTrade
    <3> QED BY <3>1, <3>2 DEF Gathered
  <2> DEFINE C == Cache!Collected
  <2>2. C = [h \in Cache!Halves |-> C[h]] /\ \A t \in CacheThreads : C[OwnHalf[t]] = << >>
    BY <2>1, CollectedByThread
  <2> HIDE DEF C
  <2>3. \A h \in Cache!Halves : C[h] = << >>
    BY SMTT(60), <2>2, CacheSizes
  <2> QED BY <2>2, <2>3 DEF C
<1>11. Cache!HandedOut = {}
  <2>1. \A b : b \notin Cache!HandedOut
    BY <1>2, CacheHandedOut DEF Early
  <2> QED BY <2>1
<1>12. \A i, j \in 1..PoolSlots, k, l \in 1..SlabSize : F[i][k] = F[j][l] => i = j /\ k = l
  <2> SUFFICES ASSUME NEW i \in 1..PoolSlots, NEW j \in 1..PoolSlots, NEW k \in 1..SlabSize,
                      NEW l \in 1..SlabSize, F[i][k] = F[j][l]
               PROVE  i = j /\ k = l
    OBVIOUS
  <2> HIDE DEF F
  <2>1. <<i - 1, k - 1>> = <<j - 1, l - 1>>
    BY <1>6
  <2>2. i - 1 = j - 1 /\ k - 1 = l - 1
    BY <2>1
  <2> QED BY <1>3, <2>2
<1>13. 1..Len(S[0]) = {} /\ 1..Len(S[1]) = 1..SlabSize
  <2>1. 1..Len(<< >>) = {}
    BY EmptySeq
  <2> HIDE DEF S
  <2> QED BY <1>7, <1>8, <2>1
<1>14. \A g, h \in Cache!Halves : \A k \in 1..Len(S[g]), l \in 1..Len(S[h]) :
          S[g][k] = S[h][l] => g = h /\ k = l
  <2> HIDE DEF S
  <2>1. ASSUME NEW k \in 1..SlabSize, NEW l \in 1..SlabSize, S[1][k] = S[1][l] PROVE k = l
    <3>1. k - 1 = l - 1
      BY <1>8, <2>1
    <3> QED BY <1>3, <3>1
  <2> QED BY SMTT(60), <1>3, <1>13, <2>1
<1>15. \A i \in 1..PoolSlots, h \in Cache!Halves : \A k \in 1..SlabSize, l \in 1..Len(S[h]) :
          F[i][k] # S[h][l]
  <2> HIDE DEF F, S
  <2>1. \A i \in 1..PoolSlots, k \in 1..SlabSize, l \in 1..SlabSize : F[i][k] # S[1][l]
    BY <1>3, <1>6, <1>8
  <2> QED BY SMTT(30), <1>3, <1>13, <2>1
<1> HIDE DEF F, S
<1>16. /\ F \in Seq(Cache!Calls!Slabs) /\ Len(F) = PoolSlots
       /\ S \in [Cache!Halves -> {<< >>} \cup Cache!Calls!Slabs]
  BY <1>4, <1>5, <1>9
<1> QED BY <1>10, <1>11, <1>12, <1>14, <1>15, <1>16 DEF Cache!Calls!Init, F, S

\* Every step of a thread is a call, or changes nothing that a caller sees.
LEMMA CacheCallsStep ==
  CInv /\ [Cache!Next]_(Cache!vars) => [Cache!Calls!Next]_(Cache!Calls!vars)
<1> SUFFICES ASSUME CInv, [Cache!Next]_(Cache!vars)
             PROVE  Cache!Calls!Next \/ UNCHANGED Cache!Calls!vars
  OBVIOUS
<1>1. CASE Cache!Next
  <2>1. PICK t \in CacheThreads :
          \/ Cache!ConsCheckTrade(t) \/ Cache!Cons(t)
          \/ \E b \in Cache!Addresses : Cache!Call(t, b)
          \/ Cache!Store(t) \/ Cache!Count(t)
          \/ Cache!Trade(t) \/ Cache!StoreFirst(t) \/ Cache!Adopt(t) \/ Cache!Restart(t)
    BY <1>1 DEF Cache!Next
  <2>2. OwnHalf[t] \in Cache!Halves
    BY CacheSizes
  <2>3. CASE Cache!ConsCheckTrade(t)
    BY <2>2, <2>3, ConsTradeTrades DEF Cache!Calls!Next
  <2>4. CASE Cache!Cons(t)
    BY <2>2, <2>4, ConsTakes DEF Cache!Calls!Next
  <2>5. CASE Cache!Count(t) \/ Cache!Trade(t)
    <3>1. Cache!Calls!Give(OwnHalf[t], buffer[t])
      BY <2>5, CountGives, TradeGives
    <3>2. buffer[t] \in Cache!HandedOut
      BY <3>1 DEF Cache!Calls!Give
    <3> QED BY <2>2, <3>1, <3>2 DEF Cache!Calls!Next
  <2> QED BY <2>1, <2>3, <2>4, <2>5, CallKeeps, StoresKeep, NewSlabKeeps
<1>2. CASE UNCHANGED Cache!vars
  <2>1. UNCHANGED <<slabs, nSlabsAvailable, buffers, slabCons, nCons, slabProd, nProd, out, pc,
                    buffer>>
    BY <1>2 DEF Cache!vars, Cache!consumer
  <2>2. UNCHANGED <<Cache!FullSlabs, Cache!Stock>>
    BY <2>1, CacheMapped, CacheMappedNext
  <2>3. \A u \in CacheThreads : Gathered(u)' = Gathered(u)
    BY <2>1 DEF Gathered
  <2>4. Cache!HandedOut' = Cache!HandedOut
    BY <2>1, HandedOutKept
  <2> QED BY <2>2, <2>3, <2>4, CollectedKept DEF Cache!Calls!vars
<1> QED BY <1>1, <1>2

\* The calls of the receive and the transmit thread, which share the pool, are as good
\* as single steps, although only the trade of a full slab is under the lock.
THEOREM CacheCallsAreAtomic == Cache!Spec => CacheImplementsCalls
<1>1. Cache!Spec => []CInv
  BY CacheInvariant
<1> QED BY <1>1, CacheCallsInit, CacheCallsStep, PTL
        DEF Cache!Spec, CacheImplementsCalls, Cache!ImplementsCalls, Cache!Calls!Spec
=============================================================================
