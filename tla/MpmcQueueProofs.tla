--------------------------- MODULE MpmcQueueProofs --------------------------
(***************************************************************************)
(* Proofs about MpmcQueue, for any number of threads and cells and any     *)
(* width of a size_t that the pushes of a behaviour do not exhaust.        *)
(*                                                                         *)
(* Positions wrap, so the proofs speak of the age of a position: how many  *)
(* positions it is past Start.                                             *)
(***************************************************************************)
EXTENDS MpmcQueue, DataLemmas

-----------------------------------------------------------------------------
Age(x) == Minus(x, Start)

\* The cell that descriptors of age k go through
CellOf(k) == (Start + k) % Size

LEMMA Sizes ==
  /\ Size \in Nat \ {0} /\ Size >= 2
  /\ SizeT \in Nat \ {0} /\ Start \in Positions /\ Start \in Int
  /\ SizeT \div 2 \in Nat /\ 2 * (SizeT \div 2) <= SizeT /\ SizeT < 2 * (SizeT \div 2) + 2
  /\ \E k \in Nat \ {0} : SizeT = Size * k
<1>1. Size \in Nat \ {0} /\ Size >= 2 /\ SizeT \in Nat
  BY QueueAssumption
<1>2. Start \in Positions /\ Start \in Int
  BY <1>1, QueueAssumption DEF Positions
<1>3. SizeT \in Nat \ {0}
  BY <1>1, <1>2 DEF Positions
<1>4. SizeT \div 2 \in Int /\ SizeT = 2 * (SizeT \div 2) + (SizeT % 2) /\ (SizeT % 2) \in 0..1
  BY <1>3
<1>5. SizeT \div 2 \in Nat
  BY <1>3, <1>4
<1> DEFINE k == SizeT \div Size
<1>6. SizeT = Size * k /\ k \in Int
  <2>1. SizeT = Size * k + (SizeT % Size) /\ k \in Int
    BY <1>1, Division
  <2>2. SizeT % Size = 0
    BY QueueAssumption
  <2> HIDE DEF k
  <2>3. Size * k \in Int
    BY <1>1, <2>1, Distributive
  <2> QED BY <2>1, <2>2, <2>3
<1> HIDE DEF k
<1>7. k >= 1
  <2> SUFFICES ASSUME k <= 0 PROVE FALSE
    BY <1>6
  <2>1. Size * k <= 0
    BY <1>1, <1>6, Z3
  <2> QED BY <1>3, <1>6, <2>1
<1> QED BY <1>1, <1>2, <1>3, <1>4, <1>5, <1>6, <1>7

LEMMA AgeType ==
  ASSUME NEW x \in Positions
  PROVE  Age(x) \in Positions /\ x \in Int /\ Age(x) \in Nat
  BY Sizes, Division DEF Age, Minus, Positions

LEMMA Small ==
  ASSUME NEW k \in Positions
  PROVE  k % SizeT = k
<1>1. k = SizeT * 0 + k /\ k \in 0..(SizeT - 1) /\ k \in Int /\ SizeT \in Nat \ {0}
  BY Sizes DEF Positions
<1> QED BY <1>1, Remainder

\* Positions differ by what their ages differ.
LEMMA MinusAge ==
  ASSUME NEW a \in Positions, NEW b \in Positions
  PROVE  Minus(a, b) = IF Age(a) >= Age(b) THEN Age(a) - Age(b)
                       ELSE SizeT + (Age(a) - Age(b))
<1> DEFINE s == a - Start
           t == b - Start
           u == Age(a)
           v == Age(b)
<1>1. s \in Int /\ t \in Int /\ SizeT \in Nat \ {0} /\ u \in 0..(SizeT - 1) /\ v \in 0..(SizeT - 1)
  BY Sizes, AgeType DEF Positions
<1>2. u = s % SizeT /\ v = t % SizeT /\ a - b = s + (-t)
  BY AgeType, Sizes DEF Age, Minus
<1> HIDE DEF s, t, u, v
<1>3. Minus(a, b) = (s - t) % SizeT
  BY <1>1, <1>2 DEF Minus
<1>4. (s - t) % SizeT = (s - v) % SizeT
  BY <1>1, <1>2, Subtracted
<1>5. (s - v) % SizeT = (u - v) % SizeT
  <2> DEFINE w == -v
  <2>1. w \in Int /\ s - v = s + w /\ u - v = u + w
    BY <1>1
  <2> HIDE DEF w
  <2>2. ((s % SizeT) + w) % SizeT = (s + w) % SizeT
    BY <1>1, <2>1, Reduced
  <2> QED BY <1>2, <2>1, <2>2
<1>6. CASE u >= v
  <2>1. u - v \in Positions
    BY <1>1, <1>6 DEF Positions
  <2>2. (u - v) % SizeT = u - v
    BY <2>1, Small
  <2> QED BY <1>3, <1>4, <1>5, <1>6, <2>2 DEF u, v
<1>7. CASE u < v
  <2> DEFINE r == SizeT + (u - v)
  <2>1. r \in 0..(SizeT - 1) /\ u - v \in Int /\ u - v = SizeT * (-1) + r /\ -1 \in Int /\ r \in Int
    BY <1>1, <1>7
  <2> HIDE DEF r
  <2>2. (u - v) % SizeT = r
    BY <1>1, <2>1, Remainder
  <2> QED BY <1>1, <1>3, <1>4, <1>5, <1>7, <2>2 DEF u, v, r
<1> QED BY <1>1, <1>6, <1>7

LEMMA AgeInjective ==
  ASSUME NEW a \in Positions, NEW b \in Positions, Age(a) = Age(b)
  PROVE  a = b
<1>1. (a - b) % SizeT = 0
  BY MinusAge, AgeType DEF Minus
<1>2. a \in 0..(SizeT - 1) /\ b \in 0..(SizeT - 1) /\ SizeT \in Nat \ {0}
  BY Sizes DEF Positions
<1>3. CASE a >= b
  <2>1. a - b \in Positions
    BY <1>2, <1>3 DEF Positions
  <2>2. a - b = 0
    BY <1>1, <2>1, Small
  <2> QED BY <1>2, <2>2
<1>4. CASE a < b
  <2> DEFINE r == SizeT + (a - b)
  <2>1. r \in 0..(SizeT - 1) /\ a - b \in Int /\ a - b = SizeT * (-1) + r /\ -1 \in Int
    BY <1>2, <1>4
  <2>3. r > 0
    BY <1>2, <1>4
  <2> HIDE DEF r
  <2>2. (a - b) % SizeT = r
    BY <1>2, <2>1, Remainder
  <2> QED BY <1>1, <2>2, <2>3
<1> QED BY <1>2, <1>3, <1>4

\* The signed difference of two positions less than half the range apart
LEMMA DiffAge ==
  ASSUME NEW a \in Positions, NEW b \in Positions,
         Age(a) - Age(b) < SizeT \div 2, Age(b) - Age(a) < SizeT \div 2
  PROVE  Diff(a, b) = Age(a) - Age(b)
<1>1. Age(a) \in Nat /\ Age(b) \in Nat
  BY AgeType
<1>2. SizeT \in Nat /\ SizeT \div 2 \in Nat /\ 2 * (SizeT \div 2) <= SizeT
  BY Sizes
<1> QED BY <1>1, <1>2, MinusAge DEF Diff

LEMMA AgePlus ==
  ASSUME NEW a \in Positions, NEW m \in Nat, Age(a) + m < SizeT
  PROVE  Plus(a, m) \in Positions /\ Age(Plus(a, m)) = Age(a) + m
<1> DEFINE s == a + m
           t == a - Start
<1>1. s \in Int /\ t \in Int /\ SizeT \in Nat \ {0} /\ Start \in Int /\ a \in Int
  BY Sizes, AgeType
<1>2. Plus(a, m) \in Positions
  BY <1>1, Division DEF Plus, Positions
<1>3. Age(Plus(a, m)) = (s - Start) % SizeT
  <2> DEFINE w == -Start
  <2>1. w \in Int /\ s - Start = s + w /\ (s % SizeT) - Start = (s % SizeT) + w
        /\ (s % SizeT) \in Int
    BY <1>1, Division
  <2> HIDE DEF s, w
  <2>2. ((s % SizeT) + w) % SizeT = (s + w) % SizeT
    BY <1>1, <2>1, Reduced
  <2> QED BY <2>1, <2>2 DEF s, Age, Minus, Plus
<1>4. s - Start = t + m
  BY <1>1
<1>5. ((t % SizeT) + m) % SizeT = (t + m) % SizeT
  <2>1. m \in Int
    OBVIOUS
  <2> HIDE DEF t
  <2> QED BY <1>1, <2>1, Reduced
<1>6. Age(a) + m \in Positions
  <2>1. Age(a) \in Nat
    BY AgeType
  <2> QED BY <1>1, <2>1 DEF Positions
<1> QED BY <1>2, <1>3, <1>4, <1>5, <1>6, Small DEF Age, Minus

LEMMA CellAge ==
  ASSUME NEW a \in Positions
  PROVE  Cell(a) = CellOf(Age(a)) /\ Cell(a) \in Cells
<1> DEFINE t == a - Start
<1>1. a \in Int /\ Start \in Int /\ Size \in Nat \ {0} /\ t \in Int /\ Age(a) \in Int
  BY Sizes, AgeType
<1>2. PICK k \in Nat \ {0} : SizeT = Size * k
  BY Sizes
<1>3. Age(a) % Size = t % Size
  <2>1. Age(a) = t % (Size * k)
    BY <1>2 DEF Age, Minus
  <2> HIDE DEF t
  <2> QED BY ZenonT(60), <1>1, <1>2, <2>1, Wrapped
<1>4. ((Age(a) % Size) + Start) % Size = (Age(a) + Start) % Size
  BY <1>1, Reduced
<1>5. ((t % Size) + Start) % Size = (t + Start) % Size
  <2> HIDE DEF t
  <2> QED BY <1>1, Reduced
<1>6. t + Start = a /\ Age(a) + Start = Start + Age(a)
  BY <1>1
<1>7. Cell(a) \in Cells
  BY <1>1, Division DEF Cell, Cells
<1> QED BY <1>3, <1>4, <1>5, <1>6, <1>7 DEF Cell, CellOf

\* Ages less than Size apart go through different cells.
LEMMA CellsDistinct ==
  ASSUME NEW i \in Int, NEW j \in Int, i - j < Size, j - i < Size, CellOf(i) = CellOf(j)
  PROVE  i = j
<1> DEFINE x == Start + i
           y == Start + j
           c == x \div Size
           d == y \div Size
<1>1. x \in Int /\ y \in Int /\ Size \in Nat \ {0} /\ x - y = i - j
  BY Sizes
<1> HIDE DEF x, y
<1>2. x = Size * c + (x % Size) /\ y = Size * d + (y % Size) /\ c \in Int /\ d \in Int
      /\ (x % Size) \in Int
  BY <1>1, Division
<1>3. x % Size = y % Size
  BY DEF CellOf, x, y
<1> HIDE DEF c, d
<1>4. Size * (c - d) = Size * c - Size * d /\ Size * c \in Int /\ Size * d \in Int
  BY <1>1, <1>2, Distributive
<1>5. Size * (c - d) = i - j
  BY <1>1, <1>2, <1>3, <1>4
<1>6. c - d = 0
  BY <1>1, <1>2, <1>5, Product
<1>7. Size * 0 = 0
  BY <1>1
<1> QED BY <1>1, <1>5, <1>6, <1>7

\* Of Size ages in a row one goes through the cell of x.
LEMMA CellOfLap ==
  ASSUME NEW x \in Int, NEW h \in Int
  PROVE  /\ CellOf(x + Size) = CellOf(x)
         /\ \E k \in h..(h + Size - 1) : CellOf(k) = CellOf(x) /\ (k > x => k >= x + Size)
<1> DEFINE s == x - h
           r == s % Size
           d == s \div Size
           k == h + r
<1>1. s \in Int /\ Size \in Nat \ {0} /\ Start \in Int
  BY Sizes
<1>2. s = Size * d + r /\ d \in Int /\ r \in 0..(Size - 1)
  <2> HIDE DEF s
  <2> QED BY <1>1, Division
<1> HIDE DEF r, d
<1>3. Size * d \in Int /\ k \in h..(h + Size - 1) /\ k \in Int /\ k = x - Size * d
  BY <1>1, <1>2, Distributive
<1>4. CellOf(x + Size) = CellOf(x)
  <2> DEFINE y == Start + x
  <2>1. y \in Int /\ Start + (x + Size) = y + Size * 1 /\ 1 \in Int
    BY <1>1
  <2> HIDE DEF y
  <2>2. (y + Size * 1) % Size = y % Size
    BY <1>1, <2>1, Congruent
  <2> QED BY <2>1, <2>2 DEF CellOf, y
<1>5. CellOf(k) = CellOf(x)
  <2> DEFINE y == Start + k
  <2>1. y \in Int /\ Start + x = y + Size * d
    BY <1>1, <1>3
  <2> HIDE DEF y
  <2>2. (y + Size * d) % Size = y % Size
    BY <1>1, <1>2, <2>1, Congruent
  <2> QED BY <2>1, <2>2 DEF CellOf, y
<1>6. ASSUME k > x PROVE k >= x + Size
  <2>1. k - x = -(Size * d) /\ -(Size * d) = Size * (-d)
    BY <1>1, <1>2, <1>3, Z3
  <2>2. d # 0
    BY <1>1, <1>3, <1>6
  <2>3. d <= -1
    <3> SUFFICES ASSUME d >= 1 PROVE FALSE
      BY <1>2, <2>2
    <3>1. Size * d >= 0
      BY <1>1, <1>2, Z3
    <3> QED BY <1>3, <1>6, <3>1
  <2>4. Size * d <= -Size
    BY <1>1, <1>2, <2>3, Z3
  <2> QED BY <1>1, <1>3, <2>4
<1> QED BY <1>3, <1>4, <1>5, <1>6

-----------------------------------------------------------------------------
(* How far the two counters have come, and a cell's sequence, as ages *)
T == Age(tail)
H == Age(head)
Seqn(k) == Age(sequence[CellOf(k)])

\* Pushes begun, and producers that may still claim a position
Begun == {v \in Values : v[2] <= pushes[v[1]]}
Trying == {p \in Producers : pc[p] \in {"pushSeq", "pushReload", "pushCas"}}

\* The counters do not wrap onto themselves: every claim uses up a push.
Counters ==
  /\ H <= T /\ T <= H + Size
  /\ T + Cardinality(Trying) <= Cardinality(Begun)

\* Each thread is in the code of its kind.
Roles ==
  /\ \A p \in Producers :
       pc[p] \in {"idle", "pushSeq", "pushReload", "pushCas", "pushWrite", "pushPublish"}
  /\ \A c \in Consumers :
       pc[c] \in {"idle", "availHead", "availTail", "pullStart", "pullSeq",
                  "pullReload", "pullCas", "pullRead", "pullRelease"}

\* A cell of the lap that starts at head is published, or claimed and not yet
\* published; or it is free, or claimed by a consumer and not yet released.
CellStates ==
  \A k \in H..(H + Size - 1) :
    \/ k < T /\ Seqn(k) = k + 1
    \/ k < T /\ Seqn(k) = k /\ \E p \in Producers : p \in Owners /\ Age(pos[p]) = k
    \/ k >= T /\ Seqn(k) = k
    \/ k >= T /\ Seqn(k) = k - Size + 1
         /\ \E c \in Consumers : c \in Owners /\ Age(pos[c]) = k - Size

\* What a producer knows about its position
ProducerPlace ==
  \A p \in Producers :
    /\ p \in Trying => Age(pos[p]) <= T
    /\ pc[p] = "pushCas" /\ pos[p] = tail => sequence[Cell(pos[p])] = pos[p]
    /\ p \in Owners => H <= Age(pos[p]) /\ Age(pos[p]) < T /\ sequence[Cell(pos[p])] = pos[p]

\* What a consumer knows about its position
ConsumerPlace ==
  \A c \in Consumers :
    /\ pc[c] \in {"pullSeq", "pullReload", "pullCas"} => Age(pos[c]) <= H
    /\ pc[c] = "pullCas" /\ pos[c] = head => sequence[Cell(pos[c])] = Plus(pos[c], 1)
    /\ c \in Owners => T - Size <= Age(pos[c]) /\ Age(pos[c]) < H
                       /\ sequence[Cell(pos[c])] = Plus(pos[c], 1)

\* A position has one owner.
OwnersDiffer ==
  \A s, t \in Owners : pos[s] = pos[t] => s = t

IInv ==
  /\ TypeOK /\ Roles /\ Counters
  /\ CellStates /\ ProducerPlace /\ ConsumerPlace /\ OwnersDiffer

-----------------------------------------------------------------------------
\* All ages are far below the width of a size_t.
LEMMA Bounds ==
  ASSUME TypeOK, Counters
  PROVE  /\ T \in Nat /\ H \in Nat /\ Cardinality(Trying) \in Nat
         /\ T + 2 * Size < SizeT \div 2
         /\ T + 2 * Size < SizeT
         /\ IsFiniteSet(Values) /\ IsFiniteSet(Begun) /\ IsFiniteSet(Trying)
<1>1. T \in Nat /\ H \in Nat
  BY AgeType DEF TypeOK, T, H
<1>2. IsFiniteSet(Producers) /\ MaxPush \in Nat
  BY QueueAssumption
<1>3. IsFiniteSet(1..MaxPush) /\ Cardinality(1..MaxPush) = MaxPush
  BY <1>2, FS_Interval
<1>4. IsFiniteSet(Values) /\ Cardinality(Values) = Cardinality(Producers) * MaxPush
      /\ Cardinality(Values) \in Nat
  BY <1>2, <1>3, FS_Product, FS_CardinalityType DEF Values
<1>5. IsFiniteSet(Begun) /\ Cardinality(Begun) <= Cardinality(Values)
      /\ Cardinality(Begun) \in Nat
  BY <1>4, FS_Subset, FS_CardinalityType DEF Begun
<1>6. IsFiniteSet(Trying) /\ Cardinality(Trying) \in Nat
  BY <1>2, FS_Subset, FS_CardinalityType DEF Trying
<1>7. T <= Cardinality(Values)
  BY <1>1, <1>4, <1>5, <1>6 DEF Counters
<1>8. Cardinality(Values) + 2 * Size < SizeT \div 2
  BY <1>4, QueueAssumption
<1> QED BY <1>1, <1>4, <1>5, <1>6, <1>7, <1>8, Sizes

-----------------------------------------------------------------------------
(* What the invariant says of cells and owners *)

LEMMA SequenceAge ==
  ASSUME TypeOK, NEW x \in Positions
  PROVE  /\ sequence[Cell(x)] \in Positions
         /\ Age(sequence[Cell(x)]) = Seqn(Age(x))
  BY CellAge DEF TypeOK, Seqn

LEMMA SeqnType ==
  ASSUME TypeOK, NEW k \in Int
  PROVE  CellOf(k) \in Cells /\ Seqn(k) \in Nat
<1> DEFINE y == Start + k
<1>1. y \in Int /\ Size \in Nat \ {0}
  BY Sizes
<1>2. CellOf(k) \in Cells
  <2> HIDE DEF y
  <2>1. y % Size \in 0..(Size - 1)
    BY <1>1, Division
  <2> QED BY <2>1 DEF CellOf, Cells, y
<1> QED BY <1>2, AgeType DEF Seqn, TypeOK

LEMMA DiffZero ==
  ASSUME NEW a \in Positions, NEW b \in Positions, Diff(a, b) = 0
  PROVE  a = b
<1>1. Age(a) \in 0..(SizeT - 1) /\ Age(b) \in 0..(SizeT - 1) /\ SizeT \in Nat
  BY AgeType, Sizes DEF Positions
<1>2. Age(a) = Age(b)
  BY <1>1, MinusAge DEF Diff
<1> QED BY <1>2, AgeInjective

LEMMA Owned ==
  ASSUME IInv
  PROVE  /\ \A p \in Producers : p \in Owners =>
              /\ pos[p] \in Positions /\ Age(pos[p]) \in Nat
              /\ H <= Age(pos[p]) /\ Age(pos[p]) < T
              /\ Seqn(Age(pos[p])) = Age(pos[p])
         /\ \A c \in Consumers : c \in Owners =>
              /\ pos[c] \in Positions /\ Age(pos[c]) \in Nat
              /\ T - Size <= Age(pos[c]) /\ Age(pos[c]) < H
              /\ Seqn(Age(pos[c])) = Age(pos[c]) + 1
<1>1. TypeOK /\ Counters
  BY DEF IInv
<1>2. T \in Nat /\ H \in Nat /\ T + 2 * Size < SizeT /\ H <= T /\ Size \in Nat /\ SizeT \in Nat
  BY <1>1, Bounds, Sizes DEF Counters
<1>3. ASSUME NEW p \in Producers, p \in Owners
      PROVE  /\ pos[p] \in Positions /\ Age(pos[p]) \in Nat
             /\ H <= Age(pos[p]) /\ Age(pos[p]) < T
             /\ Seqn(Age(pos[p])) = Age(pos[p])
  <2>1. pos[p] \in Positions
    BY <1>1 DEF TypeOK, Threads
  <2>2. H <= Age(pos[p]) /\ Age(pos[p]) < T /\ sequence[Cell(pos[p])] = pos[p]
    BY <1>3 DEF IInv, ProducerPlace
  <2> QED BY <1>1, <2>1, <2>2, SequenceAge, AgeType
<1>4. ASSUME NEW c \in Consumers, c \in Owners
      PROVE  /\ pos[c] \in Positions /\ Age(pos[c]) \in Nat
             /\ T - Size <= Age(pos[c]) /\ Age(pos[c]) < H
             /\ Seqn(Age(pos[c])) = Age(pos[c]) + 1
  <2>1. pos[c] \in Positions
    BY <1>1 DEF TypeOK, Threads
  <2>2. T - Size <= Age(pos[c]) /\ Age(pos[c]) < H /\ sequence[Cell(pos[c])] = Plus(pos[c], 1)
    BY <1>4 DEF IInv, ConsumerPlace
  <2>3. Age(pos[c]) \in Nat /\ Age(pos[c]) + 1 < SizeT
    BY <1>2, <2>1, <2>2, AgeType
  <2>4. Age(Plus(pos[c], 1)) = Age(pos[c]) + 1
    BY <2>1, <2>3, AgePlus
  <2> QED BY <1>1, <2>1, <2>2, <2>3, <2>4, SequenceAge
<1> QED BY <1>3, <1>4

LEMMA ExclusiveCells ==
  ASSUME IInv
  PROVE  CellExclusive
<1> SUFFICES ASSUME NEW s \in Owners, NEW t \in Owners, Cell(pos[s]) = Cell(pos[t])
             PROVE  s = t
  BY DEF CellExclusive
<1>1. T \in Nat /\ H \in Nat /\ H <= T /\ T <= H + Size /\ Size \in Nat
  BY Bounds, Sizes DEF IInv, Counters
<1>2. ASSUME NEW u \in Owners
      PROVE  /\ pos[u] \in Positions /\ Age(pos[u]) \in Nat
             /\ T - Size <= Age(pos[u]) /\ Age(pos[u]) < T
  <2>1. u \in Producers \/ u \in Consumers
    BY DEF Owners, Threads
  <2>2. CASE u \in Producers
    BY <1>1, <1>2, <2>2, Owned
  <2>3. CASE u \in Consumers
    BY <1>1, <1>2, <2>3, Owned
  <2> QED BY <2>1, <2>2, <2>3
<1>3. CellOf(Age(pos[s])) = CellOf(Age(pos[t]))
  BY <1>2, CellAge
<1>4. Age(pos[s]) - Age(pos[t]) < Size /\ Age(pos[t]) - Age(pos[s]) < Size
      /\ Age(pos[s]) \in Int /\ Age(pos[t]) \in Int
  BY <1>1, <1>2
<1>5. Age(pos[s]) = Age(pos[t])
  BY <1>3, <1>4, CellsDistinct
<1>6. pos[s] = pos[t]
  BY <1>2, <1>5, AgeInjective
<1> QED BY <1>6 DEF IInv, OwnersDiffer

\* What a thread that loaded tail or head before finds in its cell
LEMMA Found ==
  ASSUME IInv, NEW x \in Nat, x <= T
  PROVE  /\ Seqn(x) \in Nat /\ Seqn(x) <= T + Size
         /\ \/ x \in H..(H + Size - 1)
            \/ x < H /\ Seqn(x) >= x + 1
            \/ x = T /\ T = H + Size /\ Seqn(x) <= H + 1
<1>1. T \in Nat /\ H \in Nat /\ H <= T /\ T <= H + Size /\ Size \in Nat /\ Size >= 2
  BY Bounds, Sizes DEF IInv, Counters
<1>2. PICK k \in H..(H + Size - 1) : CellOf(k) = CellOf(x) /\ (k > x => k >= x + Size)
  <2>1. x \in Int /\ H \in Int
    BY <1>1
  <2> QED BY <2>1, CellOfLap
<1>3. Seqn(x) = Seqn(k) /\ k \in Nat
  BY <1>1, <1>2 DEF Seqn
<1>4. /\ Seqn(k) \in {k, k + 1, k - Size + 1}
      /\ k < T => Seqn(k) \in {k, k + 1}
  <2>1. \/ k < T /\ Seqn(k) = k + 1
        \/ k < T /\ Seqn(k) = k
        \/ k >= T /\ Seqn(k) = k
        \/ k >= T /\ Seqn(k) = k - Size + 1
    BY <1>2 DEF IInv, CellStates
  <2> QED BY <1>1, <1>3, <2>1
<1>5. Seqn(x) \in Nat
  BY SeqnType DEF IInv
<1>6. CASE k > x
  <2>1. k >= x + Size
    BY <1>2, <1>6
  <2> QED BY <1>1, <1>2, <1>3, <1>4, <1>5, <1>6, <2>1
<1>7. CASE k = x
  BY <1>1, <1>2, <1>3, <1>4, <1>5, <1>7
<1>8. CASE k < x
  <2>1. x - k >= Size
    BY <1>1, <1>2, <1>3, <1>8, CellsDistinct
  <2>2. x = H + Size /\ x = T /\ k = H
    BY <1>1, <1>2, <1>3, <2>1
  <2> QED BY <1>1, <1>3, <1>4, <1>5, <2>2
<1> QED BY <1>1, <1>2, <1>3, <1>6, <1>7, <1>8

-----------------------------------------------------------------------------
(* The invariant holds initially and is preserved. *)

LEMMA PlusType ==
  ASSUME NEW a \in Positions, NEW m \in Nat
  PROVE  Plus(a, m) \in Positions
<1> DEFINE s == a + m
<1>1. s \in Int /\ SizeT \in Nat \ {0}
  BY AgeType, Sizes
<1> HIDE DEF s
<1>2. s % SizeT \in 0..(SizeT - 1)
  BY <1>1, Division
<1> QED BY <1>2 DEF s, Plus, Positions

LEMMA NextType ==
  ASSUME TypeOK, [Next]_vars
  PROVE  TypeOK'
<1> USE DEF Goto
<1>1. /\ Producers \subseteq Threads /\ Consumers \subseteq Threads
      /\ \A t \in Threads : pos[t] \in Positions
      /\ \A t \in Threads : Cell(pos[t]) \in Cells
      /\ \A t \in Threads : data[Cell(pos[t])] \in Values \cup {NoValue}
      /\ \A t \in Threads : Plus(pos[t], 1) \in Positions /\ Plus(pos[t], Size) \in Positions
      /\ Plus(tail, 1) \in Positions /\ Plus(head, 1) \in Positions
  BY PlusType, CellAge, Sizes DEF TypeOK, Threads
<1>2. ASSUME NEW p \in Producers, PushStart(p) PROVE TypeOK'
  <2>1. pushes[p] + 1 \in 1..MaxPush /\ pushes[p] + 1 \in 0..MaxPush
    BY <1>2, QueueAssumption DEF PushStart, TypeOK
  <2>2. <<p, pushes[p] + 1>> \in Values
    BY <2>1 DEF Values
  <2> QED BY <1>1, <1>2, <2>1, <2>2 DEF PushStart, TypeOK
<1>3. ASSUME NEW p \in Producers, PushFree(p) \/ PushFull(p) \/ PushBehind(p) PROVE TypeOK'
  BY <1>1, <1>3 DEF PushFree, PushFull, PushBehind, TypeOK
<1>4. ASSUME NEW p \in Producers, PushReload(p) \/ PushClaim(p) \/ PushClaimFailed(p) PROVE TypeOK'
  BY <1>1, <1>4 DEF PushReload, PushClaim, PushClaimFailed, TypeOK
<1>5. ASSUME NEW p \in Producers, PushWrite(p) \/ PushPublish(p) PROVE TypeOK'
  BY <1>1, <1>5 DEF PushWrite, PushPublish, TypeOK
<1>6. ASSUME NEW c \in Consumers, AvailableFirst(c) \/ AvailableSecond(c) \/ PullStart(c)
      PROVE TypeOK'
  BY <1>1, <1>6 DEF AvailableFirst, AvailableSecond, PullStart, TypeOK
<1>7. ASSUME NEW c \in Consumers, PullReady(c) \/ PullEmpty(c) \/ PullBehind(c) PROVE TypeOK'
  BY <1>1, <1>7 DEF PullReady, PullEmpty, PullBehind, TypeOK
<1>8. ASSUME NEW c \in Consumers, PullReload(c) \/ PullClaim(c) \/ PullClaimFailed(c) PROVE TypeOK'
  BY <1>1, <1>8 DEF PullReload, PullClaim, PullClaimFailed, TypeOK
<1>9. ASSUME NEW c \in Consumers, PullRead(c) \/ PullRelease(c) PROVE TypeOK'
  BY <1>1, <1>9 DEF PullRead, PullRelease, TypeOK
<1>10. ASSUME UNCHANGED vars PROVE TypeOK'
  BY <1>10 DEF vars, TypeOK
<1> QED BY <1>2, <1>3, <1>4, <1>5, <1>6, <1>7, <1>8, <1>9, <1>10 DEF Next

LEMMA NextRoles ==
  ASSUME TypeOK, Roles, [Next]_vars
  PROVE  Roles'
<1> USE DEF Goto, Roles
<1>1. Producers \cap Consumers = {}
  BY QueueAssumption
<1>2. ASSUME NEW p \in Producers,
             \/ PushStart(p) \/ PushFree(p) \/ PushFull(p) \/ PushBehind(p)
             \/ PushReload(p) \/ PushClaim(p) \/ PushClaimFailed(p)
             \/ PushWrite(p) \/ PushPublish(p)
      PROVE  Roles'
  <2>1. \E s \in {"idle", "pushSeq", "pushReload", "pushCas", "pushWrite", "pushPublish"} :
          pc' = [pc EXCEPT ![p] = s]
    BY <1>2 DEF PushStart, PushFree, PushFull, PushBehind, PushReload, PushClaim,
                PushClaimFailed, PushWrite, PushPublish
  <2> QED BY <1>1, <2>1 DEF TypeOK, Threads
<1>3. ASSUME NEW c \in Consumers,
             \/ AvailableFirst(c) \/ AvailableSecond(c) \/ PullStart(c)
             \/ PullReady(c) \/ PullEmpty(c) \/ PullBehind(c) \/ PullReload(c)
             \/ PullClaim(c) \/ PullClaimFailed(c) \/ PullRead(c) \/ PullRelease(c)
      PROVE  Roles'
  <2>1. \E s \in {"idle", "availHead", "availTail", "pullStart", "pullSeq",
                  "pullReload", "pullCas", "pullRead", "pullRelease"} :
          pc' = [pc EXCEPT ![c] = s]
    BY <1>3 DEF AvailableFirst, AvailableSecond, PullStart, PullReady, PullEmpty, PullBehind,
                PullReload, PullClaim, PullClaimFailed, PullRead, PullRelease
  <2> QED BY <1>1, <2>1 DEF TypeOK, Threads
<1>4. ASSUME UNCHANGED vars PROVE Roles'
  BY <1>4 DEF vars
<1> QED BY <1>2, <1>3, <1>4 DEF Next

\* Every claim and every refusal ends one producer's attempt.
LEMMA AttemptEnds ==
  ASSUME TypeOK, Roles, NEW p \in Trying, pc' = [pc EXCEPT ![p] = "idle"] \/ pc' = [pc EXCEPT ![p] = "pushWrite"]
  PROVE  Cardinality(Trying') = Cardinality(Trying) - 1 /\ Cardinality(Trying) >= 1
<1>1. IsFiniteSet(Producers)
  BY QueueAssumption
<1>2. IsFiniteSet(Trying)
  BY <1>1, FS_Subset DEF Trying
<1>3. Trying' = Trying \ {p}
  BY DEF TypeOK, Trying, Threads
<1>4. Cardinality(Trying) \in Nat /\ Cardinality(Trying) # 0
  BY <1>2, FS_CardinalityType, FS_EmptySet
<1> QED BY <1>2, <1>3, <1>4, FS_RemoveElement

LEMMA NextCounters ==
  ASSUME TypeOK, Roles, Counters, [Next]_vars,
         H' <= T' /\ T' <= H' + Size,
         \A p \in Producers : PushClaim(p) => T' = T + 1,
         tail' # tail => \E p \in Producers : PushClaim(p)
  PROVE  Counters'
<1> USE DEF Goto
<1>1. T \in Nat /\ Cardinality(Trying) \in Nat /\ Cardinality(Begun) \in Nat
      /\ IsFiniteSet(Begun) /\ IsFiniteSet(Trying)
  BY Bounds, FS_CardinalityType
<1>2. Producers \cap Consumers = {}
  BY QueueAssumption
<1>3. SUFFICES T' + Cardinality(Trying') <= Cardinality(Begun')
  BY DEF Counters
<1>4. T + Cardinality(Trying) <= Cardinality(Begun)
  BY DEF Counters
<1>5. tail' = tail => T' = T
  BY DEF T, Age, Minus
<1>6. ASSUME NEW p \in Producers, PushStart(p) PROVE T' + Cardinality(Trying') <= Cardinality(Begun')
  <2> DEFINE v == <<p, pushes[p] + 1>>
  <2>1. pushes[p] \in Nat /\ pushes[p] + 1 \in 1..MaxPush /\ tail' = tail /\ pc[p] = "idle"
        /\ pc' = [pc EXCEPT ![p] = "pushSeq"] /\ pushes' = [pushes EXCEPT ![p] = @ + 1]
    BY <1>6, QueueAssumption DEF PushStart, TypeOK
  <2>2. Trying' = Trying \cup {p} /\ p \notin Trying
    BY <2>1 DEF TypeOK, Trying, Threads
  <2>3. v \in Values /\ v \notin Begun
    BY <2>1 DEF Values, Begun
  <2>4. Begun' = Begun \cup {v}
    <3>1. ASSUME NEW w \in Values PROVE w \in Begun' <=> w \in Begun \/ w = v
      <4>1. PICK q \in Producers, m \in 1..MaxPush : w = <<q, m>>
        BY <3>1 DEF Values
      <4>2. pushes[q] \in Nat /\ pushes'[q] = IF q = p THEN pushes[q] + 1 ELSE pushes[q]
        BY <2>1 DEF TypeOK
      <4>3. m <= pushes'[q] <=> m <= pushes[q] \/ (q = p /\ m = pushes[p] + 1)
        BY <4>2, QueueAssumption
      <4> QED BY <4>1, <4>3 DEF Begun
    <3>2. Begun \subseteq Values /\ Begun' \subseteq Values
      BY DEF Begun, Values
    <3> QED BY <2>3, <3>1, <3>2
  <2>5. Cardinality(Begun') = Cardinality(Begun) + 1
    BY <1>1, <2>3, <2>4, FS_AddElement
  <2>6. Cardinality(Trying') = Cardinality(Trying) + 1
    BY <1>1, <2>2, FS_AddElement
  <2> QED BY <1>1, <1>4, <1>5, <2>1, <2>5, <2>6
<1>7. ASSUME NEW p \in Producers, PushFull(p) PROVE T' + Cardinality(Trying') <= Cardinality(Begun')
  <2>1. p \in Trying /\ pc' = [pc EXCEPT ![p] = "idle"] /\ pushes' = pushes /\ tail' = tail
    BY <1>7 DEF PushFull, Trying
  <2>2. Cardinality(Trying') = Cardinality(Trying) - 1
    BY <2>1, AttemptEnds
  <2> QED BY <1>1, <1>4, <1>5, <2>1, <2>2 DEF Begun
<1>8. ASSUME NEW p \in Producers, PushClaim(p) PROVE T' + Cardinality(Trying') <= Cardinality(Begun')
  <2>1. p \in Trying /\ pc' = [pc EXCEPT ![p] = "pushWrite"] /\ pushes' = pushes
    BY <1>8 DEF PushClaim, Trying
  <2>2. Cardinality(Trying') = Cardinality(Trying) - 1
    BY <2>1, AttemptEnds
  <2>3. T' = T + 1 /\ Begun' = Begun
    BY <1>8, <2>1 DEF Begun
  <2> QED BY <1>1, <1>4, <2>2, <2>3
<1>9. ASSUME tail' = tail, pushes' = pushes, Trying' = Trying
      PROVE  T' + Cardinality(Trying') <= Cardinality(Begun')
  BY <1>4, <1>5, <1>9 DEF Begun
<1>10. ASSUME NEW p \in Producers, PushFree(p) \/ PushBehind(p) \/ PushReload(p) \/ PushClaimFailed(p)
       PROVE  tail' = tail /\ pushes' = pushes /\ Trying' = Trying
  BY <1>10 DEF PushFree, PushBehind, PushReload, PushClaimFailed, Trying, TypeOK, Threads
<1>11. ASSUME NEW p \in Producers, PushWrite(p) \/ PushPublish(p)
       PROVE  tail' = tail /\ pushes' = pushes /\ Trying' = Trying
  BY <1>11 DEF PushWrite, PushPublish, Trying, TypeOK, Threads
<1>12. ASSUME NEW c \in Consumers,
              \/ AvailableFirst(c) \/ AvailableSecond(c) \/ PullStart(c)
              \/ PullReady(c) \/ PullEmpty(c) \/ PullBehind(c) \/ PullReload(c)
              \/ PullClaim(c) \/ PullClaimFailed(c) \/ PullRead(c) \/ PullRelease(c)
       PROVE  tail' = tail /\ pushes' = pushes /\ Trying' = Trying
  <2>1. /\ tail' = tail /\ pushes' = pushes
        /\ \E s : pc' = [pc EXCEPT ![c] = s]
    BY <1>12 DEF AvailableFirst, AvailableSecond, PullStart, PullReady, PullEmpty, PullBehind,
                 PullReload, PullClaim, PullClaimFailed, PullRead, PullRelease
  <2> QED BY <1>2, <2>1 DEF Trying, TypeOK, Threads
<1>13. ASSUME UNCHANGED vars PROVE tail' = tail /\ pushes' = pushes /\ Trying' = Trying
  BY <1>13 DEF vars, Trying
<1> QED BY <1>6, <1>7, <1>8, <1>9, <1>10, <1>11, <1>12, <1>13 DEF Next

LEMMA InitIInv ==
  ASSUME Init
  PROVE  IInv
<1> USE DEF Init
<1>1. Size \in Nat \ {0} /\ Size >= 2 /\ SizeT \in Nat \ {0} /\ Start \in Positions /\ Start \in Int
      /\ MaxPush \in Nat
  BY Sizes, QueueAssumption
<1>2. Age(Start) = 0
  <2>1. Start - Start = 0 /\ 0 \in Positions
    BY <1>1 DEF Positions
  <2> QED BY <2>1, Small DEF Age, Minus
<1>3. \A i \in Cells : (i - Start) % Size \in 0..(Size - 1)
  <2> TAKE i \in Cells
  <2> DEFINE d == i - Start
  <2>1. d \in Int
    BY <1>1 DEF Cells
  <2> HIDE DEF d
  <2>2. d % Size \in 0..(Size - 1)
    BY <1>1, <2>1, Division
  <2> QED BY <2>2 DEF d
<1>4. TypeOK
  <2>1. \A i \in Cells : Plus(Start, (i - Start) % Size) \in Positions
    BY <1>1, <1>3, PlusType
  <2> QED BY <1>1, <2>1 DEF TypeOK
<1>5. T = 0 /\ H = 0
  BY <1>2 DEF T, H
<1>6. Counters
  <2>1. Trying = {} /\ Owners = {}
    BY DEF Trying, Owners, Threads
  <2>2. Begun = {}
    BY <1>1 DEF Begun, Values
  <2> QED BY <1>1, <1>5, <2>1, <2>2, FS_EmptySet DEF Counters
<1>7. Owners = {} /\ Trying = {}
  BY DEF Owners, Trying, Threads
<1>8. Roles
  BY DEF Roles, Threads
<1>9. CellStates
  <2> SUFFICES ASSUME NEW k \in 0..(Size - 1) PROVE Seqn(k) = k
    BY <1>1, <1>5 DEF CellStates
  <2> DEFINE i == CellOf(k)
             y == Start + k
             z == -Start
  <2>1. y \in Int /\ z \in Int /\ k \in Nat /\ y + z = k /\ k \in Int
    BY <1>1
  <2>2. i \in Cells
    BY <1>4, <2>1, SeqnType
  <2>3. (i - Start) % Size = k
    <3>1. i = y % Size /\ (y % Size) - Start = (y % Size) + z /\ y % Size \in Int
      <4> HIDE DEF y
      <4>1. y % Size \in 0..(Size - 1)
        BY <1>1, <2>1, Division
      <4> QED BY <1>1, <4>1 DEF CellOf, y
    <3> HIDE DEF y, z, i
    <3>2. ((y % Size) + z) % Size = (y + z) % Size
      BY <1>1, <2>1, Reduced
    <3>3. k = Size * 0 + k /\ 0 \in Int /\ k \in 0..(Size - 1)
      BY <1>1, <2>1
    <3>4. k % Size = k
      BY <1>1, <2>1, <3>3, Remainder
    <3> QED BY <2>1, <3>1, <3>2, <3>4
  <2>4. k < SizeT
    BY <1>1, <1>4, <1>5, <1>6, Bounds
  <2>5. Age(Plus(Start, k)) = k
    BY <1>1, <1>2, <2>1, <2>4, AgePlus
  <2> QED BY <2>2, <2>3, <2>5 DEF Seqn
<1>10. ProducerPlace /\ ConsumerPlace /\ OwnersDiffer
  BY <1>7 DEF ProducerPlace, ConsumerPlace, OwnersDiffer, Threads
<1> QED BY <1>4, <1>6, <1>8, <1>9, <1>10 DEF IInv

\* What owners know, apart from what the other threads know
ProducersOwn ==
  \A p \in Producers :
    p \in Owners => H <= Age(pos[p]) /\ Age(pos[p]) < T /\ sequence[Cell(pos[p])] = pos[p]

ConsumersOwn ==
  \A c \in Consumers :
    c \in Owners => T - Size <= Age(pos[c]) /\ Age(pos[c]) < H
                    /\ sequence[Cell(pos[c])] = Plus(pos[c], 1)

\* A step that moves no counter, writes no sequence and changes no owner
LEMMA QuietStep ==
  ASSUME IInv, UNCHANGED <<tail, head, sequence>>,
         Owners' = Owners, \A t \in Owners : pos'[t] = pos[t]
  PROVE  CellStates' /\ OwnersDiffer' /\ ProducersOwn' /\ ConsumersOwn' /\ T' = T /\ H' = H
<1>1. T' = T /\ H' = H
  BY DEF T, H, Age, Minus
<1>2. \A k : Seqn(k)' = Seqn(k)
  BY DEF Seqn, Age, Minus, CellOf
<1>3. \A t \in Owners : Age(pos'[t]) = Age(pos[t])
  OBVIOUS
<1>4. CellStates'
  <2>1. CellStates
    BY DEF IInv
  <2> QED BY <1>1, <1>2, <1>3, <2>1 DEF CellStates
<1>5. OwnersDiffer'
  BY DEF IInv, OwnersDiffer
<1>6. ProducersOwn' /\ ConsumersOwn'
  BY <1>1, <1>3 DEF IInv, ProducerPlace, ConsumerPlace, ProducersOwn, ConsumersOwn, Cell, Plus
<1> QED BY <1>1, <1>4, <1>5, <1>6

\* What every step below starts from
LEMMA Basics ==
  ASSUME IInv
  PROVE  /\ TypeOK /\ Counters /\ CellStates
         /\ T \in Nat /\ H \in Nat /\ H <= T /\ T <= H + Size /\ T + 2 * Size < SizeT
         /\ Size \in Nat /\ Size >= 2 /\ SizeT \in Nat
         /\ tail \in Positions /\ head \in Positions
         /\ \A t \in Threads : pos[t] \in Positions
         /\ Producers \subseteq Threads /\ Consumers \subseteq Threads
         /\ Producers \cap Consumers = {}
         /\ \A t \in Owners : t \in Producers \/ t \in Consumers
         /\ pc = [t \in Threads |-> pc[t]]
<1>1. TypeOK /\ Counters /\ CellStates
  BY DEF IInv
<1>2. Producers \cap Consumers = {}
  BY QueueAssumption
<1> QED BY <1>1, <1>2, Bounds, Sizes DEF TypeOK, Counters, Threads, Owners

\* A producer claims the position at tail.
LEMMA PushClaimStep ==
  ASSUME IInv, NEW p \in Producers, PushClaim(p)
  PROVE  /\ T' = T + 1 /\ H' = H /\ T' <= H' + Size
         /\ CellStates' /\ OwnersDiffer' /\ ProducerPlace' /\ ConsumerPlace'
<1> USE Basics
<1>1. /\ tail = pos[p] /\ pc[p] = "pushCas" /\ pc' = [pc EXCEPT ![p] = "pushWrite"]
      /\ tail' = Plus(tail, 1) /\ head' = head /\ sequence' = sequence /\ pos' = pos
  BY DEF PushClaim, Goto
<1>2. sequence[Cell(tail)] = tail /\ Seqn(T) = T
  <2>1. sequence[Cell(tail)] = tail
    BY <1>1 DEF IInv, ProducerPlace
  <2> QED BY <2>1, SequenceAge DEF T
<1>3. T < H + Size
  BY <1>2, Found
<1>4. T' = T + 1 /\ H' = H
  <2>1. Age(Plus(tail, 1)) = T + 1
    BY AgePlus DEF T
  <2> QED BY <1>1, <2>1 DEF T, H, Age, Minus
<1>5. \A k : Seqn(k)' = Seqn(k)
  BY <1>1 DEF Seqn, Age, Minus, CellOf
<1>6. Owners' = Owners \cup {p} /\ p \notin Owners
  BY <1>1 DEF Owners
<1>7. \A t \in Owners : Age(pos[t]) \in Nat /\ Age(pos[t]) < T
  BY Owned
<1>8. CellStates'
  <2> SUFFICES ASSUME NEW k \in H..(H + Size - 1)
               PROVE \/ k < T + 1 /\ Seqn(k) = k + 1
                     \/ k < T + 1 /\ Seqn(k) = k
                        /\ \E q \in Producers : q \in Owners' /\ Age(pos[q]) = k
                     \/ k >= T + 1 /\ Seqn(k) = k
                     \/ k >= T + 1 /\ Seqn(k) = k - Size + 1
                        /\ \E c \in Consumers : c \in Owners' /\ Age(pos[c]) = k - Size
    BY <1>1, <1>4, <1>5 DEF CellStates
  <2>1. CASE k = T
    <3>1. Age(pos[p]) = k /\ p \in Owners'
      BY <1>1, <1>6, <2>1 DEF T
    <3> QED BY <1>2, <2>1, <3>1
  <2>2. CASE k # T
    <3>1. \/ k < T /\ Seqn(k) = k + 1
          \/ k < T /\ Seqn(k) = k
             /\ \E q \in Producers : q \in Owners /\ Age(pos[q]) = k
          \/ k >= T /\ Seqn(k) = k
          \/ k >= T /\ Seqn(k) = k - Size + 1
             /\ \E c \in Consumers : c \in Owners /\ Age(pos[c]) = k - Size
      BY DEF CellStates
    <3>2. Owners \subseteq Owners' /\ (k >= T => k >= T + 1) /\ (k < T => k < T + 1)
      BY <1>6, <2>2
    <3> HIDE Basics
    <3> QED BY <3>1, <3>2
  <2> QED BY <2>1, <2>2
<1>9. OwnersDiffer'
  <2>1. \A t \in Owners : pos[t] # pos[p]
    BY <1>1, <1>7 DEF T
  <2> QED BY <1>1, <1>6, <2>1 DEF IInv, OwnersDiffer
<1>10. ProducerPlace'
  <2> SUFFICES ASSUME NEW q \in Producers
               PROVE  /\ q \in Trying' => Age(pos[q]) <= T + 1
                      /\ pc'[q] = "pushCas" /\ pos[q] = tail' => sequence[Cell(pos[q])] = pos[q]
                      /\ q \in Owners' => /\ H <= Age(pos[q]) /\ Age(pos[q]) < T + 1
                                          /\ sequence[Cell(pos[q])] = pos[q]
    BY <1>1, <1>4 DEF ProducerPlace, Cell
  <2>1. CASE q = p
    BY <1>1, <1>2, <2>1 DEF Trying, T
  <2>2. CASE q # p
    <3>1. pc'[q] = pc[q] /\ (q \in Trying' <=> q \in Trying) /\ (q \in Owners' <=> q \in Owners)
      BY <1>1, <1>6, <2>2 DEF Trying
    <3>2. /\ q \in Trying => Age(pos[q]) <= T
          /\ q \in Owners => /\ H <= Age(pos[q]) /\ Age(pos[q]) < T
                             /\ sequence[Cell(pos[q])] = pos[q]
      BY DEF IInv, ProducerPlace
    <3>3. Age(pos[q]) \in Nat
      BY AgeType
    <3>4. ASSUME pc[q] = "pushCas", pos[q] = tail' PROVE FALSE
      <4>1. q \in Trying
        BY <3>4 DEF Trying
      <4>2. Age(pos[q]) = T + 1
        BY <1>1, <3>4, AgePlus DEF T
      <4> QED BY <3>2, <4>1, <4>2
    <3> QED BY <3>1, <3>2, <3>3, <3>4
  <2> QED BY <2>1, <2>2
<1>11. ConsumerPlace'
  <2> SUFFICES ASSUME NEW c \in Consumers
               PROVE  /\ pc'[c] \in {"pullSeq", "pullReload", "pullCas"} => Age(pos[c]) <= H
                      /\ pc'[c] = "pullCas" /\ pos[c] = head => sequence[Cell(pos[c])] = Plus(pos[c], 1)
                      /\ c \in Owners' => /\ T + 1 - Size <= Age(pos[c]) /\ Age(pos[c]) < H
                                          /\ sequence[Cell(pos[c])] = Plus(pos[c], 1)
    BY <1>1, <1>4 DEF ConsumerPlace, Cell, Plus
  <2>1. pc'[c] = pc[c] /\ (c \in Owners' <=> c \in Owners)
    BY <1>1, <1>6
  <2>2. ASSUME c \in Owners PROVE Age(pos[c]) # T - Size
    <3> SUFFICES ASSUME Age(pos[c]) = T - Size PROVE FALSE
      OBVIOUS
    <3> DEFINE x == Age(pos[c])
    <3>1. x \in Int /\ Seqn(x) = x + 1 /\ x + Size = T
      BY <2>2, Owned
    <3>2. CellOf(x + Size) = CellOf(x)
      BY <3>1, CellOfLap
    <3> HIDE DEF x
    <3>3. Seqn(T) = Seqn(x)
      BY <3>1, <3>2 DEF Seqn
    <3> QED BY <1>2, <3>1, <3>3
  <2>3. c \in Owners => Age(pos[c]) \in Nat /\ T - Size <= Age(pos[c])
    BY Owned
  <2> QED BY <2>1, <2>2, <2>3 DEF IInv, ConsumerPlace
<1> QED BY <1>3, <1>4, <1>8, <1>9, <1>10, <1>11

\* A consumer claims the position at head.
LEMMA PullClaimStep ==
  ASSUME IInv, NEW c \in Consumers, PullClaim(c)
  PROVE  /\ T' = T /\ H' = H + 1 /\ H' <= T' /\ Seqn(H) = H + 1
         /\ CellStates' /\ OwnersDiffer' /\ ProducerPlace' /\ ConsumerPlace'
<1> USE Basics
<1>1. /\ head = pos[c] /\ pc[c] = "pullCas" /\ pc' = [pc EXCEPT ![c] = "pullRead"]
      /\ head' = Plus(head, 1) /\ tail' = tail /\ sequence' = sequence /\ pos' = pos
  BY DEF PullClaim, Goto
<1>2. sequence[Cell(head)] = Plus(head, 1) /\ Seqn(H) = H + 1 /\ Age(Plus(head, 1)) = H + 1
  <2>1. sequence[Cell(head)] = Plus(head, 1)
    BY <1>1 DEF IInv, ConsumerPlace
  <2>2. Age(Plus(head, 1)) = H + 1
    BY AgePlus DEF H
  <2> QED BY <2>1, <2>2, SequenceAge DEF H
<1>3. H < T
  <2>1. \/ H < T /\ Seqn(H) = H + 1
        \/ H < T /\ Seqn(H) = H
        \/ H >= T /\ Seqn(H) = H
        \/ H >= T /\ Seqn(H) = H - Size + 1
    BY DEF CellStates
  <2> QED BY <1>2, <2>1
<1>4. T' = T /\ H' = H + 1
  BY <1>1, <1>2 DEF T, H, Age, Minus
<1>5. \A k : Seqn(k)' = Seqn(k)
  BY <1>1 DEF Seqn, Age, Minus, CellOf
<1>6. Owners' = Owners \cup {c} /\ c \notin Owners
  BY <1>1 DEF Owners
<1>7. \A t \in Owners : Age(pos[t]) \in Nat /\ Age(pos[t]) # H
  BY <1>2, Owned
<1>8. CellStates'
  <2> SUFFICES ASSUME NEW k \in (H + 1)..(H + Size)
               PROVE \/ k < T /\ Seqn(k) = k + 1
                     \/ k < T /\ Seqn(k) = k
                        /\ \E q \in Producers : q \in Owners' /\ Age(pos[q]) = k
                     \/ k >= T /\ Seqn(k) = k
                     \/ k >= T /\ Seqn(k) = k - Size + 1
                        /\ \E d \in Consumers : d \in Owners' /\ Age(pos[d]) = k - Size
    BY <1>1, <1>4, <1>5 DEF CellStates
  <2>1. CASE k = H + Size
    <3>1. Age(pos[c]) = k - Size /\ c \in Owners'
      BY <1>1, <1>6, <2>1 DEF H
    <3>2. CellOf(H + Size) = CellOf(H)
      BY CellOfLap
    <3>3. Seqn(k) = k - Size + 1
      BY <1>2, <2>1, <3>2 DEF Seqn
    <3> QED BY <2>1, <3>1, <3>3
  <2>2. CASE k # H + Size
    <3>1. \/ k < T /\ Seqn(k) = k + 1
          \/ k < T /\ Seqn(k) = k
             /\ \E q \in Producers : q \in Owners /\ Age(pos[q]) = k
          \/ k >= T /\ Seqn(k) = k
          \/ k >= T /\ Seqn(k) = k - Size + 1
             /\ \E d \in Consumers : d \in Owners /\ Age(pos[d]) = k - Size
      <4>1. k \in H..(H + Size - 1)
        BY <2>2
      <4> QED BY <4>1 DEF CellStates
    <3>2. Owners \subseteq Owners'
      BY <1>6
    <3> HIDE Basics
    <3> QED BY <3>1, <3>2
  <2> QED BY <2>1, <2>2
<1>9. OwnersDiffer'
  <2>1. \A t \in Owners : pos[t] # pos[c]
    BY <1>1, <1>7 DEF H
  <2> QED BY <1>1, <1>6, <2>1 DEF IInv, OwnersDiffer
<1>10. ProducerPlace'
  <2> SUFFICES ASSUME NEW q \in Producers
               PROVE  /\ q \in Trying' => Age(pos[q]) <= T
                      /\ pc'[q] = "pushCas" /\ pos[q] = tail => sequence[Cell(pos[q])] = pos[q]
                      /\ q \in Owners' => /\ H + 1 <= Age(pos[q]) /\ Age(pos[q]) < T
                                          /\ sequence[Cell(pos[q])] = pos[q]
    BY <1>1, <1>4 DEF ProducerPlace, Cell
  <2>1. pc'[q] = pc[q] /\ (q \in Trying' <=> q \in Trying) /\ (q \in Owners' <=> q \in Owners)
    BY <1>1, <1>6 DEF Trying
  <2>2. q \in Owners => H + 1 <= Age(pos[q])
    BY <1>7, Owned
  <2> QED BY <2>1, <2>2 DEF IInv, ProducerPlace
<1>11. ConsumerPlace'
  <2> SUFFICES ASSUME NEW d \in Consumers
               PROVE  /\ pc'[d] \in {"pullSeq", "pullReload", "pullCas"} => Age(pos[d]) <= H + 1
                      /\ pc'[d] = "pullCas" /\ pos[d] = head' => sequence[Cell(pos[d])] = Plus(pos[d], 1)
                      /\ d \in Owners' => /\ T - Size <= Age(pos[d]) /\ Age(pos[d]) < H + 1
                                          /\ sequence[Cell(pos[d])] = Plus(pos[d], 1)
    BY <1>1, <1>4 DEF ConsumerPlace, Cell, Plus
  <2>1. CASE d = c
    BY <1>1, <1>2, <2>1 DEF H
  <2>2. CASE d # c
    <3>1. pc'[d] = pc[d] /\ (d \in Owners' <=> d \in Owners)
      BY <1>1, <1>6, <2>2
    <3>2. /\ pc[d] \in {"pullSeq", "pullReload", "pullCas"} => Age(pos[d]) <= H
          /\ d \in Owners => /\ T - Size <= Age(pos[d]) /\ Age(pos[d]) < H
                             /\ sequence[Cell(pos[d])] = Plus(pos[d], 1)
      BY DEF IInv, ConsumerPlace
    <3>3. Age(pos[d]) \in Nat
      BY AgeType
    <3>4. ASSUME pc[d] = "pullCas", pos[d] = head' PROVE FALSE
      BY <1>1, <1>2, <3>2, <3>4
    <3> QED BY <3>1, <3>2, <3>3, <3>4
  <2> QED BY <2>1, <2>2
<1> QED BY <1>3, <1>4, <1>2, <1>8, <1>9, <1>10, <1>11

\* An owner hands its cell on: nobody else relies on that cell's sequence.
LEMMA HandOver ==
  ASSUME IInv, NEW w \in Owners, NEW v, UNCHANGED <<tail, head, pos>>,
         pc' = [pc EXCEPT ![w] = "idle"],
         sequence' = [sequence EXCEPT ![Cell(pos[w])] = v]
  PROVE  /\ T' = T /\ H' = H /\ Owners' = Owners \ {w}
         /\ OwnersDiffer' /\ ProducerPlace' /\ ConsumerPlace'
<1> USE Basics
<1> DEFINE x == Age(pos[w])
<1>1. T' = T /\ H' = H
  BY DEF T, H, Age, Minus
<1>2. Owners' = Owners \ {w}
  BY DEF Owners
<1>3. OwnersDiffer'
  BY <1>2 DEF IInv, OwnersDiffer
<1>4. w \in Threads /\ pos[w] \in Positions /\ x \in Nat /\ x \in Int /\ x < T /\ Cell(pos[w]) = CellOf(x)
      /\ (w \in Producers => Seqn(x) = x) /\ (w \in Consumers => Seqn(x) = x + 1 /\ x < H)
  BY Owned, CellAge DEF Owners
<1> HIDE DEF x
<1>5. \A i : i # Cell(pos[w]) => sequence'[i] = sequence[i]
  BY DEF TypeOK
<1>6. \A t \in Owners : t # w => Cell(pos[t]) # Cell(pos[w])
  BY ExclusiveCells DEF CellExclusive
<1>7. ASSUME NEW q \in Producers, pc[q] = "pushCas", pos[q] = tail
      PROVE  Cell(pos[q]) # Cell(pos[w])
  <2> SUFFICES ASSUME Cell(pos[q]) = Cell(pos[w]) PROVE FALSE
    OBVIOUS
  <2>1. sequence[Cell(tail)] = tail
    BY <1>7 DEF IInv, ProducerPlace
  <2>2. Seqn(T) = T /\ CellOf(T) = CellOf(x)
    BY <1>4, <1>7, <2>1, SequenceAge, CellAge DEF T
  <2>3. Seqn(x) = T
    BY <2>2 DEF Seqn
  <2>4. x = T - 1
    BY <1>4, <2>3
  <2> QED BY <1>4, <2>2, <2>4, CellsDistinct
<1>8. ASSUME NEW c \in Consumers, pc[c] = "pullCas", pos[c] = head
      PROVE  Cell(pos[c]) # Cell(pos[w])
  <2> SUFFICES ASSUME Cell(pos[c]) = Cell(pos[w]) PROVE FALSE
    OBVIOUS
  <2>1. sequence[Cell(head)] = Plus(head, 1)
    BY <1>8 DEF IInv, ConsumerPlace
  <2>2. Age(Plus(head, 1)) = H + 1
    BY AgePlus DEF H
  <2>3. Seqn(H) = H + 1 /\ CellOf(H) = CellOf(x)
    BY <1>4, <1>8, <2>1, <2>2, SequenceAge, CellAge DEF H
  <2>4. Seqn(x) = H + 1
    BY <2>3 DEF Seqn
  <2>5. x = H + 1
    BY <1>4, <2>4
  <2> QED BY <1>4, <2>3, <2>5, CellsDistinct
<1>9. ProducerPlace'
  <2> SUFFICES ASSUME NEW q \in Producers
               PROVE  /\ q \in Trying' => Age(pos[q]) <= T
                      /\ pc'[q] = "pushCas" /\ pos[q] = tail => sequence'[Cell(pos[q])] = pos[q]
                      /\ q \in Owners' => /\ H <= Age(pos[q]) /\ Age(pos[q]) < T
                                          /\ sequence'[Cell(pos[q])] = pos[q]
    BY <1>1 DEF ProducerPlace, Cell
  <2>1. (q \in Trying' => q \in Trying) /\ (pc'[q] = "pushCas" => pc[q] = "pushCas")
    BY DEF Trying
  <2> QED BY <1>2, <1>5, <1>6, <1>7, <2>1 DEF IInv, ProducerPlace
<1>10. ConsumerPlace'
  <2> SUFFICES ASSUME NEW c \in Consumers
               PROVE  /\ pc'[c] \in {"pullSeq", "pullReload", "pullCas"} => Age(pos[c]) <= H
                      /\ pc'[c] = "pullCas" /\ pos[c] = head => sequence'[Cell(pos[c])] = Plus(pos[c], 1)
                      /\ c \in Owners' => /\ T - Size <= Age(pos[c]) /\ Age(pos[c]) < H
                                          /\ sequence'[Cell(pos[c])] = Plus(pos[c], 1)
    BY <1>1 DEF ConsumerPlace, Cell, Plus
  <2>1. pc'[c] \in {"pullSeq", "pullReload", "pullCas"} => pc'[c] = pc[c]
    OBVIOUS
  <2> QED BY <1>2, <1>5, <1>6, <1>8, <2>1 DEF IInv, ConsumerPlace
<1> QED BY <1>1, <1>2, <1>3, <1>9, <1>10

\* A producer publishes its cell.
LEMMA PushPublishStep ==
  ASSUME IInv, NEW p \in Producers, PushPublish(p)
  PROVE  T' = T /\ H' = H /\ CellStates' /\ OwnersDiffer' /\ ProducerPlace' /\ ConsumerPlace'
<1> USE Basics
<1>0. PICK x \in Int : x = Age(pos[p])
  BY AgeType
<1>1. /\ pc[p] = "pushPublish" /\ pc' = [pc EXCEPT ![p] = "idle"] /\ p \in Owners
      /\ sequence' = [sequence EXCEPT ![Cell(pos[p])] = Plus(pos[p], 1)]
      /\ UNCHANGED <<tail, head, pos>>
  BY DEF PushPublish, Goto, Owners
<1>2. T' = T /\ H' = H /\ Owners' = Owners \ {p} /\ OwnersDiffer' /\ ProducerPlace' /\ ConsumerPlace'
  BY <1>1, HandOver
<1>3. /\ x \in Nat /\ H <= x /\ x < T /\ Cell(pos[p]) = CellOf(x) /\ CellOf(x) \in Cells
      /\ Age(Plus(pos[p], 1)) = x + 1
  BY <1>0, <1>1, Owned, CellAge, AgePlus
<1>4. Seqn(x)' = x + 1
  BY <1>1, <1>3 DEF Seqn, TypeOK, Age, Minus, CellOf
<1>5. \A k : CellOf(k) # CellOf(x) => Seqn(k)' = Seqn(k)
  BY <1>1, <1>3 DEF Seqn, TypeOK, Age, Minus, CellOf
<1>6. CellStates'
  <2> SUFFICES ASSUME NEW k \in H..(H + Size - 1)
               PROVE \/ k < T /\ Seqn(k)' = k + 1
                     \/ k < T /\ Seqn(k)' = k
                        /\ \E q \in Producers : q \in Owners' /\ Age(pos[q]) = k
                     \/ k >= T /\ Seqn(k)' = k
                     \/ k >= T /\ Seqn(k)' = k - Size + 1
                        /\ \E c \in Consumers : c \in Owners' /\ Age(pos[c]) = k - Size
    BY <1>1, <1>2 DEF CellStates
  <2>1. CASE k = x
    BY <1>3, <1>4, <2>1
  <2>2. CASE k # x
    <3>1. CellOf(k) # CellOf(x)
      BY <1>3, <2>2, CellsDistinct
    <3>2. Seqn(k)' = Seqn(k)
      BY <1>5, <3>1
    <3>3. \/ k < T /\ Seqn(k) = k + 1
          \/ k < T /\ Seqn(k) = k
             /\ \E q \in Producers : q \in Owners /\ Age(pos[q]) = k
          \/ k >= T /\ Seqn(k) = k
          \/ k >= T /\ Seqn(k) = k - Size + 1
             /\ \E c \in Consumers : c \in Owners /\ Age(pos[c]) = k - Size
      BY DEF CellStates
    <3>4. /\ \A q \in Producers : q \in Owners /\ Age(pos[q]) = k => q \in Owners'
          /\ \A c \in Consumers : c \in Owners => c \in Owners'
      BY <1>0, <1>2, <2>2
    <3> HIDE Basics
    <3> QED BY <3>2, <3>3, <3>4
  <2> QED BY <2>1, <2>2
<1> QED BY <1>2, <1>6

\* A consumer releases its cell for the next lap.
LEMMA PullReleaseStep ==
  ASSUME IInv, NEW c \in Consumers, PullRelease(c)
  PROVE  T' = T /\ H' = H /\ CellStates' /\ OwnersDiffer' /\ ProducerPlace' /\ ConsumerPlace'
<1> USE Basics
<1>0. PICK x \in Int : x = Age(pos[c])
  BY AgeType
<1>9. PICK y \in Int : y = x + Size
  OBVIOUS
<1>1. /\ pc[c] = "pullRelease" /\ pc' = [pc EXCEPT ![c] = "idle"] /\ c \in Owners
      /\ sequence' = [sequence EXCEPT ![Cell(pos[c])] = Plus(pos[c], Size)]
      /\ UNCHANGED <<tail, head, pos>>
  BY DEF PullRelease, Goto, Owners
<1>2. T' = T /\ H' = H /\ Owners' = Owners \ {c} /\ OwnersDiffer' /\ ProducerPlace' /\ ConsumerPlace'
  BY <1>1, HandOver
<1>3. /\ x \in Nat /\ x < H /\ Cell(pos[c]) = CellOf(x) /\ CellOf(x) \in Cells
      /\ y \in Nat /\ T <= y /\ y < H + Size /\ Age(Plus(pos[c], Size)) = y
      /\ CellOf(y) = CellOf(x)
  <2>1. x \in Nat /\ x < H /\ T - Size <= x
    BY <1>0, <1>1, Owned
  <2>2. Age(Plus(pos[c], Size)) = x + Size
    BY <1>0, <2>1, AgePlus
  <2>3. Cell(pos[c]) = CellOf(x) /\ CellOf(x) \in Cells
    BY <1>0, CellAge
  <2>4. CellOf(y) = CellOf(x)
    BY <1>9, CellOfLap
  <2> QED BY <1>9, <2>1, <2>2, <2>3, <2>4
<1>4. Seqn(y)' = y
  BY <1>1, <1>3 DEF Seqn, TypeOK, Age, Minus, CellOf
<1>5. \A k : CellOf(k) # CellOf(y) => Seqn(k)' = Seqn(k)
  BY <1>1, <1>3 DEF Seqn, TypeOK, Age, Minus, CellOf
<1>6. CellStates'
  <2> SUFFICES ASSUME NEW k \in H..(H + Size - 1)
               PROVE \/ k < T /\ Seqn(k)' = k + 1
                     \/ k < T /\ Seqn(k)' = k
                        /\ \E q \in Producers : q \in Owners' /\ Age(pos[q]) = k
                     \/ k >= T /\ Seqn(k)' = k
                     \/ k >= T /\ Seqn(k)' = k - Size + 1
                        /\ \E d \in Consumers : d \in Owners' /\ Age(pos[d]) = k - Size
    BY <1>1, <1>2 DEF CellStates
  <2>1. CASE k = y
    BY <1>3, <1>4, <2>1
  <2>2. CASE k # y
    <3>1. CellOf(k) # CellOf(y)
      BY <1>3, <2>2, CellsDistinct
    <3>2. Seqn(k)' = Seqn(k)
      BY <1>5, <3>1
    <3>3. \/ k < T /\ Seqn(k) = k + 1
          \/ k < T /\ Seqn(k) = k
             /\ \E q \in Producers : q \in Owners /\ Age(pos[q]) = k
          \/ k >= T /\ Seqn(k) = k
          \/ k >= T /\ Seqn(k) = k - Size + 1
             /\ \E d \in Consumers : d \in Owners /\ Age(pos[d]) = k - Size
      BY DEF CellStates
    <3>4. \A q \in Producers : q \in Owners => q \in Owners'
      BY <1>2
    <3>5. \A d \in Consumers : d \in Owners /\ Age(pos[d]) = k - Size => d \in Owners'
      BY <1>0, <1>9, <1>2, <2>2
    <3> HIDE Basics
    <3> QED BY <3>2, <3>3, <3>4, <3>5
  <2> QED BY <2>1, <2>2
<1> QED BY <1>2, <1>6

\* Steps of a producer that leave the shared counters and sequences alone
LEMMA QuietPush ==
  ASSUME IInv, NEW p \in Producers,
         \/ PushStart(p) \/ PushFree(p) \/ PushFull(p) \/ PushBehind(p)
         \/ PushReload(p) \/ PushClaimFailed(p) \/ PushWrite(p)
  PROVE  T' = T /\ H' = H /\ CellStates' /\ OwnersDiffer' /\ ProducerPlace' /\ ConsumerPlace'
<1> USE Basics
<1>0. \A v : [pc EXCEPT ![p] = v][p] = v /\ [pos EXCEPT ![p] = v][p] = v
  BY DEF TypeOK
<1>1. /\ UNCHANGED <<tail, head, sequence>>
      /\ pc' = [pc EXCEPT ![p] = pc'[p]]
      /\ \/ pc'[p] \in {"idle", "pushSeq", "pushReload", "pushCas"} /\ p \notin Owners
         \/ pc'[p] = "pushPublish" /\ p \in Owners
      /\ pos' = pos \/ pos' = [pos EXCEPT ![p] = tail]
      /\ pc'[p] = "pushSeq" => pos'[p] = tail
      /\ p \in Owners => pos' = pos /\ pc'[p] = "pushPublish"
      /\ pc'[p] = "pushCas" => sequence[Cell(pos[p])] = pos[p] /\ pos' = pos
      /\ pc'[p] \in {"pushReload", "pushCas"} => p \in Trying
  <2>1. CASE PushStart(p) \/ PushReload(p) \/ PushClaimFailed(p)
    <3> HIDE Basics
    <3> QED BY <1>0, <2>1 DEF PushStart, PushReload, PushClaimFailed, Goto, Owners
  <2>2. CASE PushFree(p)
    <3>1. sequence[Cell(pos[p])] = pos[p]
      BY <2>2, DiffZero, SequenceAge DEF PushFree, PushDiff
    <3>2. p \in Trying /\ p \notin Owners
      BY <2>2 DEF PushFree, Goto, Owners, Trying
    <3> HIDE Basics
    <3> QED BY <1>0, <2>2, <3>1, <3>2 DEF PushFree, Goto
  <2>3. CASE PushFull(p) \/ PushBehind(p)
    <3>1. p \in Trying /\ p \notin Owners
      BY <2>3 DEF PushFull, PushBehind, Goto, Owners, Trying
    <3> HIDE Basics
    <3> QED BY <1>0, <2>3, <3>1 DEF PushFull, PushBehind, Goto
  <2>4. CASE PushWrite(p)
    <3>1. p \in Owners
      BY <2>4 DEF PushWrite, Goto, Owners
    <3> HIDE Basics
    <3> QED BY <1>0, <2>4, <3>1 DEF PushWrite, Goto
  <2> QED BY <2>1, <2>2, <2>3, <2>4
<1>2. Owners' = Owners
  BY <1>1 DEF Owners
<1>3. \A t \in Threads : t # p => pos'[t] = pos[t] /\ pc'[t] = pc[t]
  BY <1>1 DEF TypeOK
<1>4. CellStates' /\ OwnersDiffer' /\ ProducersOwn' /\ ConsumersOwn' /\ T' = T /\ H' = H
  BY <1>1, <1>2, <1>3, QuietStep DEF Owners
<1>5. ProducerPlace'
  <2> SUFFICES ASSUME NEW q \in Producers
               PROVE  /\ q \in Trying' => Age(pos'[q]) <= T
                      /\ pc'[q] = "pushCas" /\ pos'[q] = tail => sequence[Cell(pos'[q])] = pos'[q]
    BY <1>1, <1>4 DEF ProducerPlace, ProducersOwn, Cell
  <2>1. /\ q \in Trying => Age(pos[q]) <= T
        /\ pc[q] = "pushCas" /\ pos[q] = tail => sequence[Cell(pos[q])] = pos[q]
    BY DEF IInv, ProducerPlace
  <2>2. CASE q = p
    <3>1. pos'[p] = tail \/ (p \in Trying /\ pos'[p] = pos[p]) \/ p \notin Trying'
      BY <1>0, <1>1 DEF Trying
    <3>2. Age(pos'[p]) = T \/ (p \in Trying /\ pos'[p] = pos[p]) \/ p \notin Trying'
      BY <3>1 DEF T
    <3> QED BY <1>1, <2>1, <2>2, <3>2
  <2>3. CASE q # p
    BY <1>3, <2>1, <2>3 DEF Trying
  <2> QED BY <2>2, <2>3
<1>6. ConsumerPlace'
  <2>1. \A c \in Consumers : pos'[c] = pos[c] /\ pc'[c] = pc[c]
    BY <1>3
  <2>2. H' = H /\ head' = head /\ sequence' = sequence
    BY <1>1, <1>4
  <2> QED BY <1>4, <2>1, <2>2 DEF IInv, ConsumerPlace, ConsumersOwn, Cell, Plus
<1> QED BY <1>4, <1>5, <1>6

\* Steps of a consumer that leave the shared counters and sequences alone
LEMMA QuietPull ==
  ASSUME IInv, NEW c \in Consumers,
         \/ AvailableFirst(c) \/ AvailableSecond(c) \/ PullStart(c)
         \/ PullReady(c) \/ PullEmpty(c) \/ PullBehind(c) \/ PullReload(c)
         \/ PullClaimFailed(c) \/ PullRead(c)
  PROVE  T' = T /\ H' = H /\ CellStates' /\ OwnersDiffer' /\ ProducerPlace' /\ ConsumerPlace'
<1> USE Basics
<1> DEFINE trying == {"pullSeq", "pullReload", "pullCas"}
<1>0. \A v : [pc EXCEPT ![c] = v][c] = v /\ [pos EXCEPT ![c] = v][c] = v
  BY DEF TypeOK
<1>1. /\ UNCHANGED <<tail, head, sequence>>
      /\ pc' = [pc EXCEPT ![c] = pc'[c]]
      /\ \/ pc'[c] \in {"idle", "availHead", "availTail", "pullStart", "pullSeq", "pullReload", "pullCas"}
            /\ c \notin Owners
         \/ pc'[c] = "pullRelease" /\ c \in Owners
      /\ pos' = pos \/ pos' = [pos EXCEPT ![c] = tail] \/ pos' = [pos EXCEPT ![c] = head]
      /\ c \in Owners => pos' = pos /\ pc'[c] = "pullRelease"
      /\ pc'[c] = "pullCas" => sequence[Cell(pos[c])] = Plus(pos[c], 1) /\ pos' = pos
      /\ pc'[c] \in trying => pos'[c] = head \/ (pos' = pos /\ pc[c] \in trying)
  <2>1. CASE AvailableFirst(c) \/ AvailableSecond(c)
    BY <2>1 DEF AvailableFirst, AvailableSecond, Goto, Owners, TypeOK
  <2>2. CASE PullStart(c) \/ PullReload(c) \/ PullClaimFailed(c)
    <3>1. c \notin Owners
      BY <2>2 DEF PullStart, PullReload, PullClaimFailed, Goto, Owners
    <3> HIDE Basics
    <3>2. /\ UNCHANGED <<tail, head, sequence>> /\ pc' = [pc EXCEPT ![c] = "pullSeq"]
          /\ pos' = [pos EXCEPT ![c] = head]
      BY <2>2 DEF PullStart, PullReload, PullClaimFailed, Goto
    <3>3. pc'[c] = "pullSeq" /\ pos'[c] = head
      BY <1>0, <3>2
    <3> QED BY <3>1, <3>2, <3>3
  <2>3. CASE PullReady(c)
    <3>1. Plus(pos[c], 1) \in Positions
      BY PlusType
    <3>2. sequence[Cell(pos[c])] = Plus(pos[c], 1)
      BY <2>3, <3>1, DiffZero, SequenceAge DEF PullReady, PullDiff
    <3> QED BY <2>3, <3>2 DEF PullReady, Goto, Owners, TypeOK
  <2>4. CASE PullEmpty(c) \/ PullBehind(c)
    BY <2>4 DEF PullEmpty, PullBehind, Goto, Owners, TypeOK
  <2>5. CASE PullRead(c)
    BY <2>5 DEF PullRead, Goto, Owners, TypeOK
  <2> QED BY <2>1, <2>2, <2>3, <2>4, <2>5
<1>2. Owners' = Owners
  BY <1>1 DEF Owners
<1>3. \A t \in Threads : t # c => pos'[t] = pos[t] /\ pc'[t] = pc[t]
  BY <1>1 DEF TypeOK
<1>4. CellStates' /\ OwnersDiffer' /\ ProducersOwn' /\ ConsumersOwn' /\ T' = T /\ H' = H
  BY <1>1, <1>2, <1>3, QuietStep DEF Owners
<1>5. ConsumerPlace'
  <2> SUFFICES ASSUME NEW d \in Consumers
               PROVE  /\ pc'[d] \in trying => Age(pos'[d]) <= H
                      /\ pc'[d] = "pullCas" /\ pos'[d] = head => sequence[Cell(pos'[d])] = Plus(pos'[d], 1)
    BY <1>1, <1>4 DEF ConsumerPlace, ConsumersOwn, Cell, Plus
  <2>1. /\ pc[d] \in trying => Age(pos[d]) <= H
        /\ pc[d] = "pullCas" /\ pos[d] = head => sequence[Cell(pos[d])] = Plus(pos[d], 1)
    BY DEF IInv, ConsumerPlace
  <2>2. CASE d = c
    BY <1>1, <2>1, <2>2 DEF H
  <2>3. CASE d # c
    BY <1>3, <2>1, <2>3
  <2> QED BY <2>2, <2>3
<1>6. ProducerPlace'
  <2>1. \A p \in Producers : pos'[p] = pos[p] /\ pc'[p] = pc[p]
    BY <1>3
  <2>2. T' = T /\ tail' = tail /\ sequence' = sequence
    BY <1>1, <1>4
  <2> QED BY <1>4, <2>1, <2>2 DEF IInv, ProducerPlace, ProducersOwn, Trying, Cell
<1> QED BY <1>4, <1>5, <1>6

LEMMA IInvStep ==
  ASSUME IInv, [Next]_vars
  PROVE  IInv'
<1>1. TypeOK' /\ Roles'
  BY NextType, NextRoles DEF IInv
<1>2. /\ H' <= T' /\ T' <= H' + Size
      /\ \A p \in Producers : PushClaim(p) => T' = T + 1
      /\ tail' # tail => \E p \in Producers : PushClaim(p)
      /\ CellStates' /\ OwnersDiffer' /\ ProducerPlace' /\ ConsumerPlace'
  <2>1. H <= T /\ T <= H + Size /\ T \in Nat /\ H \in Nat /\ Size \in Nat
        /\ \A p \in Producers : PushClaim(p) => T' = T + 1
    BY Basics, PushClaimStep
  <2>2. CASE \E p \in Producers :
               \/ PushStart(p) \/ PushFree(p) \/ PushFull(p) \/ PushBehind(p)
               \/ PushReload(p) \/ PushClaimFailed(p) \/ PushWrite(p)
    <3>1. tail' = tail
      BY <2>2 DEF PushStart, PushFree, PushFull, PushBehind, PushReload, PushClaimFailed, PushWrite
    <3> QED BY <2>1, <2>2, <3>1, QuietPush
  <2>3. CASE \E p \in Producers : PushClaim(p)
    BY <2>1, <2>3, PushClaimStep
  <2>4. CASE \E p \in Producers : PushPublish(p)
    BY <2>1, <2>4, PushPublishStep DEF PushPublish
  <2>5. CASE \E c \in Consumers :
               \/ AvailableFirst(c) \/ AvailableSecond(c) \/ PullStart(c)
               \/ PullReady(c) \/ PullEmpty(c) \/ PullBehind(c) \/ PullReload(c)
               \/ PullClaimFailed(c) \/ PullRead(c)
    <3>1. tail' = tail
      BY <2>5 DEF AvailableFirst, AvailableSecond, PullStart, PullReady, PullEmpty, PullBehind,
                  PullReload, PullClaimFailed, PullRead
    <3> QED BY <2>1, <2>5, <3>1, QuietPull
  <2>6. CASE \E c \in Consumers : PullClaim(c)
    BY <2>1, <2>6, PullClaimStep DEF PullClaim
  <2>7. CASE \E c \in Consumers : PullRelease(c)
    BY <2>1, <2>7, PullReleaseStep DEF PullRelease
  <2>8. CASE UNCHANGED vars
    <3>1. UNCHANGED <<tail, head, sequence, pos, pc>> /\ Owners' = Owners /\ Trying' = Trying
      BY <2>8 DEF vars, Owners, Trying
    <3>2. CellStates' /\ OwnersDiffer' /\ ProducersOwn' /\ ConsumersOwn' /\ T' = T /\ H' = H
      BY <3>1, QuietStep
    <3>3. ProducerPlace' /\ ConsumerPlace'
      BY <3>1, <3>2 DEF IInv, ProducerPlace, ConsumerPlace, ProducersOwn, ConsumersOwn, Cell, Plus
    <3> QED BY <2>1, <3>1, <3>2, <3>3
  <2> QED BY <2>2, <2>3, <2>4, <2>5, <2>6, <2>7, <2>8 DEF Next
<1>3. Counters'
  BY <1>2, NextCounters DEF IInv
<1> QED BY <1>1, <1>2, <1>3 DEF IInv

-----------------------------------------------------------------------------
(* What the invariant gives *)

LEMMA Invariant == Spec => []IInv
<1>1. Init => IInv
  BY InitIInv
<1>2. IInv /\ [Next]_vars => IInv'
  BY IInvStep
<1> QED BY <1>1, <1>2, PTL DEF Spec

(* Every counter stays a size_t, every cell's sequence a position and every  *)
(* thread inside its own function, whatever the number of threads.           *)
THEOREM TypeCorrect == Spec => []TypeOK
<1>1. IInv => TypeOK
  BY DEF IInv
<1> QED BY <1>1, Invariant, PTL

(* Between its claim of a position and the store that hands the cell on, a   *)
(* thread has the cell, and its plain data field, to itself.                 *)
THEOREM CellsExclusive == Spec => []CellExclusive
<1>1. IInv => CellExclusive
  BY ExclusiveCells
<1> QED BY <1>1, Invariant, PTL

\* A push that finds the previous lap's sequence in its cell is at the tail of
\* a queue that is full, or whose next cell a consumer still holds.
LEMMA RefusalStep ==
  ASSUME IInv, NEW p \in Producers, PushFull(p)
  PROVE  /\ pos[p] = tail
         /\ \/ Minus(tail, head) = Size
            \/ \E c \in Consumers : c \in Owners /\ pos[c] = Minus(tail, Size)
<1> USE Basics
<1>1. PICK x \in Nat : x = Age(pos[p])
  BY AgeType
<1>2. x <= T
  <2>1. p \in Trying
    BY DEF PushFull, Goto, Trying
  <2> QED BY <1>1, <2>1 DEF IInv, ProducerPlace
<1>3. /\ Seqn(x) \in Nat /\ Seqn(x) <= T + Size
      /\ \/ x \in H..(H + Size - 1)
         \/ x < H /\ Seqn(x) >= x + 1
         \/ x = T /\ T = H + Size /\ Seqn(x) <= H + 1
  BY <1>2, Found
<1>4. Seqn(x) < x
  <2>1. sequence[Cell(pos[p])] \in Positions /\ Age(sequence[Cell(pos[p])]) = Seqn(x)
    BY <1>1, SequenceAge
  <2>2. T + 2 * Size < SizeT \div 2 /\ SizeT \div 2 \in Nat
    BY Bounds, Sizes
  <2>3. Seqn(x) - x < SizeT \div 2 /\ x - Seqn(x) < SizeT \div 2
    BY <1>2, <1>3, <2>2
  <2>4. PushDiff(p) = Seqn(x) - x
    BY <1>1, <2>1, <2>3, DiffAge DEF PushDiff
  <2>5. PushDiff(p) < 0
    BY DEF PushFull
  <2> QED BY <1>3, <2>4, <2>5
<1>5. CASE x \in H..(H + Size - 1)
  <2>1. \/ x < T /\ Seqn(x) = x + 1
        \/ x < T /\ Seqn(x) = x
        \/ x >= T /\ Seqn(x) = x
        \/ x >= T /\ Seqn(x) = x - Size + 1
           /\ \E c \in Consumers : c \in Owners /\ Age(pos[c]) = x - Size
    BY <1>5 DEF CellStates
  <2>2. x = T /\ \E c \in Consumers : c \in Owners /\ Age(pos[c]) = x - Size
    BY <1>2, <1>3, <1>4, <2>1
  <2>3. PICK c \in Consumers : c \in Owners /\ Age(pos[c]) = x - Size
    BY <2>2
  <2>4. pos[p] = tail
    BY <1>1, <2>2, AgeInjective DEF T
  <2>5. Plus(pos[c], Size) = tail
    <3>1. Age(pos[c]) + Size = T /\ Age(pos[c]) + Size < SizeT
      BY <2>2, <2>3
    <3>2. Plus(pos[c], Size) \in Positions /\ Age(Plus(pos[c], Size)) = T
      BY <3>1, AgePlus
    <3> QED BY <3>2, AgeInjective DEF T
  <2>6. Minus(tail, Size) = pos[c]
    <3> DEFINE s == pos[c] + Size
               w == -Size
    <3>1. s \in Int /\ w \in Int /\ s + w = pos[c] /\ SizeT \in Nat \ {0}
      <4>1. pos[c] \in Int
        BY AgeType
      <4> QED BY <4>1, Sizes
    <3>2. tail = s % SizeT /\ tail - Size = (s % SizeT) + w
      <4>1. tail = s % SizeT
        BY <2>5 DEF Plus
      <4>2. tail \in Int
        BY AgeType
      <4> HIDE DEF s
      <4> QED BY <4>1, <4>2
    <3> HIDE DEF s, w
    <3>3. ((s % SizeT) + w) % SizeT = (s + w) % SizeT
      BY <3>1, Reduced
    <3> QED BY <3>1, <3>2, <3>3, Small DEF Minus
  <2> QED BY <2>3, <2>4, <2>6
<1>6. CASE x \notin H..(H + Size - 1)
  <2>1. x = T /\ T = H + Size
    BY <1>3, <1>4, <1>6
  <2>2. pos[p] = tail
    BY <1>1, <2>1, AgeInjective DEF T
  <2>3. Minus(tail, head) = Size
    BY <2>1, MinusAge DEF T, H
  <2> QED BY <2>2, <2>3
<1> QED BY <1>5, <1>6

(* A full queue is the only reason to refuse a descriptor, or a consumer     *)
(* that has claimed but not yet released the one that was a lap ahead.       *)
THEOREM RefusalIsHonest == Spec => RefusedOnlyWhenFull
<1> DEFINE Honest ==
      \A p \in Producers :
        pc[p] = "pushSeq" /\ pc'[p] = "idle" =>
          /\ pos[p] = tail
          /\ \/ Minus(tail, head) = Size
             \/ \E c \in Consumers : c \in Owners /\ pos[c] = Minus(tail, Size)
<1>1. IInv /\ [Next]_vars => [Honest]_vars
  <2> SUFFICES ASSUME IInv, Next PROVE Honest
    OBVIOUS
  <2> SUFFICES ASSUME NEW p \in Producers, pc[p] = "pushSeq", pc'[p] = "idle"
               PROVE  PushFull(p)
    BY RefusalStep
  <2> USE Basics DEF Goto
  <2>1. ASSUME NEW q \in Producers,
               \/ PushStart(q) \/ PushFree(q) \/ PushFull(q) \/ PushBehind(q)
               \/ PushReload(q) \/ PushClaim(q) \/ PushClaimFailed(q)
               \/ PushWrite(q) \/ PushPublish(q)
        PROVE  PushFull(p)
    BY <2>1 DEF PushStart, PushFree, PushFull, PushBehind, PushReload, PushClaim,
                PushClaimFailed, PushWrite, PushPublish
  <2>2. ASSUME NEW c \in Consumers,
               \/ AvailableFirst(c) \/ AvailableSecond(c) \/ PullStart(c)
               \/ PullReady(c) \/ PullEmpty(c) \/ PullBehind(c) \/ PullReload(c)
               \/ PullClaim(c) \/ PullClaimFailed(c) \/ PullRead(c) \/ PullRelease(c)
        PROVE  PushFull(p)
    <3>1. p # c
      OBVIOUS
    <3>2. \E s : pc' = [pc EXCEPT ![c] = s]
      BY <2>2 DEF AvailableFirst, AvailableSecond, PullStart, PullReady, PullEmpty, PullBehind,
                  PullReload, PullClaim, PullClaimFailed, PullRead, PullRelease
    <3> QED BY <3>1, <3>2
  <2> QED BY <2>1, <2>2 DEF Next
<1> QED BY <1>1, Invariant, PTL DEF Spec, RefusedOnlyWhenFull

\* A pull that finds its cell not published is at the head of a queue that is
\* empty, or whose oldest position a producer has not published.
LEMMA EmptyStep ==
  ASSUME IInv, NEW c \in Consumers, PullEmpty(c)
  PROVE  /\ pos[c] = head
         /\ \/ tail = head
            \/ \E p \in Producers : p \in Owners /\ pos[p] = head
<1> USE Basics
<1>1. PICK x \in Nat : x = Age(pos[c])
  BY AgeType
<1>2. x <= H
  <2>1. pc[c] = "pullSeq"
    BY DEF PullEmpty, Goto
  <2> QED BY <1>1, <2>1 DEF IInv, ConsumerPlace
<1>3. /\ Seqn(x) \in Nat /\ Seqn(x) <= T + Size
      /\ \/ x \in H..(H + Size - 1)
         \/ x < H /\ Seqn(x) >= x + 1
         \/ x = T /\ T = H + Size /\ Seqn(x) <= H + 1
  BY <1>2, Found
<1>4. Seqn(x) <= x
  <2>1. sequence[Cell(pos[c])] \in Positions /\ Age(sequence[Cell(pos[c])]) = Seqn(x)
    BY <1>1, SequenceAge
  <2>2. Plus(pos[c], 1) \in Positions /\ Age(Plus(pos[c], 1)) = x + 1
    BY <1>1, <1>2, AgePlus
  <2>3. T + 2 * Size < SizeT \div 2 /\ SizeT \div 2 \in Nat
    BY Bounds, Sizes
  <2>4. Seqn(x) - (x + 1) < SizeT \div 2 /\ (x + 1) - Seqn(x) < SizeT \div 2
    BY <1>2, <1>3, <2>3
  <2>5. PullDiff(c) = Seqn(x) - (x + 1)
    BY <2>1, <2>2, <2>4, DiffAge DEF PullDiff
  <2>6. PullDiff(c) < 0
    BY DEF PullEmpty
  <2> QED BY <1>3, <2>5, <2>6
<1>5. x = H
  BY <1>2, <1>3, <1>4
<1>6. pos[c] = head
  BY <1>1, <1>5, AgeInjective DEF H
<1>7. \/ H < T /\ \E p \in Producers : p \in Owners /\ Age(pos[p]) = H
      \/ H >= T
  <2>1. \/ H < T /\ Seqn(H) = H + 1
        \/ H < T /\ Seqn(H) = H /\ \E p \in Producers : p \in Owners /\ Age(pos[p]) = H
        \/ H >= T
    BY DEF CellStates
  <2> QED BY <1>4, <1>5, <2>1
<1>8. CASE H >= T
  BY <1>6, <1>8, AgeInjective DEF T, H
<1>9. CASE \E p \in Producers : p \in Owners /\ Age(pos[p]) = H
  BY <1>6, <1>9, AgeInjective DEF H
<1> QED BY <1>7, <1>8, <1>9

(* A pull comes back empty-handed only from an empty queue, or from one      *)
(* whose oldest descriptor a producer is still writing.                      *)
THEOREM EmptyIsHonest == Spec => EmptyOnlyWhenNothingReady
<1> DEFINE Honest ==
      \A c \in Consumers :
        pc[c] = "pullSeq" /\ pc'[c] = "idle" =>
          /\ pos[c] = head
          /\ \/ tail = head
             \/ \E p \in Producers : p \in Owners /\ pos[p] = head
<1>1. IInv /\ [Next]_vars => [Honest]_vars
  <2> SUFFICES ASSUME IInv, Next PROVE Honest
    OBVIOUS
  <2> SUFFICES ASSUME NEW c \in Consumers, pc[c] = "pullSeq", pc'[c] = "idle"
               PROVE  PullEmpty(c)
    BY EmptyStep
  <2> USE Basics DEF Goto
  <2>1. ASSUME NEW p \in Producers,
               \/ PushStart(p) \/ PushFree(p) \/ PushFull(p) \/ PushBehind(p)
               \/ PushReload(p) \/ PushClaim(p) \/ PushClaimFailed(p)
               \/ PushWrite(p) \/ PushPublish(p)
        PROVE  PullEmpty(c)
    <3>1. p # c
      OBVIOUS
    <3>2. \E s : pc' = [pc EXCEPT ![p] = s]
      BY <2>1 DEF PushStart, PushFree, PushFull, PushBehind, PushReload, PushClaim,
                  PushClaimFailed, PushWrite, PushPublish
    <3> QED BY <3>1, <3>2
  <2>2. ASSUME NEW d \in Consumers,
               \/ AvailableFirst(d) \/ AvailableSecond(d) \/ PullStart(d)
               \/ PullReady(d) \/ PullEmpty(d) \/ PullBehind(d) \/ PullReload(d)
               \/ PullClaim(d) \/ PullClaimFailed(d) \/ PullRead(d) \/ PullRelease(d)
        PROVE  PullEmpty(c)
    BY <2>2 DEF AvailableFirst, AvailableSecond, PullStart, PullReady, PullEmpty, PullBehind,
                PullReload, PullClaim, PullClaimFailed, PullRead, PullRelease
  <2> QED BY <2>1, <2>2 DEF Next
<1> QED BY <1>1, Invariant, PTL DEF Spec, EmptyOnlyWhenNothingReady

-----------------------------------------------------------------------------
(* The queue implements BoundedFifo. *)

\* What a producer carries is a descriptor, and it has written its cell before
\* it publishes it.
Payload ==
  \A p \in Producers :
    /\ pc[p] # "idle" => arg[p] \in Values
    /\ pc[p] = "pushPublish" => data[Cell(pos[p])] = arg[p]

LEMMA PayloadStep ==
  ASSUME IInv, Payload, [Next]_vars
  PROVE  Payload'
<1> USE Basics DEF Goto
<1>1. ASSUME NEW p \in Producers, PushStart(p) PROVE Payload'
  <2>1. <<p, pushes[p] + 1>> \in Values
    <3>1. pushes[p] + 1 \in 1..MaxPush
      BY <1>1, QueueAssumption DEF PushStart, TypeOK
    <3> QED BY <3>1 DEF Values
  <2> QED BY <1>1, <2>1 DEF PushStart, Payload, Cell, TypeOK
<1>2. ASSUME NEW p \in Producers, PushFree(p) \/ PushFull(p) \/ PushBehind(p)
      PROVE  Payload'
  BY <1>2 DEF PushFree, PushFull, PushBehind, Payload, Cell
<1>3. ASSUME NEW p \in Producers, PushReload(p) \/ PushClaimFailed(p)
      PROVE  Payload'
  BY <1>3 DEF PushReload, PushClaimFailed, Payload, Cell, TypeOK
<1>4. ASSUME NEW p \in Producers, PushClaim(p) \/ PushPublish(p)
      PROVE  Payload'
  BY <1>4 DEF PushClaim, PushPublish, Payload, Cell
<1>5. ASSUME NEW p \in Producers, PushWrite(p) PROVE Payload'
  <2>1. /\ p \in Owners /\ data' = [data EXCEPT ![Cell(pos[p])] = arg[p]]
        /\ arg' = arg /\ pos' = pos /\ Cell(pos[p]) \in Cells
    BY <1>5, CellAge DEF PushWrite, Owners
  <2>2. data'[Cell(pos[p])] = arg[p] /\ \A i \in Cells : i # Cell(pos[p]) => data'[i] = data[i]
    BY <2>1 DEF TypeOK
  <2>3. ASSUME NEW q \in Producers, pc[q] = "pushPublish"
        PROVE  data'[Cell(pos[q])] = data[Cell(pos[q])] \/ q = p
    <3>1. q \in Owners /\ Cell(pos[q]) \in Cells
      BY <2>3, CellAge DEF Owners
    <3> QED BY <2>1, <2>2, <3>1, ExclusiveCells DEF CellExclusive
  <2>4. \A q \in Producers : q # p => pc'[q] = pc[q]
    BY <1>5 DEF PushWrite
  <2>5. \A q \in Producers : data'[Cell(pos[q])] = data[Cell(pos[q])] \/ q = p \/ pc[q] # "pushPublish"
    BY <2>3
  <2>6. pc[p] = "pushWrite"
    BY <1>5 DEF PushWrite
  <2> QED BY <2>1, <2>2, <2>4, <2>5, <2>6 DEF Payload, Cell
<1>6. ASSUME NEW c \in Consumers,
             \/ AvailableFirst(c) \/ AvailableSecond(c) \/ PullStart(c)
             \/ PullReady(c) \/ PullEmpty(c) \/ PullBehind(c) \/ PullReload(c)
             \/ PullClaim(c) \/ PullClaimFailed(c) \/ PullRead(c) \/ PullRelease(c)
      PROVE  Payload'
  <2>1. /\ data' = data /\ arg' = arg
        /\ \A p \in Producers : pc'[p] = pc[p] /\ pos'[p] = pos[p]
    <3>1. \A p \in Producers : p # c
      OBVIOUS
    <3>2. /\ data' = data /\ arg' = arg
          /\ \E s : pc' = [pc EXCEPT ![c] = s]
          /\ \E x : pos' = [pos EXCEPT ![c] = x]
      <4>1. pos = [pos EXCEPT ![c] = pos[c]]
        BY DEF TypeOK
      <4> HIDE Basics
      <4> QED BY <1>6, <4>1 DEF AvailableFirst, AvailableSecond, PullStart, PullReady,
                 PullEmpty, PullBehind, PullReload, PullClaim, PullClaimFailed, PullRead, PullRelease
    <3> QED BY <3>1, <3>2 DEF TypeOK
  <2> QED BY <2>1 DEF Payload, Cell
<1>7. ASSUME UNCHANGED vars PROVE Payload'
  BY <1>7 DEF vars, Payload, Cell
<1> QED BY <1>1, <1>2, <1>3, <1>4, <1>5, <1>6, <1>7 DEF Next

\* Of a position in the queue: the producer that claimed it and has not
\* published it holds the descriptor, or else the cell does.
LEMMA ValueHeld ==
  ASSUME OwnersDiffer, NEW x
  PROVE  /\ \A p \in Producers : p \in Owners /\ pos[p] = x => ValueAt(x) = arg[p]
         /\ (\A p \in Producers : ~(p \in Owners /\ pos[p] = x)) => ValueAt(x) = data[Cell(x)]
<1> DEFINE late == {p \in Producers : p \in Owners /\ pos[p] = x}
<1>1. ASSUME NEW p \in Producers, p \in Owners, pos[p] = x
      PROVE  ValueAt(x) = arg[p]
  <2>1. late = {p}
    BY <1>1 DEF OwnersDiffer
  <2>2. (CHOOSE q \in {p} : TRUE) = p
    OBVIOUS
  <2>3. (CHOOSE q \in late : TRUE) = p
    BY <2>1, <2>2
  <2> QED BY <2>1, <2>3 DEF ValueAt
<1>2. ASSUME \A p \in Producers : ~(p \in Owners /\ pos[p] = x)
      PROVE  ValueAt(x) = data[Cell(x)]
  <2>1. late = {}
    BY <1>2
  <2> QED BY <2>1 DEF ValueAt
<1> QED BY <1>1, <1>2

LEMMA ValueHeldNext ==
  ASSUME OwnersDiffer', NEW x
  PROVE  /\ \A p \in Producers : p \in Owners' /\ pos'[p] = x => ValueAt(x)' = arg'[p]
         /\ (\A p \in Producers : ~(p \in Owners' /\ pos'[p] = x)) => ValueAt(x)' = data'[Cell(x)]
<1> DEFINE late == {p \in Producers : p \in Owners' /\ pos'[p] = x}
<1>1. ASSUME NEW p \in Producers, p \in Owners', pos'[p] = x
      PROVE  ValueAt(x)' = arg'[p]
  <2>1. late = {p}
    BY <1>1 DEF OwnersDiffer
  <2>2. (CHOOSE q \in {p} : TRUE) = p
    OBVIOUS
  <2>3. (CHOOSE q \in late : TRUE) = p
    BY <2>1, <2>2
  <2> QED BY <2>1, <2>3 DEF ValueAt
<1>2. ASSUME \A p \in Producers : ~(p \in Owners' /\ pos'[p] = x)
      PROVE  ValueAt(x)' = data'[Cell(x)]
  <2>1. late = {}
    BY <1>2
  <2> QED BY <2>1 DEF ValueAt, Cell
<1> QED BY <1>1, <1>2

\* A position in the queue and its age
LEMMA QueuePosition ==
  ASSUME IInv, NEW i \in 0..(T - H)
  PROVE  Plus(head, i) \in Positions /\ Age(Plus(head, i)) = H + i
<1>1. i \in Nat /\ H + i < SizeT /\ head \in Positions
  BY Basics
<1> QED BY <1>1, AgePlus DEF H

LEMMA QueuedIsSeq ==
  ASSUME IInv
  PROVE  /\ Minus(tail, head) = T - H /\ T - H \in 0..Size
         /\ Queued = [i \in 1..(T - H) |-> ValueAt(Plus(head, i - 1))]
         /\ Queued \in [1..(T - H) -> Values \cup {NoValue}]
<1> USE Basics
<1>1. Minus(tail, head) = T - H /\ T - H \in 0..Size
  BY MinusAge DEF T, H
<1>2. Queued = [i \in 1..(T - H) |-> ValueAt(Plus(head, i - 1))]
  BY <1>1 DEF Queued
<1>3. ASSUME NEW i \in 1..(T - H)
      PROVE  ValueAt(Plus(head, i - 1)) \in Values \cup {NoValue}
  <2> DEFINE x == Plus(head, i - 1)
  <2>1. x \in Positions
    <3>1. i - 1 \in 0..(T - H)
      BY <1>1
    <3> QED BY <3>1, QueuePosition
  <2>2. OwnersDiffer
    BY DEF IInv
  <2>3. Cell(x) \in Cells
    BY <2>1, CellAge
  <2> HIDE DEF x
  <2>4. CASE \E p \in Producers : p \in Owners /\ pos[p] = x
    <3>1. PICK p \in Producers : p \in Owners /\ pos[p] = x
      BY <2>4
    <3>2. ValueAt(x) = arg[p]
      BY <2>2, <3>1, ValueHeld
    <3> QED BY <3>2 DEF TypeOK, x
  <2>5. CASE \A p \in Producers : ~(p \in Owners /\ pos[p] = x)
    <3>1. ValueAt(x) = data[Cell(x)]
      BY <2>2, <2>5, ValueHeld
    <3> QED BY <2>3, <3>1 DEF TypeOK, x
  <2> QED BY <2>4, <2>5
<1> QED BY <1>1, <1>2, <1>3

\* A step that moves no counter and changes nothing queued changes no queue.
LEMMA Unqueued ==
  ASSUME IInv, tail' = tail, head' = head,
         \A x \in Positions : H <= Age(x) /\ Age(x) < T => ValueAt(x)' = ValueAt(x)
  PROVE  Queued' = Queued
<1> USE Basics
<1>1. Minus(tail, head) = T - H /\ T - H \in 0..Size
      /\ Queued = [i \in 1..(T - H) |-> ValueAt(Plus(head, i - 1))]
  BY QueuedIsSeq
<1>2. Queued' = [i \in 1..(T - H) |-> ValueAt(Plus(head, i - 1))']
  BY <1>1 DEF Queued, Minus, Plus
<1>3. ASSUME NEW i \in 1..(T - H)
      PROVE  ValueAt(Plus(head, i - 1))' = ValueAt(Plus(head, i - 1))
  <2>1. PICK x \in Positions : x = Plus(head, i - 1) /\ Age(x) = H + (i - 1)
    <3>1. i - 1 \in 0..(T - H)
      BY SMTT(30), <1>1
    <3> QED BY <3>1, QueuePosition
  <2>2. ValueAt(x)' = ValueAt(x)
    <3>1. H <= Age(x) /\ Age(x) < T
      BY SMTT(30), <1>1, <2>1
    <3> HIDE Basics
    <3> QED BY <3>1
  <2>3. x = Plus(head, i - 1)'
    BY <2>1 DEF Plus
  <2> QED BY <2>1, <2>2, <2>3 DEF ValueAt, Cell
<1> QED BY <1>1, <1>2, <1>3

\* What producers hold and cells contain is what it was.
LEMMA Unaltered ==
  ASSUME IInv, OwnersDiffer', data' = data,
         \A p \in Producers : (p \in Owners' <=> p \in Owners)
                              /\ (p \in Owners => pos'[p] = pos[p] /\ arg'[p] = arg[p]),
         NEW x
  PROVE  ValueAt(x)' = ValueAt(x)
<1>1. OwnersDiffer
  BY DEF IInv
<1>2. CASE \E p \in Producers : p \in Owners /\ pos[p] = x
  <2>1. PICK p \in Producers : p \in Owners /\ pos[p] = x
    BY <1>2
  <2>2. ValueAt(x) = arg[p]
    BY <1>1, <2>1, ValueHeld
  <2>3. p \in Owners' /\ pos'[p] = x /\ arg'[p] = arg[p]
    BY <2>1
  <2>4. ValueAt(x)' = arg'[p]
    BY <2>3, ValueHeldNext
  <2> QED BY <2>2, <2>3, <2>4
<1>3. CASE \A p \in Producers : ~(p \in Owners /\ pos[p] = x)
  <2>1. ValueAt(x) = data[Cell(x)]
    BY <1>1, <1>3, ValueHeld
  <2>2. \A p \in Producers : ~(p \in Owners' /\ pos'[p] = x)
    BY <1>3
  <2>3. ValueAt(x)' = data'[Cell(x)]
    BY <2>2, ValueHeldNext
  <2> QED BY <2>1, <2>3
<1> QED BY <1>2, <1>3

\* Steps of a producer between which the queue stays as it is
LEMMA PushStutters ==
  ASSUME IInv, OwnersDiffer', NEW p \in Producers,
         \/ PushStart(p) \/ PushFree(p) \/ PushFull(p) \/ PushBehind(p)
         \/ PushReload(p) \/ PushClaimFailed(p)
  PROVE  UNCHANGED <<Queued, Got>>
<1> USE Basics DEF Goto
<1>1. /\ tail' = tail /\ head' = head /\ data' = data /\ taken' = taken
      /\ p \notin Owners /\ p \notin Owners'
      /\ \A t \in Threads : t # p => pc'[t] = pc[t] /\ pos'[t] = pos[t]
      /\ \A q \in Producers : q # p => arg'[q] = arg[q]
  <2>1. CASE PushStart(p) \/ PushReload(p) \/ PushClaimFailed(p)
    BY <2>1 DEF PushStart, PushReload, PushClaimFailed, Owners, TypeOK
  <2>2. CASE PushFree(p) \/ PushFull(p) \/ PushBehind(p)
    BY <2>2 DEF PushFree, PushFull, PushBehind, Owners, TypeOK
  <2> QED BY <2>1, <2>2
<1>2. \A q \in Producers : (q \in Owners' <=> q \in Owners)
                           /\ (q \in Owners => pos'[q] = pos[q] /\ arg'[q] = arg[q])
  BY <1>1 DEF Owners
<1>3. Queued' = Queued
  <2>1. \A x : ValueAt(x)' = ValueAt(x)
    BY <1>1, <1>2, Unaltered
  <2> QED BY <1>1, <2>1, Unqueued
<1>4. Got' = Got
  BY <1>1 DEF Got, Cell
<1> QED BY <1>3, <1>4

\* The descriptor goes from the producer's hands into its cell.
LEMMA PushWriteStutters ==
  ASSUME IInv, OwnersDiffer', NEW p \in Producers, PushWrite(p)
  PROVE  UNCHANGED <<Queued, Got>>
<1> USE Basics DEF Goto
<1>1. /\ tail' = tail /\ head' = head /\ taken' = taken /\ arg' = arg /\ pos' = pos
      /\ data' = [data EXCEPT ![Cell(pos[p])] = arg[p]]
      /\ p \in Owners /\ Owners' = Owners
      /\ \A t \in Threads : t # p => pc'[t] = pc[t]
  BY DEF PushWrite, Owners
<1>2. \A i \in Cells : i # Cell(pos[p]) => data'[i] = data[i]
  BY <1>1 DEF TypeOK
<1>3. OwnersDiffer
  BY DEF IInv
<1>4. ASSUME NEW x \in Positions, H <= Age(x), Age(x) < T
      PROVE  ValueAt(x)' = ValueAt(x)
  <2>1. CASE \E q \in Producers : q \in Owners /\ pos[q] = x
    <3>1. PICK q \in Producers : q \in Owners /\ pos[q] = x
      BY <2>1
    <3>2. ValueAt(x) = arg[q]
      BY <1>3, <3>1, ValueHeld
    <3>3. q \in Owners' /\ pos'[q] = x
      BY <1>1, <3>1
    <3>4. ValueAt(x)' = arg'[q]
      BY <3>3, ValueHeldNext
    <3> QED BY <1>1, <3>2, <3>4
  <2>2. CASE \A q \in Producers : ~(q \in Owners /\ pos[q] = x)
    <3>1. ValueAt(x) = data[Cell(x)]
      BY <1>3, <2>2, ValueHeld
    <3>2. \A q \in Producers : ~(q \in Owners' /\ pos'[q] = x)
      BY <1>1, <2>2
    <3>3. ValueAt(x)' = data'[Cell(x)]
      BY <3>2, ValueHeldNext
    <3>4. Cell(x) # Cell(pos[p])
      <4> SUFFICES ASSUME Cell(x) = Cell(pos[p]) PROVE FALSE
        OBVIOUS
      <4>1. /\ pos[p] \in Positions /\ Age(pos[p]) \in Nat /\ H <= Age(pos[p]) /\ Age(pos[p]) < T
            /\ Age(x) \in Nat
        BY <1>1, Owned, AgeType
      <4>2. CellOf(Age(x)) = CellOf(Age(pos[p]))
        BY <4>1, CellAge
      <4>3. Age(x) - Age(pos[p]) < Size /\ Age(pos[p]) - Age(x) < Size
            /\ Age(x) \in Int /\ Age(pos[p]) \in Int
        BY <1>4, <4>1
      <4>4. Age(x) = Age(pos[p])
        BY <4>2, <4>3, CellsDistinct
      <4>5. x = pos[p]
        BY <4>1, <4>4, AgeInjective
      <4> QED BY <1>1, <2>2, <4>5
    <3>5. Cell(x) \in Cells
      BY CellAge
    <3> QED BY <1>2, <3>1, <3>3, <3>4, <3>5
  <2> QED BY <2>1, <2>2
<1>5. Queued' = Queued
  BY <1>1, <1>4, Unqueued
<1>6. Got' = Got
  <2>1. ASSUME NEW c \in Consumers
        PROVE  /\ pc'[c] = pc[c]
               /\ pc[c] = "pullRead" => data'[Cell(pos[c])] = data[Cell(pos[c])]
    <3>1. c # p /\ Cell(pos[c]) \in Cells
      BY CellAge
    <3>2. pc[c] = "pullRead" => c \in Owners
      BY DEF Owners
    <3>3. pc[c] = "pullRead" => Cell(pos[c]) # Cell(pos[p])
      BY <1>1, <3>1, <3>2, ExclusiveCells DEF CellExclusive
    <3> QED BY <1>1, <1>2, <3>1, <3>3
  <2> QED BY <1>1, <2>1 DEF Got, Cell
<1> QED BY <1>5, <1>6

\* A published descriptor is in its cell already.
LEMMA PushPublishStutters ==
  ASSUME IInv, Payload, OwnersDiffer', NEW p \in Producers, PushPublish(p)
  PROVE  UNCHANGED <<Queued, Got>>
<1> USE Basics DEF Goto
<1>1. /\ tail' = tail /\ head' = head /\ taken' = taken /\ arg' = arg /\ pos' = pos /\ data' = data
      /\ pc[p] = "pushPublish" /\ p \in Owners /\ Owners' = Owners \ {p}
      /\ \A t \in Threads : t # p => pc'[t] = pc[t]
  BY DEF PushPublish, Owners
<1>2. OwnersDiffer
  BY DEF IInv
<1>3. ASSUME NEW x PROVE ValueAt(x)' = ValueAt(x)
  <2>1. CASE \E q \in Producers : q \in Owners /\ pos[q] = x /\ q # p
    <3>1. PICK q \in Producers : q \in Owners /\ pos[q] = x /\ q # p
      BY <2>1
    <3>2. ValueAt(x) = arg[q]
      BY <1>2, <3>1, ValueHeld
    <3>3. q \in Owners' /\ pos'[q] = x
      BY <1>1, <3>1
    <3>4. ValueAt(x)' = arg'[q]
      BY <3>3, ValueHeldNext
    <3> QED BY <1>1, <3>2, <3>4
  <2>2. CASE \A q \in Producers : ~(q \in Owners /\ pos[q] = x /\ q # p)
    <3>1. ValueAt(x) = data[Cell(x)]
      <4>1. CASE pos[p] = x
        <5>1. ValueAt(x) = arg[p]
          BY <1>1, <1>2, <4>1, ValueHeld
        <5>2. data[Cell(pos[p])] = arg[p]
          BY <1>1 DEF Payload
        <5> QED BY <4>1, <5>1, <5>2
      <4>2. CASE pos[p] # x
        <5>1. \A q \in Producers : ~(q \in Owners /\ pos[q] = x)
          BY <2>2, <4>2
        <5> QED BY <1>2, <5>1, ValueHeld
      <4> QED BY <4>1, <4>2
    <3>2. \A q \in Producers : ~(q \in Owners' /\ pos'[q] = x)
      BY <1>1, <2>2
    <3>3. ValueAt(x)' = data'[Cell(x)]
      BY <3>2, ValueHeldNext
    <3> QED BY <1>1, <3>1, <3>3
  <2> QED BY <2>1, <2>2
<1>4. Queued' = Queued
  BY <1>1, <1>3, Unqueued
<1>5. Got' = Got
  BY <1>1 DEF Got, Cell
<1> QED BY <1>4, <1>5

\* Steps of a consumer between which the queue stays as it is
LEMMA PullStutters ==
  ASSUME IInv, OwnersDiffer', NEW c \in Consumers,
         \/ AvailableFirst(c) \/ AvailableSecond(c) \/ PullStart(c)
         \/ PullReady(c) \/ PullEmpty(c) \/ PullBehind(c) \/ PullReload(c)
         \/ PullClaimFailed(c) \/ PullRead(c) \/ PullRelease(c)
  PROVE  UNCHANGED <<Queued, Got>>
<1> USE Basics DEF Goto
<1>1. /\ tail' = tail /\ head' = head /\ data' = data /\ arg' = arg
      /\ \A t \in Threads : t # c => pc'[t] = pc[t] /\ pos'[t] = pos[t]
      /\ pc'[c] # "pullRead"
      /\ \/ taken' = taken /\ pc[c] # "pullRead"
         \/ pc[c] = "pullRead" /\ taken' = [taken EXCEPT ![c] = data[Cell(pos[c])]]
  <2>1. CASE AvailableFirst(c) \/ AvailableSecond(c)
    BY <2>1 DEF AvailableFirst, AvailableSecond, TypeOK
  <2>2. CASE PullStart(c) \/ PullReload(c) \/ PullClaimFailed(c)
    BY <2>2 DEF PullStart, PullReload, PullClaimFailed, TypeOK
  <2>3. CASE PullReady(c) \/ PullEmpty(c) \/ PullBehind(c)
    BY <2>3 DEF PullReady, PullEmpty, PullBehind
  <2>4. CASE PullRead(c) \/ PullRelease(c)
    BY <2>4 DEF PullRead, PullRelease
  <2> QED BY <2>1, <2>2, <2>3, <2>4
<1>2. \A q \in Producers : (q \in Owners' <=> q \in Owners)
                           /\ (q \in Owners => pos'[q] = pos[q] /\ arg'[q] = arg[q])
  <2>1. \A q \in Producers : q # c
    OBVIOUS
  <2> QED BY <1>1, <2>1 DEF Owners
<1>3. Queued' = Queued
  <2>1. \A x : ValueAt(x)' = ValueAt(x)
    BY <1>1, <1>2, Unaltered
  <2> QED BY <1>1, <2>1, Unqueued
<1>4. Got' = Got
  <2>1. taken'[c] = IF pc[c] = "pullRead" THEN data[Cell(pos[c])] ELSE taken[c]
    BY <1>1 DEF TypeOK
  <2>2. \A d \in Consumers : d # c => taken'[d] = taken[d] /\ pc'[d] = pc[d] /\ pos'[d] = pos[d]
    BY <1>1 DEF TypeOK
  <2>3. ASSUME NEW d \in Consumers
        PROVE  (IF pc'[d] = "pullRead" THEN data'[Cell(pos'[d])] ELSE taken'[d])
               = (IF pc[d] = "pullRead" THEN data[Cell(pos[d])] ELSE taken[d])
    BY <1>1, <2>1, <2>2
  <2> QED BY <2>3 DEF Got, Cell
<1> QED BY <1>3, <1>4

\* A producer's compare-and-swap on tail is an enqueue of the bounded FIFO.
LEMMA PushClaimEnqueues ==
  ASSUME IInv, OwnersDiffer', NEW p \in Producers, PushClaim(p)
  PROVE  Fifo!Enqueue(arg[p])
<1> USE Basics DEF Goto
<1> DEFINE n == T - H
<1>1. /\ tail = pos[p] /\ tail' = Plus(tail, 1) /\ pc[p] = "pushCas"
      /\ pc' = [pc EXCEPT ![p] = "pushWrite"]
      /\ UNCHANGED <<head, data, pos, arg, taken>>
      /\ Owners' = Owners \cup {p} /\ p \notin Owners
  BY DEF PushClaim, Owners
<1>2. T' = T + 1 /\ H' = H /\ T + 1 <= H + Size /\ n \in Nat
  BY PushClaimStep
<1>3. OwnersDiffer /\ Minus(tail, head) = n
      /\ Queued = [i \in 1..n |-> ValueAt(Plus(head, i - 1))]
      /\ Queued \in [1..n -> Values \cup {NoValue}]
  BY QueuedIsSeq DEF IInv
<1>4. Queued' = [i \in 1..(n + 1) |-> ValueAt(Plus(head, i - 1))']
  <2>1. Minus(tail', head) = n + 1
    <3>1. Plus(tail, 1) \in Positions /\ Age(Plus(tail, 1)) = T + 1
      BY AgePlus DEF T
    <3> QED BY <1>1, <3>1, MinusAge DEF H
  <2>2. head' = head
    BY <1>1
  <2> QED BY <2>1, <2>2 DEF Queued, Minus, Plus
<1>5. ASSUME NEW i \in 1..(n + 1)
      PROVE  ValueAt(Plus(head, i - 1))' = IF i = n + 1 THEN arg[p] ELSE Queued[i]
  <2>1. PICK x \in Positions : x = Plus(head, i - 1) /\ Age(x) = H + (i - 1)
    <3>1. i - 1 \in 0..(T - H)
      BY <1>2
    <3> QED BY <3>1, QueuePosition
  <2>2. ValueAt(Plus(head, i - 1))' = ValueAt(x)'
    BY <1>1, <2>1 DEF ValueAt, Cell, Plus
  <2>3. CASE i = n + 1
    <3>1. x = tail
      BY <1>2, <2>1, <2>3, AgeInjective DEF T
    <3>2. p \in Owners' /\ pos'[p] = x /\ arg'[p] = arg[p]
      BY <1>1, <3>1
    <3>3. ValueAt(x)' = arg'[p]
      BY <3>2, ValueHeldNext
    <3> QED BY <2>2, <2>3, <3>2, <3>3
  <2>4. CASE i # n + 1
    <3>1. i \in 1..n /\ Age(x) < T
      BY <1>2, <2>1, <2>4
    <3>2. x # pos[p]
      BY <1>1, <3>1 DEF T
    <3>3. Queued[i] = ValueAt(x)
      BY <1>3, <2>1, <3>1
    <3>4. ValueAt(x)' = ValueAt(x)
      <4>1. CASE \E q \in Producers : q \in Owners /\ pos[q] = x
        <5>1. PICK q \in Producers : q \in Owners /\ pos[q] = x
          BY <4>1
        <5>2. ValueAt(x) = arg[q]
          BY <1>3, <5>1, ValueHeld
        <5>3. q \in Owners' /\ pos'[q] = x /\ arg'[q] = arg[q]
          BY <1>1, <5>1
        <5>4. ValueAt(x)' = arg'[q]
          BY <5>3, ValueHeldNext
        <5> QED BY <5>2, <5>3, <5>4
      <4>2. CASE \A q \in Producers : ~(q \in Owners /\ pos[q] = x)
        <5>1. ValueAt(x) = data[Cell(x)]
          BY <1>3, <4>2, ValueHeld
        <5>2. \A q \in Producers : ~(q \in Owners' /\ pos'[q] = x)
          BY <1>1, <3>2, <4>2
        <5>3. ValueAt(x)' = data'[Cell(x)]
          BY <5>2, ValueHeldNext
        <5> QED BY <1>1, <5>1, <5>3
      <4> QED BY <4>1, <4>2
    <3> QED BY <2>2, <2>4, <3>3, <3>4
  <2> QED BY <2>3, <2>4
<1> HIDE DEF n
<1>6. Queued' = Append(Queued, arg[p]) /\ Len(Queued) = n
  <2>1. Queued' = [i \in 1..(n + 1) |-> IF i = n + 1 THEN arg[p] ELSE Queued[i]]
    BY <1>4, <1>5
  <2>2. arg[p] \in Values \cup {NoValue}
    BY DEF TypeOK
  <2> DEFINE f == Queued
             S == Values \cup {NoValue}
             e == arg[p]
  <2>3. f \in [1..n -> S] /\ e \in S /\ n \in Nat
    BY <1>2, <1>3, <2>2
  <2> HIDE DEF f, S, e
  <2> HIDE Basics
  <2>4. Len(f) = n
    BY <2>3, Length
  <2>5. Append(f, e) = [i \in 1..(n + 1) |-> IF i = n + 1 THEN e ELSE f[i]]
    BY <2>3, Appended
  <2> QED BY <2>1, <2>4, <2>5 DEF f, e
<1>7. Got' = Got
  <2>1. \A c \in Consumers : c # p
    OBVIOUS
  <2> QED BY <1>1, <2>1 DEF Got, Cell
<1>8. n < Size
  BY <1>2 DEF n
<1> QED BY <1>6, <1>7, <1>8 DEF Fifo!Enqueue

\* A consumer's compare-and-swap on head is a dequeue of the bounded FIFO.
LEMMA PullClaimDequeues ==
  ASSUME IInv, OwnersDiffer', NEW c \in Consumers, PullClaim(c)
  PROVE  Fifo!Dequeue(c)
<1> USE Basics DEF Goto
<1> DEFINE n == T - H
<1>1. /\ head = pos[c] /\ head' = Plus(head, 1) /\ pc[c] = "pullCas"
      /\ pc' = [pc EXCEPT ![c] = "pullRead"]
      /\ UNCHANGED <<tail, data, pos, arg, taken>>
      /\ \A p \in Producers : p \in Owners' <=> p \in Owners
  BY DEF PullClaim, Owners
<1>2. T' = T /\ H' = H + 1 /\ H + 1 <= T /\ n \in Nat /\ n > 0 /\ Seqn(H) = H + 1
  BY PullClaimStep
<1>3. OwnersDiffer /\ Minus(tail, head) = n
      /\ Queued = [i \in 1..n |-> ValueAt(Plus(head, i - 1))]
      /\ Queued \in [1..n -> Values \cup {NoValue}]
  BY QueuedIsSeq DEF IInv
<1>4. \A x : ValueAt(x)' = ValueAt(x)
  BY <1>1, Unaltered
<1>5. Plus(head, 1) \in Positions /\ Age(Plus(head, 1)) = H + 1
  BY AgePlus DEF H
<1>6. Queued' = [i \in 1..(n - 1) |-> ValueAt(Plus(head, i - 1))']
  <2>1. Minus(tail, head') = n - 1
    BY <1>1, <1>2, <1>5, MinusAge DEF T
  <2>2. tail' = tail
    BY <1>1
  <2> QED BY <2>1, <2>2 DEF Queued, Minus, Plus
<1>7. ASSUME NEW i \in 1..(n - 1)
      PROVE  ValueAt(Plus(head, i - 1))' = Queued[i + 1]
  <2>1. PICK x \in Positions : x = Plus(head, i) /\ Age(x) = H + i
    <3>1. i \in 0..(T - H)
      BY <1>2
    <3> QED BY <3>1, QueuePosition
  <2>2. Plus(head', i - 1) = x
    <3>1. i - 1 \in Nat /\ Age(Plus(head, 1)) + (i - 1) = H + i /\ H + i < SizeT
      BY <1>2, <1>5
    <3>2. Plus(Plus(head, 1), i - 1) \in Positions /\ Age(Plus(Plus(head, 1), i - 1)) = H + i
      BY <1>5, <3>1, AgePlus
    <3> QED BY <1>1, <2>1, <3>2, AgeInjective
  <2>3. ValueAt(Plus(head, i - 1))' = ValueAt(x)'
    <3> DEFINE Held(y) ==
                 LET late == {p \in Producers : p \in Owners' /\ pos'[p] = y}
                 IN  IF late # {} THEN arg'[CHOOSE p \in late : TRUE] ELSE data'[Cell(y)]
    <3>1. ValueAt(Plus(head, i - 1))' = Held(Plus(head', i - 1)) /\ ValueAt(x)' = Held(x)
      BY DEF ValueAt, Cell, Plus
    <3> HIDE DEF Held
    <3> QED BY <2>2, <3>1
  <2>4. i + 1 \in 1..n /\ (i + 1) - 1 = i
    BY <1>2
  <2>5. Queued[i + 1] = ValueAt(Plus(head, (i + 1) - 1))
    BY <1>3, <2>4
  <2> QED BY <1>4, <2>1, <2>3, <2>4, <2>5
<1> HIDE DEF n
<1>8. Queued # << >> /\ Head(Queued) = Queued[1] /\ Queued' = Tail(Queued)
  <2>1. Queued' = [i \in 1..(n - 1) |-> Queued[i + 1]]
    BY <1>6, <1>7
  <2> DEFINE f == Queued
             S == Values \cup {NoValue}
  <2>2. f \in [1..n -> S] /\ n \in Nat \ {0}
    BY <1>2, <1>3
  <2> HIDE DEF f, S
  <2> HIDE Basics
  <2>3. Tail(f) = [i \in 1..(n - 1) |-> f[i + 1]]
    BY ZenonT(60), <2>2, HeadRemoved
  <2>4. Head(f) = f[1] /\ f # << >>
    BY <2>2, HeadRemoved
  <2> QED BY <2>1, <2>3, <2>4 DEF f
<1>9. Queued[1] = data[Cell(head)]
  <2>1. Plus(head, 0) = head
    <3>1. Plus(head, 0) \in Positions /\ Age(Plus(head, 0)) = H
      BY <1>2, QueuePosition DEF n
    <3> QED BY <3>1, AgeInjective DEF H
  <2>2. Queued[1] = ValueAt(head)
    <3>1. 1 \in 1..n /\ 1 - 1 = 0
      BY <1>2
    <3>2. Queued[1] = ValueAt(Plus(head, 1 - 1))
      BY <1>3, <3>1
    <3> QED BY <2>1, <3>1, <3>2
  <2>3. \A p \in Producers : ~(p \in Owners /\ pos[p] = head)
    BY <1>2, Owned DEF H
  <2>4. ValueAt(head) = data[Cell(head)]
    BY <1>3, <2>3, ValueHeld
  <2> QED BY <2>2, <2>4
<1>10. Got' = [Got EXCEPT ![c] = data[Cell(head)]]
  <2>1. /\ \A d \in Consumers : d # c => pc'[d] = pc[d]
        /\ pc'[c] = "pullRead"
    BY <1>1
  <2> QED BY <1>1, <2>1 DEF Got, Cell
<1> QED BY <1>8, <1>9, <1>10 DEF Fifo!Dequeue

LEMMA StepImplements ==
  ASSUME IInv, Payload, IInv', [Next]_vars
  PROVE  [Fifo!Next]_(Fifo!vars)
<1>1. OwnersDiffer'
  BY DEF IInv
<1>2. SUFFICES Fifo!Next \/ UNCHANGED <<Queued, Got>>
  BY DEF Fifo!vars
<1>3. CASE \E p \in Producers :
             \/ PushStart(p) \/ PushFree(p) \/ PushFull(p) \/ PushBehind(p)
             \/ PushReload(p) \/ PushClaimFailed(p)
  BY <1>1, <1>3, PushStutters
<1>4. CASE \E p \in Producers : PushWrite(p)
  BY <1>1, <1>4, PushWriteStutters
<1>5. CASE \E p \in Producers : PushPublish(p)
  BY <1>1, <1>5, PushPublishStutters
<1>6. ASSUME NEW p \in Producers, PushClaim(p) PROVE Fifo!Next
  <2>1. arg[p] \in Values
    BY <1>6 DEF PushClaim, Goto, Payload
  <2>2. Fifo!Enqueue(arg[p])
    BY <1>1, <1>6, PushClaimEnqueues
  <2> QED BY <2>1, <2>2 DEF Fifo!Next
<1>7. ASSUME NEW c \in Consumers, PullClaim(c) PROVE Fifo!Next
  <2>1. Fifo!Dequeue(c)
    BY <1>1, <1>7, PullClaimDequeues
  <2> QED BY <2>1 DEF Fifo!Next
<1>8. CASE \E c \in Consumers :
             \/ AvailableFirst(c) \/ AvailableSecond(c) \/ PullStart(c)
             \/ PullReady(c) \/ PullEmpty(c) \/ PullBehind(c) \/ PullReload(c)
             \/ PullClaimFailed(c) \/ PullRead(c) \/ PullRelease(c)
  BY <1>1, <1>8, PullStutters
<1>9. CASE UNCHANGED vars
  BY <1>9 DEF vars, Queued, Got, ValueAt, Owners, Minus, Plus, Cell
<1> QED BY <1>3, <1>4, <1>5, <1>6, <1>7, <1>8, <1>9 DEF Next

LEMMA InitImplements ==
  ASSUME Init
  PROVE  Fifo!Init /\ Payload
<1>1. IInv /\ T - H = 0
  <2>1. IInv /\ tail = head
    BY InitIInv DEF Init
  <2>2. T = H /\ H \in Nat
    BY <2>1, Basics DEF T, H
  <2> QED BY <2>1, <2>2
<1>2. Queued = << >>
  <2>1. Queued = [i \in 1..0 |-> ValueAt(Plus(head, i - 1))]
    BY <1>1, QueuedIsSeq
  <2> QED BY <2>1
<1>3. Got = [c \in Consumers |-> NoValue]
  BY DEF Init, Got, Threads
<1>4. Payload
  BY DEF Init, Payload, Threads
<1> QED BY <1>2, <1>3, <1>4 DEF Fifo!Init

(* The lock-free queue is a bounded FIFO for any number of producers and     *)
(* consumers: a push takes effect at its compare-and-swap on tail, a pull at *)
(* its compare-and-swap on head, and every accepted descriptor is delivered  *)
(* once, unaltered and in the order of the claims, also where the positions  *)
(* wrap.                                                                     *)
THEOREM QueueIsAFifo == Spec => ImplementsFifo
<1>1. Init => IInv /\ Payload /\ Fifo!Init
  BY InitIInv, InitImplements
<1>2. IInv /\ Payload /\ [Next]_vars => IInv' /\ Payload'
  BY IInvStep, PayloadStep
<1>3. IInv /\ Payload /\ IInv' /\ [Next]_vars => [Fifo!Next]_(Fifo!vars)
  BY StepImplements
<1> QED BY <1>1, <1>2, <1>3, PTL DEF Spec, ImplementsFifo, Fifo!Spec
=============================================================================
