----------------------------- MODULE DataLemmas -----------------------------
(***************************************************************************)
(* Facts about numbers, queues and sums that do not depend on a component: *)
(* remainders, sequences written as functions, sums over a finite set.     *)
(***************************************************************************)
EXTENDS Integers, Sequences, FiniteSetsExt,
        SequenceTheorems, FiniteSetTheorems, WellFoundedInduction, TLAPS

-----------------------------------------------------------------------------
(* What the queues need of % and \div: their positions are unsigned C        *)
(* integers that wrap, and a position is used modulo the number of cells.    *)

\* What the SMT solver knows of % and \div
LEMMA Division ==
  ASSUME NEW n \in Nat \ {0}, NEW x \in Int
  PROVE  /\ (x % n) \in 0..(n - 1)
         /\ (x \div n) \in Int
         /\ x = n * (x \div n) + (x % n)
  OBVIOUS

\* A multiple of n smaller than n in size is zero.
LEMMA Product ==
  ASSUME NEW n \in Nat \ {0}, NEW d \in Int, -n < n * d, n * d < n
  PROVE  d = 0
<1>1. d <= -1 => n * d <= -n
  BY Z3
<1>2. d >= 1 => n * d >= n
  BY Z3
<1> QED BY <1>1, <1>2

\* Products of variables, which the solver treats as opaque
LEMMA Distributive ==
  ASSUME NEW a \in Int, NEW b \in Int, NEW c \in Int
  PROVE  /\ a * b \in Int /\ a * (b + c) = a * b + a * c /\ a * (b - c) = a * b - a * c
         /\ (a * b) * c = a * (b * c)
  BY Z3

\* The remainder is unique.
LEMMA Remainder ==
  ASSUME NEW n \in Nat \ {0}, NEW x \in Int, NEW q \in Int, NEW r \in 0..(n - 1),
         x = n * q + r
  PROVE  x % n = r
<1> DEFINE d == x \div n
           m == x % n
<1>1. x = n * d + m /\ m \in 0..(n - 1) /\ d \in Int
  BY Division
<1> HIDE DEF d, m
<1>2. n * (d - q) = n * d - n * q /\ n * d \in Int /\ n * q \in Int
  BY <1>1, Distributive
<1>3. n * (d - q) = r - m
  BY <1>1, <1>2
<1>4. d - q = 0
  BY <1>1, <1>3, Product
<1> QED BY <1>1, <1>3, <1>4, Product DEF m

\* x and y differ by a multiple of n
LEMMA Congruent ==
  ASSUME NEW n \in Nat \ {0}, NEW x \in Int, NEW q \in Int
  PROVE  (x + n * q) % n = x % n
<1> DEFINE r == x % n
           d == x \div n
<1>1. x = n * d + r /\ r \in 0..(n - 1) /\ d \in Int
  BY Division
<1>2. n * (d + q) = n * d + n * q /\ d + q \in Int /\ n * q \in Int
  BY <1>1, Z3
<1>3. x + n * q = n * (d + q) + r /\ x + n * q \in Int
  BY <1>1, <1>2
<1> HIDE DEF d, r
<1> QED BY <1>1, <1>2, <1>3, Remainder DEF r

\* The low bits of a position that wraps at a multiple of n
LEMMA Wrapped ==
  ASSUME NEW n \in Nat \ {0}, NEW k \in Nat \ {0}, NEW x \in Int
  PROVE  (x % (n * k)) % n = x % n
<1> DEFINE w == n * k
           r == x % w
           d == x \div w
<1>1. w \in Nat \ {0}
  BY Z3
<1>2. x = w * d + r /\ r \in 0..(w - 1) /\ d \in Int
  <2> HIDE DEF w
  <2> QED BY <1>1, Division
<1>3. w * d = n * (k * d) /\ k * d \in Int /\ w * d \in Int
  <2> HIDE DEF d
  <2> QED BY <1>1, <1>2, Distributive
<1> HIDE DEF w, r, d
<1>4. x = r + n * (k * d) /\ r \in Int
  BY <1>1, <1>2, <1>3
<1>5. x % n = r % n
  BY <1>3, <1>4, Congruent
<1> QED BY <1>5 DEF r, w

\* Reducing a summand first changes nothing.
LEMMA Reduced ==
  ASSUME NEW n \in Nat \ {0}, NEW x \in Int, NEW y \in Int
  PROVE  ((x % n) + y) % n = (x + y) % n
<1> DEFINE r == x % n
           d == x \div n
<1>1. x = n * d + r /\ r \in 0..(n - 1) /\ d \in Int
  BY Division
<1>2. x + y = (r + y) + n * d /\ r + y \in Int
  BY <1>1
<1> HIDE DEF d, r
<1> QED BY ZenonT(60), <1>1, <1>2, Congruent DEF r

\* Nor does reducing what is subtracted.
LEMMA Subtracted ==
  ASSUME NEW n \in Nat \ {0}, NEW x \in Int, NEW y \in Int
  PROVE  (x - (y % n)) % n = (x - y) % n
<1> DEFINE r == y % n
           d == y \div n
<1>1. y = n * d + r /\ r \in 0..(n - 1) /\ d \in Int
  BY Division
<1> HIDE DEF d, r
<1>2. n * d \in Int
  BY <1>1, Distributive
<1>3. x - r = (x - y) + n * d /\ x - y \in Int
  BY <1>1, <1>2
<1> QED BY ZenonT(60), <1>1, <1>3, Congruent DEF r

-----------------------------------------------------------------------------
(* Append, Head and Tail of a queue written as a function of the places in   *)
(* it, which is how SpscRing and MpmcQueue describe what they hold.          *)

\* Append lengthens the function by one place.
LEMMA Appended ==
  ASSUME NEW S, NEW n \in Nat, NEW f \in [1..n -> S], NEW e \in S
  PROVE  Append(f, e) = [i \in 1..(n + 1) |-> IF i = n + 1 THEN e ELSE f[i]]
<1> DEFINE g == Append(f, e)
<1>1. f \in Seq(S) /\ Len(f) = n
  OBVIOUS
<1>2. /\ g \in Seq(S) /\ Len(g) = n + 1
      /\ \A i \in 1..n : g[i] = f[i]
      /\ g[n + 1] = e
  BY <1>1, AppendProperties
<1> HIDE DEF g
<1>3. g \in [1..(n + 1) -> S]
  BY <1>2, LenProperties
<1>4. \A i \in 1..(n + 1) : g[i] = IF i = n + 1 THEN e ELSE f[i]
  BY <1>2
<1>5. g = [i \in 1..(n + 1) |-> IF i = n + 1 THEN e ELSE f[i]]
  BY <1>3, <1>4
<1> QED BY <1>5 DEF g

\* Tail moves every place down by one.
LEMMA HeadRemoved ==
  ASSUME NEW S, NEW n \in Nat \ {0}, NEW f \in [1..n -> S]
  PROVE  f # << >> /\ Head(f) = f[1] /\ Tail(f) = [i \in 1..(n - 1) |-> f[i + 1]]
<1> DEFINE g == Tail(f)
<1>1. f \in Seq(S) /\ Len(f) = n
  OBVIOUS
<1>2. f # << >>
  BY <1>1, EmptySeq
<1>3. /\ g \in Seq(S) /\ Len(g) = n - 1
      /\ \A i \in 1..(n - 1) : g[i] = f[i + 1]
  BY <1>1, <1>2, HeadTailProperties
<1> HIDE DEF g
<1>4. g \in [1..(n - 1) -> S]
  BY <1>3, LenProperties
<1>5. g = [i \in 1..(n - 1) |-> f[i + 1]]
  BY <1>3, <1>4
<1>6. Head(f) = f[1]
  BY <1>1, <1>2
<1> QED BY <1>2, <1>5, <1>6 DEF g

\* The length of a queue written as a function
LEMMA Length ==
  ASSUME NEW S, NEW n \in Nat, NEW f \in [1..n -> S]
  PROVE  Len(f) = n
  OBVIOUS

\* A prefix of a sequence given as a function
LEMMA Shortened ==
  ASSUME NEW S, NEW m \in Nat, NEW f \in [1..m -> S], NEW n \in 0..m
  PROVE  SubSeq(f, 1, n) = [i \in 1..n |-> f[i]]
<1> DEFINE g == SubSeq(f, 1, n)
<1>1. f \in Seq(S) /\ Len(f) = m
  BY SeqDef, Length
<1>2. 1 \in 1..(Len(f) + 1) /\ n \in (1 - 1)..Len(f) /\ \A i \in 1..n : f[i] \in S
  BY <1>1
<1>3. g \in Seq(S) /\ Len(g) = n /\ \A i \in 1..n : g[i] = f[i]
  BY <1>1, <1>2, SubSeqProperties
<1> HIDE DEF g
<1>4. g = [i \in 1..n |-> g[i]]
  BY <1>3, LenProperties
<1> QED BY <1>3, <1>4 DEF g

-----------------------------------------------------------------------------
(* A slab of the buffer pool is an array; its first n entries are a sequence *)
(* that grows and shrinks at the end.                                        *)
Slice(B, s, n) == [i \in 1..n |-> B[s][i - 1]]

LEMMA SliceType ==
  ASSUME NEW A, NEW B, NEW s, NEW n \in Nat, \A e \in 0..(n - 1) : B[s][e] \in A
  PROVE  /\ Slice(B, s, n) \in [1..n -> A] /\ Len(Slice(B, s, n)) = n
         /\ Slice(B, s, n) = << >> <=> n = 0
<1>1. n \in Nat /\ \A i \in 1..n : i - 1 \in 0..(n - 1)
  OBVIOUS
<1>2. Slice(B, s, n) \in [1..n -> A]
  BY <1>1 DEF Slice
<1>3. Len(Slice(B, s, n)) = n
  BY <1>1, <1>2, Length
<1>4. Slice(B, s, n) \in Seq(A)
  BY <1>1, <1>2, SeqDef
<1> QED BY <1>2, <1>3, <1>4, EmptySeq

\* Without its last n entries a slice is a shorter one.
LEMMA SliceCut ==
  ASSUME NEW B, NEW s, NEW m \in Nat, NEW n \in 0..m
  PROVE  /\ Len(Slice(B, s, m)) = m
         /\ SubSeq(Slice(B, s, m), 1, m - n) = Slice(B, s, m - n)
<1> DEFINE f == Slice(B, s, m)
           A == {B[s][i - 1] : i \in 1..m}
<1>1. m \in Nat /\ n \in Nat /\ m - n \in 0..m /\ n <= m
  OBVIOUS
<1>2. f \in [1..m -> A] /\ Len(f) = m /\ \A i \in 1..m : f[i] = B[s][i - 1]
  <2>1. f \in [1..m -> A] /\ \A i \in 1..m : f[i] = B[s][i - 1]
    BY DEF Slice
  <2> HIDE DEF f, A
  <2> QED BY <2>1, Length
<1> HIDE DEF f, A
<1>3. SubSeq(f, 1, m - n) = [i \in 1..(m - n) |-> B[s][i - 1]]
  <2>1. SubSeq(f, 1, m - n) = [i \in 1..(m - n) |-> f[i]]
    BY <1>1, <1>2, Shortened
  <2>2. \A i \in 1..(m - n) : i \in 1..m
    BY <1>1
  <2> QED BY <1>2, <2>1, <2>2
<1>4. SubSeq(f, 1, m - n) = Slice(B, s, m - n)
  BY <1>3 DEF Slice
<1> QED BY <1>2, <1>4 DEF f

\* With its next entry a slice is one longer.
LEMMA SliceGrown ==
  ASSUME NEW B, NEW s, NEW n \in Nat
  PROVE  Slice(B, s, n + 1) = Append(Slice(B, s, n), B[s][n])
<1> DEFINE f == Slice(B, s, n)
           c == B[s][n]
           A == {B[s][i - 1] : i \in 1..n} \cup {c}
<1>1. f \in [1..n -> A] /\ c \in A /\ \A i \in 1..n : f[i] = B[s][i - 1]
  BY DEF Slice
<1> HIDE DEF f, A
<1>2. Append(f, c) = [i \in 1..(n + 1) |-> IF i = n + 1 THEN c ELSE f[i]]
  <2> HIDE DEF c
  <2> QED BY <1>1, Appended
<1>3. ASSUME NEW i \in 1..(n + 1) PROVE (IF i = n + 1 THEN c ELSE f[i]) = B[s][i - 1]
  <2>1. i # n + 1 => i \in 1..n
    OBVIOUS
  <2>2. i = n + 1 => i - 1 = n
    OBVIOUS
  <2> QED BY <1>1, <2>1, <2>2
<1>4. Append(f, c) = [i \in 1..(n + 1) |-> B[s][i - 1]]
  BY <1>2, <1>3
<1> QED BY <1>4 DEF f, Slice

-----------------------------------------------------------------------------
(* Sums over a finite set, as PacketPath forms them.  A sum over a set is     *)
(* defined by recursion on its subsets, so what it is follows by induction.  *)

Sum(f, S) == FoldSet(LAMBDA p, sum : f[p] + sum, 0, S)

\* Induction over the subsets of a finite set, for a set of them.
LEMMA SubsetStrongInduction ==
  ASSUME NEW S, IsFiniteSet(S), NEW D,
         \A T \in SUBSET S : (\A x \in T : T \ {x} \in D) => T \in D
  PROVE  \A T \in SUBSET S : T \in D
<1> DEFINE Bad == (SUBSET S) \ D
           R == StrictSubsetOrdering(S)
<1> SUFFICES ASSUME Bad # {} PROVE FALSE
  OBVIOUS
<1>1. FiniteSubsetsOf(S) = SUBSET S
  BY FS_FiniteSubsetsOfFinite
<1>2. IsWellFoundedOn(R, SUBSET S)
  <2>1. IsWellFoundedOn(StrictSubsetOrdering(S), FiniteSubsetsOf(S))
    BY FS_StrictSubsetOrderingWellFounded
  <2> QED BY <1>1, <2>1
<1>3. \A T, U \in SUBSET S : T \subseteq U /\ T # U => <<T, U>> \in R
  BY <1>1 DEF StrictSubsetOrdering
<1>4. Bad \subseteq SUBSET S
  OBVIOUS
<1>5. \E T \in Bad : \A U \in Bad : ~ (<<U, T>> \in R)
  <2> HIDE DEF Bad, R
  <2> QED BY <1>2, <1>4, WFMin
<1>6. PICK T \in Bad : \A U \in Bad : ~ (<<U, T>> \in R)
  BY <1>5
<1>7. PICK x \in T : T \ {x} \notin D
  OBVIOUS
<1>8. T \ {x} \in Bad
  BY <1>7
<1>9. /\ T \in SUBSET S /\ T \ {x} \in SUBSET S
      /\ T \ {x} \subseteq T /\ T \ {x} # T
  OBVIOUS
<1>10. <<T \ {x}, T>> \in R
  BY <1>3, <1>9
<1> QED BY <1>6, <1>8, <1>10

\* Induction from a subset with one element less
LEMMA SubsetInduction ==
  ASSUME NEW S, IsFiniteSet(S), NEW D, {} \in D,
         \A T \in SUBSET S : \A x \in T : T \ {x} \in D => T \in D
  PROVE  \A T \in SUBSET S : T \in D
<1>1. ASSUME NEW T \in SUBSET S, \A x \in T : T \ {x} \in D PROVE T \in D
  <2>1. CASE T = {}
    BY <2>1
  <2>2. CASE T # {}
    BY <1>1, <2>2
  <2> QED BY <2>1, <2>2
<1> QED BY <1>1, SubsetStrongInduction

\* G gives the sum of f over every subset of S.
IsSum(G, f, S) ==
  /\ G \in [SUBSET S -> Int]
  /\ G[{}] = 0
  /\ \A T \in SUBSET S : \A x \in T : G[T] = f[x] + G[T \ {x}]

\* There is a function that gives every partial sum.
LEMMA SumsExist ==
  ASSUME NEW S, IsFiniteSet(S), NEW f \in [S -> Int]
  PROVE  \E G : IsSum(G, f, S)
<1> DEFINE D == {T \in SUBSET S : \E G : IsSum(G, f, T)}
<1>1. {} \in D
  <2>1. IsSum([T \in SUBSET {} |-> 0], f, {})
    BY DEF IsSum
  <2> QED BY <2>1
<1>2. ASSUME NEW T \in SUBSET S, NEW x \in T, T \ {x} \in D
      PROVE  T \in D
  <2> DEFINE V == T \ {x}
  <2>1. PICK G : IsSum(G, f, V)
    BY <1>2
  <2> DEFINE H == [U \in SUBSET T |-> IF x \in U THEN f[x] + G[U \ {x}] ELSE G[U]]
  <2>2. \A U \in SUBSET T : U \ {x} \in SUBSET V /\ G[U \ {x}] \in Int
    BY <2>1 DEF IsSum
  <2>3. f[x] \in Int
    OBVIOUS
  <2>4. \A U \in SUBSET T : x \notin U => U = U \ {x}
    OBVIOUS
  <2>5. H \in [SUBSET T -> Int]
    <3>1. ASSUME NEW U \in SUBSET T PROVE (IF x \in U THEN f[x] + G[U \ {x}] ELSE G[U]) \in Int
      <4>1. G[U \ {x}] \in Int
        BY <2>2
      <4>2. f[x] + G[U \ {x}] \in Int
        BY <2>3, <4>1
      <4>3. x \notin U => G[U] \in Int
        <5>1. SUFFICES ASSUME x \notin U PROVE G[U] \in Int
          OBVIOUS
        <5>2. U = U \ {x}
          BY <2>4, <5>1
        <5> QED BY <4>1, <5>2
      <4> QED BY <4>2, <4>3
    <3> QED BY <3>1
  <2>6. H[{}] = 0
    BY <2>1 DEF IsSum
  <2>7. ASSUME NEW U \in SUBSET T, NEW y \in U PROVE H[U] = f[y] + H[U \ {y}]
    <3>1. f[y] \in Int
      OBVIOUS
    <3>2. CASE y = x
      <4>1. U \ {y} \in SUBSET T /\ x \notin U \ {y}
        BY <3>2
      <4> QED BY <3>2, <4>1
    <3>3. CASE y # x /\ x \in U
      <4> DEFINE W == U \ {x}
      <4>1. W \in SUBSET V /\ y \in W
        BY <3>3
      <4>2. G[W] = f[y] + G[W \ {y}]
        BY <2>1, <4>1 DEF IsSum
      <4>3. W \ {y} = (U \ {y}) \ {x} /\ x \in U \ {y} /\ U \ {y} \in SUBSET T
        BY <3>3
      <4>4. H[U] = f[x] + G[W] /\ H[U \ {y}] = f[x] + G[W \ {y}]
        BY <3>3, <4>3
      <4>5. G[W \ {y}] \in Int /\ G[W] \in Int
        BY <2>2, <4>3
      <4> HIDE DEF W, H
      <4> QED BY <2>3, <3>1, <4>2, <4>4, <4>5
    <3>4. CASE x \notin U
      <4>1. U \in SUBSET V /\ x \notin U \ {y} /\ U \ {y} \in SUBSET T
        BY <3>4
      <4>2. G[U] = f[y] + G[U \ {y}]
        BY <2>1, <4>1 DEF IsSum
      <4> QED BY <3>4, <4>1, <4>2
    <3> QED BY <3>2, <3>3, <3>4
  <2>8. IsSum(H, f, T)
    <3> HIDE DEF H
    <3> QED BY <2>5, <2>6, <2>7 DEF IsSum
  <2> QED BY <2>8
<1>3. \A T \in SUBSET S : \A x \in T : T \ {x} \in D => T \in D
  BY <1>2
<1>4. S \in SUBSET S
  OBVIOUS
<1>5. S \in D
  <2> HIDE DEF D
  <2> QED BY <1>1, <1>3, <1>4, SubsetInduction
<1> QED BY <1>5

\* Sum is what any such function says of the whole set.
LEMMA SumIs ==
  ASSUME NEW S, IsFiniteSet(S), NEW f \in [S -> Int]
  PROVE  \E G : IsSum(G, f, S) /\ Sum(f, S) = G[S]
<1> DEFINE Pick(T) == CHOOSE x \in T : TRUE
           Unfolded(g) == [T \in SUBSET S |-> IF T = {} THEN 0 ELSE f[Pick(T)] + g[T \ {Pick(T)}]]
           iter == CHOOSE g : g = Unfolded(g)
<1>1. PICK G : IsSum(G, f, S)
  BY SumsExist
<1>2. \A T \in SUBSET S : T # {} => Pick(T) \in T
  OBVIOUS
<1>3. \E g : g = Unfolded(g)
  <2>1. G \in [SUBSET S -> Int] /\ Unfolded(G) = [T \in SUBSET S |-> G[T]]
    <3> HIDE DEF Pick
    <3>1. \A T \in SUBSET S : G[T] = IF T = {} THEN 0 ELSE f[Pick(T)] + G[T \ {Pick(T)}]
      BY <1>1, <1>2 DEF IsSum
    <3> QED BY <1>1, <3>1 DEF IsSum
  <2>2. G = Unfolded(G)
    <3> HIDE DEF Unfolded
    <3> QED BY <2>1
  <2> QED BY <2>2
<1>4. iter = Unfolded(iter)
  <2> HIDE DEF Unfolded
  <2> QED BY <1>3
<1> DEFINE D == {T \in SUBSET S : iter[T] = G[T]}
<1>5. iter[{}] = 0 /\ \A T \in SUBSET S : T # {} => iter[T] = f[Pick(T)] + iter[T \ {Pick(T)}]
  <2> HIDE DEF iter, Pick
  <2> QED BY <1>4
<1>6. S \in D
  <2>1. {} \in D
    <3> HIDE DEF iter
    <3> QED BY <1>1, <1>5 DEF IsSum
  <2>2. ASSUME NEW T \in SUBSET S, \A x \in T : T \ {x} \in D
        PROVE  T \in D
    <3>1. CASE T = {}
      BY <2>1, <3>1
    <3>2. CASE T # {}
      <4> HIDE DEF iter, Pick
      <4>1. Pick(T) \in T /\ T \ {Pick(T)} \in D
        BY <1>2, <2>2, <3>2
      <4>2. iter[T] = f[Pick(T)] + iter[T \ {Pick(T)}]
        BY <1>5, <3>2
      <4>3. G[T] = f[Pick(T)] + G[T \ {Pick(T)}]
        BY <1>1, <4>1 DEF IsSum
      <4> QED BY <4>1, <4>2, <4>3
    <3> QED BY <3>1, <3>2
  <2>3. S \in SUBSET S
    OBVIOUS
  <2> HIDE DEF D
  <2> QED BY <2>2, <2>3, SubsetStrongInduction
<1>7. Sum(f, S) = iter[S]
  BY DEF Sum, FoldSet, MapThenFoldSet
<1> QED BY <1>1, <1>6, <1>7

\* A sum of integers is an integer.
LEMMA SumType ==
  ASSUME NEW S, IsFiniteSet(S), NEW f \in [S -> Int]
  PROVE  Sum(f, S) \in Int
<1>1. PICK F : IsSum(F, f, S) /\ Sum(f, S) = F[S]
  BY SumIs
<1>2. F \in [SUBSET S -> Int] /\ S \in SUBSET S
  BY <1>1 DEF IsSum
<1> QED BY <1>1, <1>2

\* The sum after one element has changed
LEMMA SumUpdated ==
  ASSUME NEW S, IsFiniteSet(S), NEW f \in [S -> Int], NEW g \in [S -> Int],
         NEW p \in S, \A q \in S \ {p} : g[q] = f[q]
  PROVE  Sum(g, S) = Sum(f, S) - f[p] + g[p]
<1>2. PICK F : IsSum(F, f, S) /\ Sum(f, S) = F[S]
  BY SumIs
<1>3. PICK G : IsSum(G, g, S) /\ Sum(g, S) = G[S]
  BY SumIs
<1>4. /\ F \in [SUBSET S -> Int] /\ G \in [SUBSET S -> Int]
      /\ F[{}] = 0 /\ G[{}] = 0
  BY <1>2, <1>3 DEF IsSum
<1>5. \A T \in SUBSET S : \A x \in T :
        F[T] = f[x] + F[T \ {x}] /\ G[T] = g[x] + G[T \ {x}]
  BY <1>2, <1>3 DEF IsSum
<1>6. S \ {p} \in SUBSET S
  OBVIOUS
<1> DEFINE D == {T \in SUBSET S : p \notin T => F[T] = G[T]}
<1>7. \A T \in SUBSET S : T \in D
  <2>1. {} \in D
    BY <1>4
  <2>2. ASSUME NEW T \in SUBSET S, NEW x \in T, T \ {x} \in D
        PROVE  T \in D
    <3>1. CASE x = p
      BY <3>1
    <3>2. CASE x # p
      <4>1. F[T] = f[x] + F[T \ {x}] /\ G[T] = g[x] + G[T \ {x}]
        BY <1>5
      <4>2. g[x] = f[x]
        BY <3>2
      <4> QED BY <2>2, <4>1, <4>2
    <3> QED BY <3>1, <3>2
  <2> HIDE DEF D
  <2> QED BY <2>1, <2>2, SubsetInduction
<1>8. F[S \ {p}] = G[S \ {p}]
  BY <1>6, <1>7
<1>9. F[S] = f[p] + F[S \ {p}] /\ G[S] = g[p] + G[S \ {p}]
  BY <1>5
<1>10. F[S \ {p}] \in Int /\ f[p] \in Int /\ g[p] \in Int
  BY <1>4, <1>6
<1> QED BY <1>2, <1>3, <1>8, <1>9, <1>10

\* Larger elements, larger sum
LEMMA SumMonotonic ==
  ASSUME NEW S, IsFiniteSet(S), NEW f \in [S -> Int], NEW g \in [S -> Int],
         \A x \in S : f[x] <= g[x]
  PROVE  Sum(f, S) <= Sum(g, S)
<1>2. PICK F : IsSum(F, f, S) /\ Sum(f, S) = F[S]
  BY SumIs
<1>3. PICK G : IsSum(G, g, S) /\ Sum(g, S) = G[S]
  BY SumIs
<1> DEFINE D == {T \in SUBSET S : F[T] <= G[T]}
<1>7. \A T \in SUBSET S : T \in D
  <2>1. {} \in D
    BY <1>2, <1>3 DEF IsSum
  <2>2. ASSUME NEW T \in SUBSET S, NEW x \in T, T \ {x} \in D
        PROVE  T \in D
    <3>1. F[T] = f[x] + F[T \ {x}] /\ G[T] = g[x] + G[T \ {x}]
      BY <1>2, <1>3 DEF IsSum
    <3>2. F[T \ {x}] \in Int /\ G[T \ {x}] \in Int /\ f[x] \in Int /\ g[x] \in Int
      BY <1>2, <1>3 DEF IsSum
    <3>3. F[T \ {x}] <= G[T \ {x}] /\ f[x] <= g[x]
      BY <2>2
    <3> QED BY <3>1, <3>2, <3>3
  <2> HIDE DEF D
  <2> QED BY <2>1, <2>2, SubsetInduction
<1>8. S \in D
  BY <1>7
<1> QED BY <1>2, <1>3, <1>8

\* Adding element by element or sum by sum is the same.
LEMMA SumOfTwo ==
  ASSUME NEW S, IsFiniteSet(S), NEW f \in [S -> Int], NEW g \in [S -> Int],
         NEW h \in [S -> Int], \A x \in S : h[x] = f[x] + g[x]
  PROVE  Sum(h, S) = Sum(f, S) + Sum(g, S)
<1>2. PICK F : IsSum(F, f, S) /\ Sum(f, S) = F[S]
  BY SumIs
<1>3. PICK G : IsSum(G, g, S) /\ Sum(g, S) = G[S]
  BY SumIs
<1>4. PICK H : IsSum(H, h, S) /\ Sum(h, S) = H[S]
  BY SumIs
<1> DEFINE D == {T \in SUBSET S : H[T] = F[T] + G[T]}
<1>7. \A T \in SUBSET S : T \in D
  <2>1. {} \in D
    BY <1>2, <1>3, <1>4 DEF IsSum
  <2>2. ASSUME NEW T \in SUBSET S, NEW x \in T, T \ {x} \in D
        PROVE  T \in D
    <3>1. F[T] = f[x] + F[T \ {x}] /\ G[T] = g[x] + G[T \ {x}] /\ H[T] = h[x] + H[T \ {x}]
      BY <1>2, <1>3, <1>4 DEF IsSum
    <3>2. F[T \ {x}] \in Int /\ G[T \ {x}] \in Int /\ f[x] \in Int /\ g[x] \in Int
      BY <1>2, <1>3 DEF IsSum
    <3>3. H[T \ {x}] = F[T \ {x}] + G[T \ {x}] /\ h[x] = f[x] + g[x]
      BY <2>2
    <3> QED BY <3>1, <3>2, <3>3
  <2> HIDE DEF D
  <2> QED BY <2>1, <2>2, SubsetInduction
<1>8. S \in D
  BY <1>7
<1> QED BY <1>2, <1>3, <1>4, <1>8

\* The sum of equal elements
LEMMA SumOfConstant ==
  ASSUME NEW S, IsFiniteSet(S), NEW c \in Int,
         NEW f \in [S -> Int], \A x \in S : f[x] = c
  PROVE  Sum(f, S) = Cardinality(S) * c
<1>2. PICK F : IsSum(F, f, S) /\ Sum(f, S) = F[S]
  BY SumIs
<1> DEFINE D == {T \in SUBSET S : F[T] = Cardinality(T) * c}
<1>7. \A T \in SUBSET S : T \in D
  <2>1. {} \in D
    BY <1>2, FS_EmptySet DEF IsSum
  <2>2. ASSUME NEW T \in SUBSET S, NEW x \in T, T \ {x} \in D
        PROVE  T \in D
    <3>1. F[T] = c + F[T \ {x}] 
      BY <1>2 DEF IsSum
    <3>2. IsFiniteSet(T) /\ IsFiniteSet(T \ {x})
      BY FS_Subset
    <3>3. Cardinality(T) = Cardinality(T \ {x}) + 1 /\ Cardinality(T \ {x}) \in Nat
      BY <3>2, FS_RemoveElement, FS_CardinalityType
    <3>4. F[T \ {x}] = Cardinality(T \ {x}) * c
      BY <2>2
    <3>5. \A n \in Nat : (n + 1) * c = n * c + c
      OBVIOUS
    <3> QED BY <3>1, <3>3, <3>4, <3>5
  <2> HIDE DEF D
  <2> QED BY <2>1, <2>2, SubsetInduction
<1>8. S \in D
  BY <1>7
<1> QED BY <1>2, <1>8

\* Among natural numbers, no element exceeds the sum.
LEMMA SumAtLeast ==
  ASSUME NEW S, IsFiniteSet(S), NEW f \in [S -> Nat], NEW p \in S
  PROVE  f[p] <= Sum(f, S)
<1>1. f \in [S -> Int] /\ f[p] \in Nat
  OBVIOUS
<1>2. PICK h \in [S -> Int] : h[p] = 0 /\ \A x \in S \ {p} : h[x] = f[x]
  <2>1. [f EXCEPT ![p] = 0] \in [S -> Int]
    BY <1>1
  <2> QED BY <2>1, <1>1
<1> DEFINE z == [x \in S |-> 0]
<1>3. z \in [S -> Int] /\ \A x \in S : z[x] = 0 /\ z[x] <= h[x]
  BY <1>2
<1> HIDE DEF z
<1>4. Sum(h, S) = Sum(f, S) - f[p] + h[p]
  BY <1>1, <1>2, SumUpdated
<1>5. Sum(z, S) <= Sum(h, S)
  BY <1>2, <1>3, SumMonotonic
<1>6. Sum(z, S) = Cardinality(S) * 0
  BY <1>3, SumOfConstant
<1>7. Cardinality(S) * 0 = 0
  BY FS_CardinalityType
<1>8. Sum(f, S) \in Int /\ Sum(h, S) \in Int
  BY <1>1, <1>2, SumType
<1> QED BY <1>1, <1>2, <1>4, <1>5, <1>6, <1>7, <1>8
=============================================================================
