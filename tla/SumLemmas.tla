----------------------------- MODULE SumLemmas -----------------------------
(***************************************************************************)
(* What SumFunction and FoldLeft of the community modules compute.  They   *)
(* fold by a recursive function on the subsets of a domain, IsTable and    *)
(* IsStepTable below, of which the result is the last entry.  Induction    *)
(* over finite sets, and up to a number, is stated with a set in place of  *)
(* a predicate: the strict subsets of a finite set are well founded, so a  *)
(* set of subsets has a minimal element.  There are also a few facts on    *)
(* integer division.                                                       *)
(***************************************************************************)
EXTENDS Integers, Sequences, FiniteSetsExt, FiniteSetTheorems, TLAPS

\* The element a fold takes next.
Taken(U) == CHOOSE x \in U : TRUE
Left(U) == U \ {Taken(U)}

LEMMA TakenLeft == \A U : U # {} => Taken(U) \in U /\ Left(U) \subseteq U /\ Left(U) # U
BY DEF Taken, Left

\* What holds of a set whenever it holds of its strict subsets holds of every subset of
\* a finite set.
LEMMA SubsetInduction ==
    ASSUME NEW S, IsFiniteSet(S), NEW Good,
           \A T \in SUBSET S : (\A U \in SUBSET T : U # T => U \in Good) => T \in Good
    PROVE  \A T \in SUBSET S : T \in Good
<1>1. IsWellFoundedOn(StrictSubsetOrdering(S), SUBSET S)
    <2>1. FiniteSubsetsOf(S) = SUBSET S
        BY FS_FiniteSubsetsOfFinite
    <2> QED
        BY <2>1, FS_StrictSubsetOrderingWellFounded
<1> DEFINE Bad == {T \in SUBSET S : T \notin Good}
<1> SUFFICES ASSUME Bad # {} PROVE FALSE
    OBVIOUS
<1>2. PICK T \in Bad : \A U \in Bad : <<U, T>> \notin StrictSubsetOrdering(S)
    <2>1. Bad \subseteq SUBSET S
        OBVIOUS
    <2> HIDE DEF Bad
    <2> QED
        BY <1>1, <2>1, WFMin
<1>3. ASSUME NEW U \in SUBSET T, U # T PROVE U \in Good
    BY <1>2, <1>3 DEF StrictSubsetOrdering
<1> QED
    BY <1>3

\* It is enough that it holds of the empty set, and of a set whenever of what
\* is left of it.
LEMMA FoldInduction ==
    ASSUME NEW S, IsFiniteSet(S), NEW Good, {} \in Good,
           \A T \in SUBSET S : T # {} /\ Left(T) \in Good => T \in Good
    PROVE  \A T \in SUBSET S : T \in Good
<1>1. ASSUME NEW T \in SUBSET S, \A U \in SUBSET T : U # T => U \in Good
      PROVE  T \in Good
    BY <1>1, TakenLeft
<1> QED
    BY <1>1, SubsetInduction

-----------------------------------------------------------------------------
(* The table of the fold.                                                  *)

TableEntry(f, g, U) == IF U = {} THEN 0 ELSE f[Taken(U)] + g[Left(U)]
IsTable(f, g, S) == g = [U \in SUBSET S |-> TableEntry(f, g, U)]

\* Two tables of one function agree where both are defined.
LEMMA SameTable ==
    ASSUME NEW f, NEW A, IsFiniteSet(A), NEW B, NEW g, NEW h,
           IsTable(f, g, A), IsTable(f, h, B), A \subseteq B
    PROVE  \A U \in SUBSET A : g[U] = h[U]
<1> DEFINE Good == {U \in SUBSET A : g[U] = h[U]}
<1>1. {} \in Good
    BY DEF IsTable, TableEntry
<1>2. ASSUME NEW T \in SUBSET A, T # {}, Left(T) \in Good PROVE T \in Good
    <2>1. g[T] = f[Taken(T)] + g[Left(T)] /\ h[T] = f[Taken(T)] + h[Left(T)]
        BY <1>2 DEF IsTable, TableEntry
    <2> QED
        BY <1>2, <2>1
<1> HIDE DEF Good
<1>3. \A T \in SUBSET A : T \in Good
    BY <1>1, <1>2, FoldInduction
<1> QED
    BY <1>3 DEF Good

\* Every function on a finite set has one.
LEMMA TableExists ==
    ASSUME NEW f, NEW S, IsFiniteSet(S)
    PROVE  \E g : IsTable(f, g, S)
<1> DEFINE Good == {A \in SUBSET S : \E g : IsTable(f, g, A)}
           Tab(A) == CHOOSE g : IsTable(f, g, A)
<1>1. ASSUME NEW T \in SUBSET S, \A U \in SUBSET T : U # T => U \in Good
      PROVE  T \in Good
    <2> DEFINE G == [U \in SUBSET T |->
                        IF U = {} THEN 0 ELSE f[Taken(U)] + Tab(Left(U))[Left(U)]]
    <2>1. ASSUME NEW U \in SUBSET T, U # {}
          PROVE  /\ Left(U) \in SUBSET T /\ IsFiniteSet(Left(U))
                 /\ IsTable(f, Tab(Left(U)), Left(U))
        <3>1. Left(U) \in SUBSET T /\ Left(U) # T
            BY <2>1, TakenLeft
        <3>2. \E g : IsTable(f, g, Left(U))
            BY <1>1, <3>1
        <3> HIDE DEF Good
        <3> QED
            BY <3>1, <3>2, FS_Subset
    <2>2. ASSUME NEW U \in SUBSET T PROVE G[U] = TableEntry(f, G, U)
        <3>1. CASE U = {}
            BY <3>1 DEF TableEntry
        <3>2. CASE U # {} /\ Left(U) = {}
            <4>1. IsTable(f, Tab({}), {})
                BY <2>1, <3>2
            <4>2. Tab({})[{}] = 0 /\ G[{}] = 0
                <5> HIDE DEF Tab
                <5> QED
                    BY <4>1 DEF IsTable, TableEntry
            <4> HIDE DEF Tab
            <4> QED
                BY <3>2, <4>2 DEF TableEntry
        <3>3. CASE U # {} /\ Left(U) # {}
            <4> DEFINE V == Left(U)
                       W == Left(V)
            <4>1. /\ V \in SUBSET T /\ IsTable(f, Tab(V), V)
                  /\ W \in SUBSET V /\ IsFiniteSet(W) /\ IsTable(f, Tab(W), W)
                BY <2>1, <3>3, TakenLeft
            <4> HIDE DEF Tab, Good, V, W
            <4>2. Tab(V)[V] = f[Taken(V)] + Tab(V)[W]
                BY <3>3, <4>1 DEF IsTable, TableEntry, V, W
            <4>3. Tab(W)[W] = Tab(V)[W]
                BY <4>1, SameTable
            <4>4. G[V] = f[Taken(V)] + Tab(W)[W]
                BY <3>3, <4>1 DEF V, W
            <4> QED
                BY <3>3, <4>2, <4>3, <4>4 DEF TableEntry, V
        <3> QED
            BY <3>1, <3>2, <3>3
    <2>3. IsTable(f, G, T)
        <3> HIDE DEF Tab, Good
        <3> QED
            BY <2>2 DEF IsTable
    <2> QED
        BY <2>3
<1> HIDE DEF Good
<1>2. S \in Good
    BY <1>1, SubsetInduction
<1> QED
    BY <1>2 DEF Good

\* The sum is the last entry of the table.
LEMMA SumOfTable ==
    ASSUME NEW S, IsFiniteSet(S), NEW f, DOMAIN f = S
    PROVE  \E g : IsTable(f, g, S) /\ SumFunction(f) = g[S]
<1>1. SumFunction(f) = (CHOOSE g : IsTable(f, g, S))[S]
    BY DEF SumFunction, SumFunctionOnSet, FoldFunctionOnSet, MapThenFoldSet, IsTable,
           TableEntry, Left, Taken
<1> QED
    BY <1>1, TableExists

-----------------------------------------------------------------------------
(* Sums.                                                                   *)

LEMMA SumType ==
    ASSUME NEW S, IsFiniteSet(S), NEW f \in [S -> Int]
    PROVE  SumFunction(f) \in Int
<1>1. PICK g : IsTable(f, g, S) /\ SumFunction(f) = g[S]
    BY SumOfTable
<1> DEFINE Good == {T \in SUBSET S : g[T] \in Int}
<1>2. {} \in Good
    BY <1>1 DEF IsTable, TableEntry
<1>3. ASSUME NEW T \in SUBSET S, T # {}, Left(T) \in Good PROVE T \in Good
    BY <1>1, <1>3, TakenLeft DEF IsTable, TableEntry
<1> HIDE DEF Good
<1>4. S \in Good
    BY <1>2, <1>3, FoldInduction
<1> QED
    BY <1>1, <1>4 DEF Good

\* The sum of two functions.
LEMMA SumPlus ==
    ASSUME NEW S, IsFiniteSet(S), NEW f \in [S -> Int], NEW g \in [S -> Int],
           NEW h \in [S -> Int], \A x \in S : h[x] = f[x] + g[x]
    PROVE  SumFunction(h) = SumFunction(f) + SumFunction(g)
<1>1. PICK tf : IsTable(f, tf, S) /\ SumFunction(f) = tf[S]
    BY SumOfTable
<1>2. PICK tg : IsTable(g, tg, S) /\ SumFunction(g) = tg[S]
    BY SumOfTable
<1>3. PICK th : IsTable(h, th, S) /\ SumFunction(h) = th[S]
    BY SumOfTable
<1> DEFINE Good == {T \in SUBSET S : /\ tf[T] \in Int /\ tg[T] \in Int
                                     /\ th[T] = tf[T] + tg[T]}
<1>4. {} \in Good
    BY <1>1, <1>2, <1>3 DEF IsTable, TableEntry
<1>5. ASSUME NEW T \in SUBSET S, T # {}, Left(T) \in Good PROVE T \in Good
    <2>1. /\ tf[T] = f[Taken(T)] + tf[Left(T)] /\ tg[T] = g[Taken(T)] + tg[Left(T)]
          /\ th[T] = h[Taken(T)] + th[Left(T)]
        BY <1>1, <1>2, <1>3, <1>5 DEF IsTable, TableEntry
    <2> QED
        BY <1>5, <2>1, TakenLeft
<1> HIDE DEF Good
<1>6. S \in Good
    BY <1>4, <1>5, FoldInduction
<1> QED
    BY <1>1, <1>2, <1>3, <1>6 DEF Good

\* A multiple of a function.
LEMMA SumTimes ==
    ASSUME NEW S, IsFiniteSet(S), NEW f \in [S -> Int], NEW c \in Int,
           NEW h \in [S -> Int], \A x \in S : h[x] = c * f[x]
    PROVE  SumFunction(h) = c * SumFunction(f)
<1>1. PICK tf : IsTable(f, tf, S) /\ SumFunction(f) = tf[S]
    BY SumOfTable
<1>2. PICK th : IsTable(h, th, S) /\ SumFunction(h) = th[S]
    BY SumOfTable
<1> DEFINE Good == {T \in SUBSET S : tf[T] \in Int /\ th[T] = c * tf[T]}
<1>3. {} \in Good
    BY <1>1, <1>2 DEF IsTable, TableEntry
<1>4. ASSUME NEW T \in SUBSET S, T # {}, Left(T) \in Good PROVE T \in Good
    <2>1. tf[T] = f[Taken(T)] + tf[Left(T)] /\ th[T] = h[Taken(T)] + th[Left(T)]
        BY <1>1, <1>2, <1>4 DEF IsTable, TableEntry
    <2>2. f[Taken(T)] \in Int /\ h[Taken(T)] = c * f[Taken(T)]
        BY <1>4, TakenLeft
    <2>3. \A a, b \in Int : c * (a + b) = c * a + c * b
        BY Z3
    <2> QED
        BY <1>4, <2>1, <2>2, <2>3
<1> HIDE DEF Good
<1>5. S \in Good
    BY <1>3, <1>4, FoldInduction
<1> QED
    BY <1>1, <1>2, <1>5 DEF Good

\* Natural numbers: none of them exceeds the sum.
LEMMA SumOfNaturals ==
    ASSUME NEW S, IsFiniteSet(S), NEW f \in [S -> Nat]
    PROVE  SumFunction(f) \in Nat /\ \A x \in S : f[x] <= SumFunction(f)
<1>1. PICK g : IsTable(f, g, S) /\ SumFunction(f) = g[S]
    BY SumOfTable
<1> DEFINE Good == {T \in SUBSET S : g[T] \in Nat /\ \A x \in T : f[x] <= g[T]}
<1>2. {} \in Good
    BY <1>1 DEF IsTable, TableEntry
<1>3. ASSUME NEW T \in SUBSET S, T # {}, Left(T) \in Good PROVE T \in Good
    <2>1. g[T] = f[Taken(T)] + g[Left(T)] /\ f[Taken(T)] \in Nat
        BY <1>1, <1>3, TakenLeft DEF IsTable, TableEntry
    <2>2. \A x \in T : x = Taken(T) \/ x \in Left(T)
        BY DEF Left
    <2> QED
        BY <1>3, <2>1, <2>2
<1> HIDE DEF Good
<1>4. S \in Good
    BY <1>2, <1>3, FoldInduction
<1> QED
    BY <1>1, <1>4 DEF Good

\* Ones and zeroes: the sum counts the ones.
LEMMA SumOfOnes ==
    ASSUME NEW S, IsFiniteSet(S), NEW A \in SUBSET S
    PROVE  SumFunction([x \in S |-> IF x \in A THEN 1 ELSE 0]) = Cardinality(A)
<1> DEFINE f == [x \in S |-> IF x \in A THEN 1 ELSE 0]
<1>1. PICK g : IsTable(f, g, S) /\ SumFunction(f) = g[S]
    BY SumOfTable
<1> DEFINE Good == {T \in SUBSET S : g[T] = Cardinality(T \cap A)}
<1>2. {} \in Good
    BY <1>1, FS_EmptySet DEF IsTable, TableEntry
<1>3. ASSUME NEW T \in SUBSET S, T # {}, Left(T) \in Good PROVE T \in Good
    <2>1. g[T] = f[Taken(T)] + g[Left(T)]
        BY <1>1, <1>3 DEF IsTable, TableEntry
    <2>2. Taken(T) \in T /\ Left(T) = T \ {Taken(T)}
        BY <1>3, TakenLeft DEF Left
    <2>3. IsFiniteSet(Left(T) \cap A)
        BY <1>3, <2>2, FS_Subset
    <2>4. g[Left(T)] = Cardinality(Left(T) \cap A) /\ g[Left(T)] \in Nat
        BY <1>3, <2>3, FS_CardinalityType
    <2>5. CASE Taken(T) \in A
        <3>1. T \cap A = (Left(T) \cap A) \cup {Taken(T)}
            BY <2>2, <2>5
        <3>2. Cardinality(T \cap A) = Cardinality(Left(T) \cap A) + 1
            BY <2>2, <2>3, <3>1, FS_AddElement
        <3>3. f[Taken(T)] = 1
            BY <2>2, <2>5
        <3> HIDE DEF f, Good
        <3>4. g[T] = Cardinality(T \cap A)
            BY <2>1, <2>4, <3>2, <3>3
        <3> QED
            BY <3>4 DEF Good
    <2>6. CASE Taken(T) \notin A
        <3>1. T \cap A = Left(T) \cap A
            BY <2>2, <2>6
        <3>2. f[Taken(T)] = 0
            BY <2>2, <2>6
        <3> HIDE DEF f, Good
        <3>3. g[T] = g[Left(T)]
            BY <2>1, <2>4, <3>2
        <3>4. g[T] = Cardinality(T \cap A)
            BY <2>4, <3>1, <3>3
        <3> QED
            BY <3>4 DEF Good
    <2> QED
        BY <2>5, <2>6
<1> HIDE DEF Good
<1>4. S \in Good
    BY <1>2, <1>3, FoldInduction
<1>5. S \cap A = A
    OBVIOUS
<1> QED
    BY <1>1, <1>4, <1>5 DEF Good

LEMMA SumOfZeroes ==
    ASSUME NEW S, IsFiniteSet(S)
    PROVE  SumFunction([x \in S |-> 0]) = 0
<1>1. [x \in S |-> IF x \in {} THEN 1 ELSE 0] = [x \in S |-> 0]
    OBVIOUS
<1> QED
    BY <1>1, SumOfOnes, FS_EmptySet

\* One value that grows.
Raised(f, x, d) == [f EXCEPT ![x] = @ + d]

LEMMA SumOfRaised ==
    ASSUME NEW S, IsFiniteSet(S), NEW f \in [S -> Int], NEW x \in S, NEW d \in Int
    PROVE  SumFunction(Raised(f, x, d)) = SumFunction(f) + d
<1> DEFINE one == [y \in S |-> IF y \in {x} THEN 1 ELSE 0]
           point == [y \in S |-> IF y = x THEN d ELSE 0]
           h == Raised(f, x, d)
<1>1. SumFunction(one) = 1
    <2>1. {x} \in SUBSET S /\ Cardinality({x}) = 1
        BY FS_Singleton
    <2> QED
        BY <2>1, SumOfOnes
<1>2. SumFunction(point) = d * SumFunction(one)
    <2>1. one \in [S -> Int] /\ point \in [S -> Int] /\ \A y \in S : point[y] = d * one[y]
        OBVIOUS
    <2> HIDE DEF one, point
    <2> QED
        BY <2>1, SumTimes
<1>3. SumFunction(h) = SumFunction(f) + SumFunction(point)
    <2>1. h \in [S -> Int] /\ point \in [S -> Int] /\ \A y \in S : h[y] = f[y] + point[y]
        BY DEF Raised
    <2> HIDE DEF h, point
    <2> QED
        BY <2>1, SumPlus
<1> HIDE DEF one, point
<1> QED
    BY <1>1, <1>2, <1>3

\* A sum of smaller numbers is smaller.
LEMMA SumOrder ==
    ASSUME NEW S, IsFiniteSet(S), NEW f \in [S -> Int], NEW g \in [S -> Int],
           \A x \in S : f[x] <= g[x]
    PROVE  SumFunction(f) <= SumFunction(g)
<1> DEFINE d == [x \in S |-> g[x] - f[x]]
<1>1. d \in [S -> Nat] /\ d \in [S -> Int] /\ \A x \in S : g[x] = f[x] + d[x]
    OBVIOUS
<1> HIDE DEF d
<1>2. SumFunction(g) = SumFunction(f) + SumFunction(d)
    BY <1>1, SumPlus
<1>3. SumFunction(d) \in Nat /\ SumFunction(f) \in Int
    BY <1>1, SumOfNaturals, SumType
<1> QED
    BY <1>2, <1>3

-----------------------------------------------------------------------------
(* Division by a positive number.                                         *)

\* Multiples of d are at least d apart.
LEMMA Multiples ==
    ASSUME NEW d \in Nat \ {0}, NEW a \in Int, NEW b \in Int, a < b
    PROVE  d * a + d <= d * b
<1> DEFINE k == b - a - 1
<1>1. k \in Nat /\ b = a + 1 + k
    OBVIOUS
<1> HIDE DEF k
<1>2. d * (a + 1 + k) = d * a + d + d * k
    BY <1>1, Z3
<1>3. d * k \in Nat /\ d * a \in Int
    BY <1>1
<1> QED
    BY <1>1, <1>2, <1>3

\* Quotient and remainder of an integer.
LEMMA IntQuotient ==
    ASSUME NEW d \in Nat \ {0}, NEW n \in Int
    PROVE  /\ n \div d \in Int /\ n % d \in 0..(d - 1)
           /\ n = d * (n \div d) + (n % d)
BY Z3

\* Those of a natural number are natural numbers.
LEMMA Quotient ==
    ASSUME NEW d \in Nat \ {0}, NEW n \in Nat
    PROVE  /\ n \div d \in Nat /\ n % d \in 0..(d - 1)
           /\ n = d * (n \div d) + (n % d)
<1>1. n \div d \in Int /\ n % d \in 0..(d - 1) /\ n = d * (n \div d) + (n % d)
    BY IntQuotient
<1>2. CASE n \div d < 0
    <2>1. d * (n \div d) + d <= d * 0
        BY <1>1, <1>2, Multiples
    <2> QED
        BY <1>1, <2>1
<1> QED
    BY <1>1, <1>2

\* Adding a multiple of d to one gives another.
LEMMA MultipleAdded ==
    ASSUME NEW d \in Nat \ {0}, NEW a \in Int, NEW k \in Int, a % d = 0
    PROVE  (a + k * d) % d = 0
<1> DEFINE q == (a + k * d) \div d
           r == (a + k * d) % d
           c == a \div d
<1>1. a + k * d \in Int
    OBVIOUS
<1>2. q \in Int /\ r \in 0..(d - 1) /\ a + k * d = d * q + r
    BY <1>1, IntQuotient
<1>3. c \in Int /\ a = d * c
    BY IntQuotient
<1> HIDE DEF q, r, c
<1>4. r = d * (c + k - q)
    <2>1. \A u, v, w, x \in Int : u * (v + w - x) = u * v + w * u - u * x
        BY Z3
    <2>2. d * (c + k - q) = d * c + k * d - d * q
        BY <1>2, <1>3, <2>1
    <2> QED
        BY <1>1, <1>2, <1>3, <2>2
<1>5. c + k - q = 0
    <2> DEFINE m == c + k - q
    <2>1. m \in Int /\ r = d * m
        BY <1>2, <1>3, <1>4
    <2> HIDE DEF m
    <2>2. ~(m < 0)
        <3>1. m < 0 => d * m + d <= d * 0
            BY <2>1, Multiples
        <3> QED
            BY <1>2, <2>1, <3>1
    <2>3. ~(0 < m)
        <3>1. 0 < m => d * 0 + d <= d * m
            BY <2>1, Multiples
        <3> QED
            BY <1>2, <2>1, <3>1
    <2> QED
        BY <2>1, <2>2, <2>3 DEF m
<1> QED
    BY <1>4, <1>5 DEF r

-----------------------------------------------------------------------------
(* The table of FoldLeft, which takes the last position first.             *)

\* Induction up to a number, with a set in place of a predicate.
LEMMA UpTo ==
    ASSUME NEW n \in Nat, NEW Good, 0 \in Good,
           \A k \in 0..(n - 1) : k \in Good => k + 1 \in Good
    PROVE  \A k \in 0..n : k \in Good
<1> DEFINE Reached == {T \in SUBSET (1..n) : \A k \in 0..n : T = 1..k => k \in Good}
<1>1. IsFiniteSet(1..n)
  BY FS_Interval
<1>2. ASSUME NEW T \in SUBSET (1..n), \A U \in SUBSET T : U # T => U \in Reached
      PROVE  T \in Reached
  <2> SUFFICES ASSUME NEW k \in 0..n, T = 1..k, k # 0 PROVE k \in Good
    OBVIOUS
  <2>1. k - 1 \in 0..(n - 1) /\ k - 1 \in 0..n /\ (k - 1) + 1 = k
    OBVIOUS
  <2>2. 1..(k - 1) \in SUBSET T /\ 1..(k - 1) # T
    OBVIOUS
  <2>3. k - 1 \in Good
    BY <1>2, <2>1, <2>2
  <2> QED BY <2>1, <2>3
<1> HIDE DEF Reached
<1>3. \A T \in SUBSET (1..n) : T \in Reached
  BY <1>1, <1>2, SubsetInduction, Zenon
<1>4. ASSUME NEW k \in 0..n PROVE k \in Good
  <2>1. 1..k \in SUBSET (1..n)
    OBVIOUS
  <2> QED BY <1>3, <2>1 DEF Reached
<1> QED BY <1>4

\* A set of numbers has a greatest.
LEMMA MaxTaken ==
    ASSUME NEW n \in Nat
    PROVE  \A U \in SUBSET (1..n) : U # {} => Max(U) \in U /\ \A y \in U : Max(U) >= y
<1> DEFINE Good == {k \in 0..n : \A U \in SUBSET (1..k) :
                                    U # {} => \E x \in U : \A y \in U : x >= y}
<1>1. 0 \in Good
  <2>1. 1..0 = {} /\ 0 \in 0..n
    OBVIOUS
  <2> QED BY <2>1
<1>2. ASSUME NEW k \in 0..(n - 1), k \in Good PROVE k + 1 \in Good
  <2> SUFFICES ASSUME NEW U \in SUBSET (1..(k + 1)), U # {}
               PROVE  \E x \in U : \A y \in U : x >= y
    OBVIOUS
  <2>1. CASE k + 1 \in U
    BY <2>1
  <2>2. CASE k + 1 \notin U
    <3>1. U \in SUBSET (1..k)
      BY <2>2
    <3> QED BY <1>2, <3>1
  <2> QED BY <2>1, <2>2
<1> HIDE DEF Good
<1>3. n \in Good
  BY <1>1, <1>2, UpTo
<1>4. \A U \in SUBSET (1..n) : U # {} => \E x \in U : \A y \in U : x >= y
  BY <1>3 DEF Good
<1> QED BY <1>4 DEF Max

\* A table of a fold by step from base, over sets of positions.
ButLast(U) == U \ {Max(U)}
StepEntry(base, step, g, U) ==
    IF U = {} THEN base ELSE step[<<g[ButLast(U)], Max(U)>>]
IsStepTable(V, base, step, g, S) ==
    g \in [SUBSET S -> V] /\ \A U \in SUBSET S : g[U] = StepEntry(base, step, g, U)

\* Every step function on the positions has a table.
LEMMA StepTableExists ==
    ASSUME NEW n \in Nat, NEW V, NEW base \in V, NEW step \in [V \X (1..n) -> V]
    PROVE  \E g : IsStepTable(V, base, step, g, 1..n)
<1> DEFINE Good == {A \in SUBSET (1..n) : \E g : IsStepTable(V, base, step, g, A)}
           Tab(A) == CHOOSE g : IsStepTable(V, base, step, g, A)
<1>0. ASSUME NEW A \in SUBSET (1..n), NEW B, NEW g, NEW h, A \subseteq B,
             IsStepTable(V, base, step, g, A), IsStepTable(V, base, step, h, B)
      PROVE  g[A] = h[A]
  <2> DEFINE Same == {U \in SUBSET A : g[U] = h[U]}
  <2>1. ASSUME NEW T \in SUBSET A, \A U \in SUBSET T : U # T => U \in Same
        PROVE  T \in Same
    <3>1. g[T] = StepEntry(base, step, g, T) /\ h[T] = StepEntry(base, step, h, T)
      BY <1>0 DEF IsStepTable
    <3>2. CASE T = {}
      BY <3>1, <3>2 DEF StepEntry
    <3>3. CASE T # {}
      <4>1. ButLast(T) \in SUBSET T /\ ButLast(T) # T
        BY <3>3, MaxTaken DEF ButLast
      <4>2. g[ButLast(T)] = h[ButLast(T)]
        BY <2>1, <4>1
      <4> QED BY <3>1, <3>3, <4>2 DEF StepEntry
    <3> QED BY <3>2, <3>3
  <2> HIDE DEF Same
  <2>2. IsFiniteSet(A)
    <3>1. IsFiniteSet(1..n)
      BY FS_Interval
    <3> QED BY <3>1, FS_Subset
  <2>3. \A T \in SUBSET A : T \in Same
    BY <2>1, <2>2, SubsetInduction, Zenon
  <2> QED BY <2>3 DEF Same
<1>1. ASSUME NEW T \in SUBSET (1..n), \A U \in SUBSET T : U # T => U \in Good
      PROVE  T \in Good
  <2> DEFINE G == [U \in SUBSET T |->
                      IF U = {} THEN base ELSE step[<<Tab(ButLast(U))[ButLast(U)], Max(U)>>]]
  <2>1. ASSUME NEW U \in SUBSET T, U # {}
        PROVE  /\ ButLast(U) \in SUBSET T /\ ButLast(U) \in SUBSET U
               /\ Max(U) \in 1..n
               /\ IsStepTable(V, base, step, Tab(ButLast(U)), ButLast(U))
    <3>1. /\ ButLast(U) \in SUBSET T /\ ButLast(U) # T /\ ButLast(U) \in SUBSET U
          /\ Max(U) \in 1..n
      BY <2>1, MaxTaken DEF ButLast
    <3>2. \E g : IsStepTable(V, base, step, g, ButLast(U))
      BY <1>1, <3>1
    <3> HIDE DEF Good
    <3> QED BY <3>1, <3>2
  <2> HIDE DEF Tab, Good
  <2>2. G \in [SUBSET T -> V]
    <3>1. ASSUME NEW U \in SUBSET T, U # {}
          PROVE  step[<<Tab(ButLast(U))[ButLast(U)], Max(U)>>] \in V
      <4>1. Tab(ButLast(U))[ButLast(U)] \in V
        BY <2>1, <3>1 DEF IsStepTable
      <4> QED BY <2>1, <3>1, <4>1
    <3> QED BY <3>1
  <2>3. ASSUME NEW U \in SUBSET T PROVE G[U] = StepEntry(base, step, G, U)
    <3>1. CASE U = {}
      BY <3>1 DEF StepEntry
    <3>2. CASE U # {}
      <4> DEFINE W == ButLast(U)
      <4>1. W \in SUBSET T /\ IsStepTable(V, base, step, Tab(W), W)
        BY <2>1, <3>2
      <4>2. G[W] = Tab(W)[W]
        <5>1. CASE W = {}
          <6>1. Tab(W)[W] = base
            BY <4>1, <5>1 DEF IsStepTable, StepEntry
          <6> HIDE DEF W
          <6> QED BY <4>1, <5>1, <6>1
        <5>2. CASE W # {}
          <6> DEFINE X == ButLast(W)
          <6> HIDE DEF W
          <6>1. X \in SUBSET W /\ IsStepTable(V, base, step, Tab(X), X)
            BY <2>1, <4>1, <5>2
          <6>2. Tab(W)[W] = step[<<Tab(W)[X], Max(W)>>]
            BY <4>1, <5>2 DEF IsStepTable, StepEntry
          <6>3. Tab(X)[X] = Tab(W)[X]
            <7>1. X \in SUBSET (1..n)
              BY <4>1, <6>1
            <7> HIDE DEF X
            <7> QED BY <1>0, <4>1, <6>1, <7>1
          <6> QED BY <4>1, <5>2, <6>2, <6>3
        <5> QED BY <5>1, <5>2
      <4> HIDE DEF W
      <4>3. G[U] = step[<<Tab(W)[W], Max(U)>>]
        BY <3>2 DEF W
      <4> QED BY <3>2, <4>2, <4>3 DEF StepEntry, W
    <3> QED BY <3>1, <3>2
  <2>4. IsStepTable(V, base, step, G, T)
    <3> HIDE DEF G
    <3> QED BY <2>2, <2>3 DEF IsStepTable
  <2> QED BY <2>4 DEF Good
<1> HIDE DEF Good
<1>2. 1..n \in Good
  <2> DEFINE S == 1..n
  <2>1. IsFiniteSet(S)
    BY FS_Interval
  <2>2. \A T \in SUBSET S : (\A U \in SUBSET T : U # T => U \in Good) => T \in Good
    BY <1>1, Zenon
  <2>3. 1..n \in SUBSET S
    OBVIOUS
  <2> HIDE DEF S
  <2>4. \A T \in SUBSET S : T \in Good
    BY <2>1, <2>2, SubsetInduction, Zenon
  <2> QED BY <2>3, <2>4
<1> QED BY <1>2 DEF Good

\* Its entries for the prefixes.
LEMMA PrefixSets ==
    ASSUME NEW n \in Nat
    PROVE  /\ 1..0 = {} /\ 1..n \in SUBSET (1..n)
           /\ \A k \in 1..n : /\ 1..k \in SUBSET (1..n) /\ 1..k # {}
                              /\ Max(1..k) = k /\ ButLast(1..k) = 1..(k - 1)
<1>1. ASSUME NEW k \in 1..n
      PROVE  /\ 1..k \in SUBSET (1..n) /\ 1..k # {}
             /\ Max(1..k) = k /\ ButLast(1..k) = 1..(k - 1)
  <2>1. 1..k \in SUBSET (1..n) /\ 1..k # {} /\ k \in 1..k
    OBVIOUS
  <2>2. Max(1..k) \in 1..k /\ \A y \in 1..k : Max(1..k) >= y
    BY <2>1, MaxTaken
  <2>3. Max(1..k) = k
    BY <2>1, <2>2
  <2> QED BY <2>1, <2>3 DEF ButLast
<1> QED BY <1>1

LEMMA StepsOfPrefixes ==
    ASSUME NEW n \in Nat, NEW V, NEW base, NEW step, NEW g,
           IsStepTable(V, base, step, g, 1..n)
    PROVE  /\ g[{}] = base
           /\ \A k \in 1..n : g[1..k] = step[<<g[1..(k - 1)], k>>] /\ g[1..k] \in V
<1>1. g[{}] = base
  BY DEF IsStepTable, StepEntry
<1>2. ASSUME NEW k \in 1..n PROVE g[1..k] = step[<<g[1..(k - 1)], k>>] /\ g[1..k] \in V
  BY PrefixSets DEF IsStepTable, StepEntry
<1> QED BY <1>1, <1>2
=============================================================================
