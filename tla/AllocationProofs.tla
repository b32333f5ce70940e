-------------------------- MODULE AllocationProofs --------------------------
(***************************************************************************)
(* Theorems about Allocation, for any number of sources, any weights and   *)
(* any deficit: the loop returns one of the apportionments that            *)
(* LargestRemainder allows, and each of those is fair.                     *)
(*                                                                         *)
(* Both rest on LeftoverBound.  Remainders are smaller than the total      *)
(* weight and add up to that many times the cents left over, so fewer      *)
(* cents are left than there are sources with a remainder: the hand-out    *)
(* never wraps around, and never reaches a source that comes out even.     *)
(***************************************************************************)
EXTENDS Allocation, SumLemmas, TLAPS

-----------------------------------------------------------------------------
(* Apportionments.                                                         *)

\* Sources that do not come out even.
Uneven(total, w) == {s \in DOMAIN w : Remainder(total, w, s) > 0}

LEMMA ShareOfSource ==
    ASSUME NEW S, NEW w \in [S -> Nat], NEW total \in Nat,
           TotalWeight(w) \in Nat \ {0}, NEW s \in S
    PROVE  /\ total * w[s] \in Nat
           /\ Base(total, w, s) \in Nat
           /\ Remainder(total, w, s) \in 0..(TotalWeight(w) - 1)
           /\ total * w[s] = TotalWeight(w) * Base(total, w, s) + Remainder(total, w, s)
           /\ w[s] = 0 => Base(total, w, s) = 0 /\ Remainder(total, w, s) = 0
<1> DEFINE n == total * w[s]
           W == TotalWeight(w)
<1>1. n \in Nat
    OBVIOUS
<1>2. w[s] = 0 => n = 0
    OBVIOUS
<1> HIDE DEF n, W
<1>3. n \div W \in Nat /\ n % W \in 0..(W - 1) /\ n = W * (n \div W) + (n % W)
    BY <1>1, Quotient DEF W
<1>4. n = 0 => n \div W = 0 /\ n % W = 0
    <2> SUFFICES ASSUME n = 0 PROVE n \div W = 0 /\ n % W = 0
        OBVIOUS
    <2>1. CASE n \div W > 0
        <3>1. W * 0 + W <= W * (n \div W)
            BY <1>3, <2>1, Multiples DEF W
        <3> QED
            BY <1>3, <3>1 DEF W
    <2>2. CASE n \div W = 0
        BY <1>3, <2>2 DEF W
    <2> QED
        BY <1>3, <2>1, <2>2
<1> QED
    BY <1>1, <1>2, <1>3, <1>4 DEF n, W, Base, Remainder

\* The floors add up to the total but for fewer cents than there are uneven sources.
LEMMA LeftoverBound ==
    ASSUME NEW S, IsFiniteSet(S), NEW w \in [S -> Nat], NEW total \in Nat,
           TotalWeight(w) \in Nat \ {0}
    PROVE  /\ SumFunction(BaseShares(total, w)) \in Nat
           /\ Leftover(total, w) \in Nat
           /\ Uneven(total, w) \subseteq Weighted(w)
           /\ Leftover(total, w) = 0 \/ Leftover(total, w) < Cardinality(Uneven(total, w))
<1> DEFINE W == TotalWeight(w)
           B == BaseShares(total, w)
           R == [s \in S |-> Remainder(total, w, s)]
           P == [s \in S |-> total * w[s]]
           WB == [s \in S |-> W * B[s]]
           U == Uneven(total, w)
           one == [s \in S |-> IF s \in U THEN 1 ELSE 0]
           Wone == [s \in S |-> (W - 1) * one[s]]
           L == Leftover(total, w)
<1>1. B \in [S -> Nat] /\ R \in [S -> Nat] /\ U \subseteq S
    BY ShareOfSource DEF BaseShares, Uneven
<1>2. P \in [S -> Nat] /\ WB \in [S -> Int] /\ \A s \in S : P[s] = WB[s] + R[s]
    <2>1. \A s \in S : P[s] = total * w[s] /\ WB[s] = W * Base(total, w, s)
                       /\ R[s] = Remainder(total, w, s)
        BY DEF BaseShares
    <2>2. \A s \in S : W * B[s] \in Int
        <3> HIDE DEF B, W
        <3> QED
            BY <1>1 DEF W
    <2>3. P \in [S -> Nat] /\ WB \in [S -> Int]
        BY <2>2
    <2> QED
        BY <2>1, <2>3, ShareOfSource
<1>3. U \subseteq Weighted(w)
    BY ShareOfSource DEF Uneven, Weighted
<1>4. \A s \in S : R[s] <= Wone[s]
    <2>1. ASSUME NEW s \in S PROVE R[s] <= Wone[s]
        <3>1. R[s] \in 0..(W - 1) /\ (s \in U <=> R[s] > 0)
            BY ShareOfSource DEF Uneven
        <3>2. (W - 1) * 1 = W - 1 /\ (W - 1) * 0 = 0
            <4> HIDE DEF W
            <4> QED
                BY DEF W
        <3> HIDE DEF W, R, U
        <3> QED
            BY <3>1, <3>2
    <2> QED
        BY <2>1
<1>5. one \in [S -> Int] /\ Wone \in [S -> Int]
    BY DEF W
<1>6. /\ SumFunction(P) = total * W
      /\ SumFunction(WB) = W * SumFunction(B)
      /\ SumFunction(P) = SumFunction(WB) + SumFunction(R)
      /\ SumFunction(Wone) = (W - 1) * SumFunction(one)
      /\ SumFunction(R) <= SumFunction(Wone)
    <2>1. SumFunction(P) = total * SumFunction(w)
        <3>1. w \in [S -> Int] /\ P \in [S -> Int] /\ \A s \in S : P[s] = total * w[s]
            BY <1>2
        <3> HIDE DEF P
        <3> QED
            BY <3>1, SumTimes
    <2>2. SumFunction(WB) = W * SumFunction(B)
        <3>1. W \in Int /\ B \in [S -> Int] /\ \A s \in S : WB[s] = W * B[s]
            BY <1>1
        <3> HIDE DEF WB, W, B
        <3> QED
            BY <1>2, <3>1, SumTimes
    <2>3. SumFunction(P) = SumFunction(WB) + SumFunction(R)
        <3>1. P \in [S -> Int] /\ R \in [S -> Int]
            BY <1>1, <1>2
        <3> HIDE DEF P, WB, R
        <3> QED
            BY <1>2, <3>1, SumPlus
    <2>4. SumFunction(Wone) = (W - 1) * SumFunction(one)
        <3>1. W - 1 \in Int /\ \A s \in S : Wone[s] = (W - 1) * one[s]
            OBVIOUS
        <3> HIDE DEF Wone, W, one
        <3> QED
            BY <1>5, <3>1, SumTimes
    <2>5. SumFunction(R) <= SumFunction(Wone)
        <3>1. R \in [S -> Int]
            BY <1>1
        <3> HIDE DEF R, Wone
        <3> QED
            BY <1>4, <1>5, <3>1, SumOrder
    <2> QED
        BY <2>1, <2>2, <2>3, <2>4, <2>5 DEF TotalWeight
<1>7. SumFunction(one) = Cardinality(U) /\ Cardinality(U) \in Nat
    BY <1>1, SumOfOnes, FS_Subset, FS_CardinalityType
<1>8. SumFunction(B) \in Nat /\ SumFunction(R) \in Nat
    BY <1>1, SumOfNaturals
<1>9. L = total - SumFunction(B) /\ L \in Int
    BY <1>8 DEF Leftover
<1>10. W * L = SumFunction(R)
    <2>1. \A a, b, c \in Int : c * (a - b) = a * c - c * b
        BY Z3
    <2>2. W * L = total * W - W * SumFunction(B)
        <3> HIDE DEF W, B, L
        <3> QED
            BY <1>8, <1>9, <2>1 DEF W
    <2> HIDE DEF W, B, L, P, R, WB
    <2>3. W * SumFunction(B) \in Int /\ total * W \in Int
        BY <1>8 DEF W
    <2> QED
        BY <1>6, <1>8, <2>2, <2>3
<1> HIDE DEF W, B, L, P, R, WB, U, one, Wone
<1>11. W \in Nat \ {0}
    BY DEF W
<1>12. L >= 0
    <2> SUFFICES ASSUME L < 0 PROVE FALSE
        BY <1>9
    <2>1. W * L + W <= W * 0
        BY <1>9, <1>11, Multiples
    <2> QED
        BY <1>8, <1>10, <1>11, <2>1
<1>13. L = 0 \/ L < Cardinality(U)
    <2> SUFFICES ASSUME Cardinality(U) <= L, L # 0 PROVE FALSE
        BY <1>7, <1>9
    <2> DEFINE c == Cardinality(U)
    <2>1. SumFunction(R) <= (W - 1) * c
        BY <1>6, <1>7
    <2>2. (W - 1) * c = W * c - c
        <3>1. \A a, b \in Int : (a - 1) * b = a * b - b
            BY Z3
        <3> HIDE DEF c
        <3> QED
            BY <1>7, <1>11, <3>1 DEF c
    <2>3. W * c <= W * L
        <3>1. CASE c = L
            BY <1>7, <1>11, <3>1
        <3>2. CASE c < L
            BY <1>7, <1>9, <1>11, <3>2, Multiples
        <3> QED
            BY <1>7, <1>9, <3>1, <3>2
    <2>4. c > 0 \/ c = 0
        BY <1>7
    <2>5. W * c \in Int /\ W * L \in Int
        BY <1>7, <1>9, <1>11
    <2>6. CASE c = 0
        <3>1. W * 0 + W <= W * L
            BY <1>9, <1>11, <1>12, Multiples
        <3>2. W * c = 0
            BY <1>11, <2>6
        <3> HIDE DEF c
        <3> QED
            BY <1>10, <1>11, <2>1, <2>2, <2>5, <2>6, <3>1, <3>2
    <2>7. CASE c > 0
        <3>1. c \in Nat
            BY <1>7
        <3> HIDE DEF c
        <3> QED
            BY <1>8, <1>10, <2>1, <2>2, <2>3, <2>5, <2>7, <3>1
    <2> QED
        BY <2>4, <2>6, <2>7
<1> QED
    BY <1>3, <1>8, <1>9, <1>12, <1>13 DEF B, L, U

\* Floors and cents add up to the total.
LEMMA SumOfShares ==
    ASSUME NEW S, IsFiniteSet(S), NEW w \in [S -> Nat], NEW total \in Nat,
           TotalWeight(w) \in Nat \ {0},
           NEW Up \in SUBSET Weighted(w), TopRemainders(total, w, Up)
    PROVE  SumFunction([s \in S |-> Base(total, w, s) + (IF s \in Up THEN 1 ELSE 0)]) = total
<1> DEFINE base == BaseShares(total, w)
           one == [s \in S |-> IF s \in Up THEN 1 ELSE 0]
           a == [s \in S |-> Base(total, w, s) + (IF s \in Up THEN 1 ELSE 0)]
<1>1. \A s \in S : Base(total, w, s) \in Nat
    BY ShareOfSource
<1>2. base \in [S -> Int] /\ one \in [S -> Int] /\ a \in [S -> Int]
      /\ \A s \in S : a[s] = base[s] + one[s]
    BY <1>1 DEF BaseShares
<1>3. SumFunction(one) = Leftover(total, w)
    <2>1. Up \in SUBSET S
        BY DEF Weighted
    <2> QED
        BY <2>1, SumOfOnes DEF TopRemainders
<1>4. SumFunction(a) = SumFunction(base) + SumFunction(one)
    <2> HIDE DEF base, one, a
    <2> QED
        BY <1>2, SumPlus
<1>5. SumFunction(base) \in Nat
    BY LeftoverBound
<1> HIDE DEF one, a
<1>6. SumFunction(a) = total
    BY <1>3, <1>4, <1>5 DEF Leftover
<1> QED
    BY <1>6 DEF a

\* Every apportionment is fair, for any total and any weights of which one is positive.
LEMMA SharesAreFair ==
    ASSUME NEW S, IsFiniteSet(S), NEW w \in [S -> Nat], NEW total \in Nat \ {0},
           TotalWeight(w) \in Nat \ {0}, NEW a \in Shares(total, w)
    PROVE  /\ SumFunction(a) = total
           /\ \A s \in S : /\ a[s] * TotalWeight(w) < total * w[s] + TotalWeight(w)
                           /\ a[s] * TotalWeight(w) > total * w[s] - TotalWeight(w)
           /\ \A s, t \in S : w[s] > w[t] => a[s] >= a[t]
<1> DEFINE W == TotalWeight(w)
           B(s) == Base(total, w, s)
           R(s) == Remainder(total, w, s)
           L == Leftover(total, w)
           U == Uneven(total, w)
<1>1. Weighted(w) # {}
    <2> SUFFICES ASSUME Weighted(w) = {} PROVE FALSE
        OBVIOUS
    <2>1. w = [s \in S |-> 0]
        BY DEF Weighted
    <2> QED
        BY <2>1, SumOfZeroes DEF TotalWeight
<1>2. PICK Up \in SUBSET Weighted(w) :
         /\ TopRemainders(total, w, Up)
         /\ a = [s \in S |-> B(s) + (IF s \in Up THEN 1 ELSE 0)]
    <2>1. DOMAIN w = S
        OBVIOUS
    <2> QED
        BY <1>1, <2>1 DEF Shares
<1>3. /\ SumFunction(BaseShares(total, w)) \in Nat /\ L \in Nat
      /\ U \subseteq Weighted(w) /\ (L = 0 \/ L < Cardinality(U))
    BY LeftoverBound
<1>4. Up \subseteq S /\ U \subseteq S /\ IsFiniteSet(Up) /\ IsFiniteSet(U)
      /\ Cardinality(Up) \in Nat /\ Cardinality(U) \in Nat
    <2>1. Up \subseteq S /\ U \subseteq S
        BY <1>3 DEF Weighted
    <2> QED
        BY <2>1, FS_Subset, FS_CardinalityType
<1>5. Cardinality(Up) = L
    BY <1>2 DEF TopRemainders
<1>6. \A s \in S : /\ B(s) \in Nat /\ R(s) \in 0..(W - 1) /\ total * w[s] \in Nat
                   /\ total * w[s] = W * B(s) + R(s)
                   /\ a[s] = B(s) + (IF s \in Up THEN 1 ELSE 0)
    BY <1>2, ShareOfSource
<1>7. SumFunction(a) = total
    BY <1>2, SumOfShares
\* A source that comes out even gets no cent: there are uneven ones left.
<1>8. \A s \in Up : R(s) > 0
    <2> SUFFICES ASSUME NEW s \in Up, R(s) = 0 PROVE FALSE
        BY <1>4, <1>6
    <2>1. L # 0
        BY <1>4, <1>5, FS_EmptySet
    <2>2. \E u \in U : u \notin Up
        <3> SUFFICES ASSUME U \subseteq Up PROVE FALSE
            OBVIOUS
        <3>1. Cardinality(U) <= Cardinality(Up)
            BY <1>4, FS_Subset
        <3> QED
            BY <1>3, <1>4, <1>5, <2>1, <3>1
    <2>3. PICK u \in U : u \notin Up
        BY <2>2
    <2>4. R(s) >= R(u)
        BY <1>2, <1>3, <2>3 DEF TopRemainders
    <2>5. R(u) > 0
        BY <2>3 DEF Uneven
    <2>6. R(u) \in Nat
        BY <1>4, <1>6, <2>3
    <2> HIDE DEF R
    <2> QED
        BY <2>4, <2>5, <2>6
<1> HIDE DEF B, R, L, U, W
<1>9. W \in Nat \ {0}
    BY DEF W
<1>10. ASSUME NEW s \in S
       PROVE  a[s] * W < total * w[s] + W /\ a[s] * W > total * w[s] - W
    <2> DEFINE b == B(s)
               r == R(s)
               n == total * w[s]
    <2>1. b \in Nat /\ r \in 0..(W - 1) /\ n \in Nat /\ n = W * b + r
        BY <1>6
    <2>2. b * W = W * b /\ (b + 1) * W = W * b + W
        <3>1. \A x, y \in Int : x * y = y * x /\ (x + 1) * y = y * x + y
            BY Z3
        <3> HIDE DEF b
        <3> QED
            BY <1>9, <2>1, <3>1
    <2>3. W * b \in Int
        BY <1>9, <2>1
    <2>4. CASE s \in Up
        <3>1. a[s] = b + 1 /\ r > 0
            BY <1>6, <1>8, <2>4
        <3> HIDE DEF b, r, n
        <3>2. a[s] * W = W * b + W
            BY <2>2, <3>1
        <3> QED
            BY <1>9, <2>1, <2>3, <3>1, <3>2 DEF n
    <2>5. CASE s \notin Up
        <3>1. a[s] = b
            BY <1>6, <2>1, <2>5
        <3> HIDE DEF b, r, n
        <3>2. a[s] * W = W * b
            BY <2>2, <3>1
        <3> QED
            BY <1>9, <2>1, <2>3, <3>2 DEF n
    <2> QED
        BY <2>4, <2>5
<1>11. ASSUME NEW s \in S, NEW t \in S, w[s] > w[t] PROVE a[s] >= a[t]
    <2> SUFFICES ASSUME a[s] < a[t] PROVE FALSE
        BY <1>6
    <2>1. total * w[t] + total <= total * w[s]
        BY <1>11, Multiples
    <2>2. B(t) <= B(s)
        <3> SUFFICES ASSUME B(s) < B(t) PROVE FALSE
            BY <1>6
        <3>1. W * B(s) + W <= W * B(t)
            BY <1>6, <1>9, Multiples
        <3>2. W * B(s) \in Int /\ W * B(t) \in Int
            BY <1>6, <1>9
        <3>3. total * w[s] = W * B(s) + R(s) /\ total * w[t] = W * B(t) + R(t)
            BY <1>6
        <3>4. R(s) \in 0..(W - 1) /\ R(t) \in 0..(W - 1)
            BY <1>6
        <3> QED
            BY <1>9, <2>1, <3>1, <3>2, <3>3, <3>4
    <2>3. B(s) = B(t) /\ s \notin Up /\ t \in Up
        <3>1. /\ a[s] = B(s) + (IF s \in Up THEN 1 ELSE 0)
              /\ a[t] = B(t) + (IF t \in Up THEN 1 ELSE 0)
              /\ B(s) \in Nat /\ B(t) \in Nat
            BY <1>6
        <3> QED
            BY <2>2, <3>1, SMT
    <2>4. s \in Weighted(w)
        BY <1>11 DEF Weighted
    <2>5. R(t) >= R(s)
        BY <1>2, <2>3, <2>4 DEF TopRemainders, R
    <2>6. total * w[s] = W * B(s) + R(s) /\ total * w[t] = W * B(s) + R(t)
        BY <1>6, <2>3
    <2>7. W * B(s) \in Int /\ R(s) \in Nat /\ R(t) \in Nat
        BY <1>6, <1>9
    <2> QED
        BY <2>1, <2>5, <2>6, <2>7
<1> QED
    BY <1>7, <1>10, <1>11 DEF W

-----------------------------------------------------------------------------
(* The loop.                                                               *)

Front(f, m) == {f[i] : i \in 1..m}

\* A list of different elements of S: as many as positions, and all of S when there are
\* as many positions as elements.
LEMMA Listing ==
    ASSUME NEW S, IsFiniteSet(S), NEW k \in Nat, NEW f \in [1..k -> S], IsInjective(f)
    PROVE  /\ \A m \in 0..k : Cardinality(Front(f, m)) = m
           /\ k <= Cardinality(S)
           /\ k = Cardinality(S) <=> \A x \in S : \E i \in 1..k : x = f[i]
<1>1. ASSUME NEW m \in 0..k PROVE Cardinality(Front(f, m)) = m
    <2> DEFINE T == {f[i] : i \in 1..m}
               g == [i \in 1..m |-> f[i]]
    <2>1. g \in Injection(1..m, T)
        BY DEF Injection, IsInjective
    <2>2. g \in Surjection(1..m, T)
        BY DEF Surjection
    <2>3. T \subseteq S
        OBVIOUS
    <2>4. IsFiniteSet(T)
        BY <2>3, FS_Subset
    <2>5. Cardinality(1..m) = m
        BY FS_Interval
    <2> QED
        BY <2>1, <2>2, <2>4, <2>5, FS_Injection DEF Front
<1>2. f \in Injection(1..k, S)
    BY DEF Injection
<1>3. Cardinality(1..k) = k
    BY FS_Interval
<1>4. f \in Surjection(1..k, S) <=> \A x \in S : \E i \in 1..k : x = f[i]
    BY DEF Surjection
<1> QED
    BY <1>1, <1>2, <1>3, <1>4, FS_Injection

\* Sources that a weight row gives a total weight to, and the ones the flooring pass has
\* been through.
Positive == totalCents > 0 /\ TotalWeight(weight) \in Nat \ {0}
Passed == {s \in Weighted(weight) : s < idx}

Lists(S) == /\ remainders \in Seq(S) /\ IsInjective(remainders)
            /\ \A x \in S : \E i \in 1..Len(remainders) : x = remainders[i]

\* Between two turns of the flooring pass.
Flooring ==
    /\ Positive
    /\ idx \in 1..(Cardinality(Sources) + 1) /\ next = 1
    /\ allocations = [s \in Sources |-> IF s < idx THEN Base(totalCents, weight, s) ELSE 0]
    /\ allocated = SumFunction(allocations)
    /\ Lists(Passed)

\* Between two cents.
Served == Front(remainders, next - 1)
Handing ==
    /\ Positive
    /\ Lists(Weighted(weight)) /\ Sorted(remainders)
    /\ next \in 1..Len(remainders)
    /\ remaining \in Nat /\ remaining = Leftover(totalCents, weight) - (next - 1)
    /\ allocations = [s \in Sources |-> Base(totalCents, weight, s)
                                          + (IF s \in Served THEN 1 ELSE 0)]

LoopInv ==
    /\ totalCents \in Nat /\ weight \in [Sources -> Nat]
    /\ pc \in {"guard", "floor", "handout", "done"}
    /\ pc = "guard" => /\ allocations = [s \in Sources |-> 0] /\ allocated = 0
                       /\ remainders = << >> /\ idx = 1 /\ next = 1
    /\ pc = "floor" => Flooring
    /\ pc = "handout" => Handing
    /\ ReturnsShares

LEMMA LoopInit == Init => LoopInv
BY AllocationAssumption DEF Init, LoopInv, ReturnsShares

\* The sum of the weights, and the sources that have one.
LEMMA Weights ==
    ASSUME LoopInv
    PROVE  /\ TotalWeight(weight) \in Nat /\ IsFiniteSet(Weighted(weight))
           /\ Weighted(weight) \subseteq Sources /\ IsFiniteSet(Sources)
           /\ Weighted(weight) = {} <=> TotalWeight(weight) = 0
<1>1. weight \in [Sources -> Nat] /\ IsFiniteSet(Sources)
    BY AllocationAssumption DEF LoopInv
<1>2. /\ SumFunction(weight) \in Nat
      /\ \A s \in Sources : weight[s] <= SumFunction(weight)
    BY <1>1, SumOfNaturals
<1>3. Weighted(weight) \subseteq Sources
    BY <1>1 DEF Weighted
<1>4. ASSUME Weighted(weight) = {} PROVE TotalWeight(weight) = 0
    <2>1. weight = [s \in Sources |-> 0]
        BY <1>1, <1>4 DEF Weighted
    <2> QED
        BY <1>1, <2>1, SumOfZeroes DEF TotalWeight
<1>5. ASSUME TotalWeight(weight) = 0 PROVE Weighted(weight) = {}
    BY <1>1, <1>2, <1>5 DEF Weighted, TotalWeight
<1> QED
    BY <1>1, <1>2, <1>3, <1>4, <1>5, FS_Subset DEF TotalWeight

LEMMA StepGuard ==
    ASSUME LoopInv, ReturnZero \/ EnterLoop
    PROVE  LoopInv'
<1>1. CASE ReturnZero
    <2>1. totalCents <= 0 \/ Weighted(weight) = {}
        BY <1>1, Weights DEF ReturnZero
    <2>2. DOMAIN weight = Sources
        BY DEF LoopInv
    <2>3. allocations \in Shares(totalCents, weight)
        BY <1>1, <2>1, <2>2 DEF Shares, LoopInv, ReturnZero
    <2> QED
        BY <1>1, <2>3 DEF LoopInv, ReturnZero, ReturnsShares
<1>2. CASE EnterLoop
    <2> USE <1>2 DEF EnterLoop
    <2>1. /\ totalCents' = totalCents /\ weight' = weight /\ idx' = 1 /\ next' = 1
          /\ allocations' = [s \in Sources |-> 0] /\ allocated' = 0 /\ remainders' = << >>
          /\ totalCents > 0 /\ TotalWeight(weight) \in Nat \ {0}
        BY Weights DEF LoopInv
    <2>2. Cardinality(Sources) \in Nat /\ Sources = 1..Cardinality(Sources)
        BY Weights, FS_CardinalityType, AllocationAssumption
    <2>3. Passed' = {}
        BY <2>1, <2>2, Weights DEF Passed
    <2>4. Lists(Passed)'
        BY <2>1, <2>3 DEF Lists, IsInjective
    <2>5. allocations' = [s \in Sources |-> IF s < idx' THEN Base(totalCents', weight', s)
                                                        ELSE 0]
        BY <2>1, <2>2
    <2>6. allocated' = SumFunction(allocations')
        BY <2>1, Weights, SumOfZeroes
    <2>7. Flooring'
        BY <2>1, <2>2, <2>4, <2>5, <2>6 DEF Flooring, Positive
    <2> QED
        BY <2>7 DEF LoopInv, ReturnsShares
<1> QED
    BY <1>1, <1>2

LEMMA StepFloor ==
    ASSUME LoopInv, FloorSource
    PROVE  LoopInv'
<1> DEFINE base == Base(totalCents, weight, idx)
<1>1. /\ Flooring /\ idx \in Sources /\ idx' = idx + 1 /\ next' = next /\ pc' = "floor"
      /\ totalCents' = totalCents /\ weight' = weight
    BY DEF FloorSource, LoopInv
<1>2. Cardinality(Sources) \in Nat /\ Sources = 1..Cardinality(Sources)
    BY Weights, FS_CardinalityType, AllocationAssumption
<1>3. \A s \in Sources : /\ Base(totalCents, weight, s) \in Nat
                         /\ weight[s] = 0 => Base(totalCents, weight, s) = 0
    <2>1. /\ totalCents \in Nat /\ weight \in [Sources -> Nat]
          /\ TotalWeight(weight) \in Nat \ {0}
        BY <1>1 DEF LoopInv, Flooring, Positive
    <2> QED
        BY <2>1, ShareOfSource
<1>4. allocations[idx] = 0
    BY <1>1, <1>2 DEF Flooring
<1>5. base \in Nat /\ (weight[idx] = 0 => base = 0)
    BY <1>1, <1>3
<1>6. /\ allocations' = [allocations EXCEPT ![idx] = @ + base]
      /\ allocated' = allocated + base
    <2>1. CASE weight[idx] = 0
        <3>1. allocations' = allocations /\ allocated' = allocated
            BY <2>1 DEF FloorSource
        <3>2. allocated \in Int
            <4>1. allocations \in [Sources -> Int]
                BY <1>1, <1>3 DEF Flooring
            <4> QED
                BY <1>1, <4>1, SumType, Weights DEF Flooring
        <3> HIDE DEF base
        <3> QED
            BY <1>1, <1>4, <1>5, <2>1, <3>1, <3>2 DEF Flooring
    <2>2. CASE weight[idx] # 0
        <3>1. allocations' = [allocations EXCEPT ![idx] = base] /\ allocated' = allocated + base
            BY <1>1, <2>2 DEF FloorSource, LoopInv
        <3>2. 0 + base = base
            BY <1>5
        <3> HIDE DEF base
        <3> QED
            BY <1>4, <3>1, <3>2
    <2> QED
        BY <2>1, <2>2
<1>7. allocated' = SumFunction(allocations')
    <2>1. allocations \in [Sources -> Int]
        BY <1>1, <1>3 DEF Flooring
    <2>2. IsFiniteSet(Sources) /\ idx \in Sources /\ base \in Int
        BY <1>1, <1>5, Weights
    <2> HIDE DEF base
    <2>3. SumFunction(Raised(allocations, idx, base)) = SumFunction(allocations) + base
        BY <2>1, <2>2, SumOfRaised
    <2>4. allocations' = Raised(allocations, idx, base)
        BY <1>6 DEF Raised
    <2> QED
        BY <1>1, <1>6, <2>3, <2>4 DEF Flooring
<1>8. allocations' = [s \in Sources |-> IF s < idx' THEN Base(totalCents', weight', s) ELSE 0]
    <2>1. \A s \in Sources : s < idx + 1 <=> s < idx \/ s = idx
        BY <1>1, <1>2
    <2>2. allocations'[idx] = Base(totalCents, weight, idx)
        BY <1>1, <1>4, <1>5, <1>6 DEF Flooring
    <2>3. \A s \in Sources \ {idx} : allocations'[s] = allocations[s]
        BY <1>1, <1>6 DEF Flooring
    <2>4. allocations' = [s \in Sources |-> allocations'[s]]
        BY <1>1, <1>6 DEF Flooring
    <2>5. \A s \in Sources : allocations'[s] = IF s < idx + 1
                                               THEN Base(totalCents, weight, s) ELSE 0
        BY <1>1, <2>1, <2>2, <2>3 DEF Flooring
    <2> QED
        BY <1>1, <2>4, <2>5
<1>9. Lists(Passed)'
    <2>1. Lists(Passed) /\ Passed \subseteq Sources
        BY <1>1, Weights DEF Flooring, Passed
    <2>2. CASE weight[idx] = 0
        <3>1. Passed' = Passed
            BY <1>1, <1>2, <2>2 DEF Passed, Weighted, LoopInv
        <3>2. remainders' = remainders
            BY <2>2 DEF FloorSource
        <3> QED
            BY <2>1, <3>1, <3>2 DEF Lists
    <2>3. CASE weight[idx] # 0
        <3>1. Passed' = Passed \cup {idx} /\ idx \notin Passed
            BY <1>1, <1>2, <2>3 DEF Passed, Weighted, LoopInv
        <3>2. remainders' = Append(remainders, idx)
            BY <1>1, <2>3 DEF FloorSource, LoopInv
        <3>3. /\ remainders' \in Seq(Passed') /\ Len(remainders') = Len(remainders) + 1
              /\ remainders'[Len(remainders) + 1] = idx
              /\ \A i \in 1..Len(remainders) : remainders'[i] = remainders[i]
                                               /\ remainders[i] \in Passed
              /\ DOMAIN remainders = 1..Len(remainders) /\ Len(remainders) \in Nat
            BY <2>1, <3>1, <3>2 DEF Lists
        <3>4. IsInjective(remainders')
            BY <2>1, <3>1, <3>3 DEF Lists, IsInjective
        <3> QED
            BY <2>1, <3>1, <3>3, <3>4 DEF Lists
    <2> QED
        BY <2>2, <2>3
<1>10. Flooring'
    BY <1>1, <1>2, <1>7, <1>8, <1>9 DEF Flooring, Positive
<1> QED
    BY <1>1, <1>10 DEF LoopInv, ReturnsShares

LEMMA StepSort ==
    ASSUME LoopInv, SortRemainders
    PROVE  LoopInv'
<1> DEFINE V == Weighted(weight)
<1>1. /\ Flooring /\ idx \notin Sources /\ next' = next /\ pc' = "handout"
      /\ totalCents' = totalCents /\ weight' = weight /\ allocations' = allocations
      /\ remaining' = totalCents - allocated
    BY DEF SortRemainders, LoopInv
<1>2. Cardinality(Sources) \in Nat /\ Sources = 1..Cardinality(Sources)
    BY Weights, FS_CardinalityType, AllocationAssumption
<1>3. \A s \in Sources : s < idx
    BY <1>1, <1>2 DEF Flooring
<1>4. Passed = V /\ Lists(V) /\ IsFiniteSet(V)
    BY <1>1, <1>3, Weights DEF Passed, Flooring
<1>5. allocations = BaseShares(totalCents, weight)
    BY <1>1, <1>3 DEF Flooring, BaseShares, LoopInv
<1> DEFINE k == Len(remainders)
<1>6. k \in Nat /\ DOMAIN remainders = 1..k /\ remainders \in [1..k -> V]
      /\ IsInjective(remainders)
    BY <1>4 DEF Lists
<1>7. k = Cardinality(V)
    <2> HIDE DEF k, V
    <2> QED
        BY <1>4, <1>6, Listing DEF Lists, k
<1>8. PICK order \in [1..k -> V] :
         IsInjective(order) /\ Sorted(order) /\ remainders' = order
    BY <1>6 DEF SortRemainders
<1>9. \A x \in V : \E i \in 1..k : x = order[i]
    <2>1. order \in [1..k -> V] /\ IsInjective(order) /\ IsFiniteSet(V) /\ k \in Nat
        BY <1>4, <1>6, <1>8
    <2> HIDE DEF k, V
    <2> QED
        BY <1>7, <2>1, Listing
<1>10. order \in Seq(V) /\ Len(order) = k
    BY <1>6, <1>8
<1>11. Lists(V)'
    BY <1>1, <1>8, <1>9, <1>10 DEF Lists
<1>12. Sorted(remainders)'
    BY <1>1, <1>8 DEF Sorted
<1>13. k >= 1
    <2>1. V # {}
        BY <1>1, Weights DEF Flooring, Positive
    <2> HIDE DEF k, V
    <2> QED
        BY <1>6, <1>9, <2>1
<1>14. /\ remaining' = Leftover(totalCents, weight)
       /\ Leftover(totalCents, weight) \in Nat
    <2>1. totalCents \in Nat /\ weight \in [Sources -> Nat] /\ IsFiniteSet(Sources)
          /\ TotalWeight(weight) \in Nat \ {0}
        BY <1>1, Weights DEF LoopInv, Flooring, Positive
    <2> QED
        BY <1>1, <1>5, <2>1, LeftoverBound DEF Flooring, Leftover
<1>15. Served' = {}
    BY <1>1 DEF Served, Front, Flooring
<1>16. allocations' = [s \in Sources |-> Base(totalCents, weight, s)
                                           + (IF s \in Served' THEN 1 ELSE 0)]
    <2>1. /\ totalCents \in Nat /\ weight \in [Sources -> Nat]
          /\ TotalWeight(weight) \in Nat \ {0}
        BY <1>1 DEF LoopInv, Flooring, Positive
    <2>2. \A s \in Sources : Base(totalCents, weight, s) \in Nat
        BY <2>1, ShareOfSource
    <2>3. \A s \in Sources : Base(totalCents, weight, s) + 0 = Base(totalCents, weight, s)
        BY <2>2
    <2> QED
        BY <1>1, <1>5, <1>15, <2>1, <2>3 DEF BaseShares
<1>17. Handing'
    <2>1. next' = 1 /\ Len(remainders') = k /\ Positive'
        BY <1>1, <1>8, <1>10 DEF Flooring, Positive
    <2>2. remaining' \in Nat /\ remaining' = Leftover(totalCents, weight) - (next' - 1)
        BY <1>14, <2>1
    <2>3. next' \in 1..Len(remainders')
        BY <1>6, <1>13, <2>1
    <2> QED
        BY <1>1, <1>11, <1>12, <1>16, <2>1, <2>2, <2>3 DEF Handing
<1> QED
    BY <1>1, <1>17 DEF LoopInv, ReturnsShares

\* While a cent is left the loop has not come to the end of the order: it never starts
\* again from its first source.
LEMMA StepHand ==
    ASSUME LoopInv, HandOutCent
    PROVE  LoopInv'
<1> DEFINE V == Weighted(weight)
           L == Leftover(totalCents, weight)
           k == Len(remainders)
           x == remainders[next]
<1>1. /\ Handing /\ remaining > 0 /\ remaining' = remaining - 1 /\ pc' = "handout"
      /\ allocations' = [allocations EXCEPT ![x] = @ + 1]
      /\ next' = IF next = k THEN 1 ELSE next + 1
      /\ totalCents' = totalCents /\ weight' = weight /\ remainders' = remainders
    BY DEF HandOutCent, HandOut, LoopInv
<1>2. /\ totalCents \in Nat /\ weight \in [Sources -> Nat] /\ IsFiniteSet(Sources)
      /\ TotalWeight(weight) \in Nat \ {0} /\ V \subseteq Sources /\ IsFiniteSet(V)
    BY <1>1, Weights DEF LoopInv, Handing, Positive
<1>3. /\ Lists(V) /\ k \in Nat /\ remainders \in [1..k -> V] /\ next \in 1..k
      /\ IsInjective(remainders) /\ DOMAIN remainders = 1..k
    BY <1>1 DEF Handing, Lists
<1>4. k = Cardinality(V)
    <2>1. \A y \in V : \E i \in 1..k : y = remainders[i]
        BY <1>3 DEF Lists
    <2> HIDE DEF k, V
    <2> QED
        BY <1>2, <1>3, <2>1, Listing
<1>5. L \in Nat /\ (L = 0 \/ L < k)
    <2>1. /\ L \in Nat /\ Uneven(totalCents, weight) \subseteq V
          /\ L = 0 \/ L < Cardinality(Uneven(totalCents, weight))
        BY <1>2, LeftoverBound
    <2>2. /\ Cardinality(Uneven(totalCents, weight)) <= Cardinality(V)
          /\ Cardinality(Uneven(totalCents, weight)) \in Nat
        <3> HIDE DEF V
        <3> QED
            BY <1>2, <2>1, FS_Subset, FS_CardinalityType
    <2> HIDE DEF L, V, k
    <2> QED
        BY <1>3, <1>4, <2>1, <2>2
<1>6. remaining \in Nat /\ remaining = L - (next - 1)
    BY <1>1 DEF Handing
<1>7. next < k /\ next' = next + 1
    <2> HIDE DEF L, k
    <2> QED
        BY <1>1, <1>3, <1>5, <1>6
<1>8. x \in V /\ Served' = Served \cup {x} /\ x \notin Served
    <2>1. 1..(next' - 1) = 1..(next - 1) \cup {next}
        <3> HIDE DEF k
        <3> QED
            BY <1>3, <1>7
    <2>2. \A i \in 1..(next - 1) : i \in 1..k /\ i # next
        <3> HIDE DEF k
        <3> QED
            BY <1>3
    <2>3. x \notin Served
        BY <1>3, <2>2 DEF Served, Front, IsInjective
    <2>4. Served' = {remainders[i] : i \in 1..(next' - 1)}
        BY <1>1 DEF Served, Front
    <2>5. x \in V
        BY <1>3
    <2> QED
        BY <2>1, <2>3, <2>4, <2>5 DEF Served, Front
<1>9. allocations' = [s \in Sources |-> Base(totalCents, weight, s)
                                          + (IF s \in Served' THEN 1 ELSE 0)]
    <2>1. allocations = [s \in Sources |-> Base(totalCents, weight, s)
                                             + (IF s \in Served THEN 1 ELSE 0)]
        BY <1>1 DEF Handing
    <2>2. \A s \in Sources : Base(totalCents, weight, s) \in Nat
        BY <1>2, ShareOfSource
    <2>3. x \in Sources
        BY <1>2, <1>8
    <2>4. allocations' = [allocations EXCEPT ![x] = @ + 1]
        BY <1>1
    <2> HIDE DEF x
    <2>5. ASSUME NEW s \in Sources
          PROVE  allocations'[s] = Base(totalCents, weight, s)
                                     + (IF s \in Served' THEN 1 ELSE 0)
        <3>1. CASE s = x
            <4>1. allocations[s] = Base(totalCents, weight, s) + 0 /\ s \in Served'
                BY <1>8, <2>1, <3>1
            <4>2. allocations'[s] = allocations[s] + 1
                BY <2>1, <2>4, <3>1
            <4> QED
                BY <2>2, <4>1, <4>2
        <3>2. CASE s # x
            <4>1. allocations'[s] = allocations[s] /\ (s \in Served' <=> s \in Served)
                BY <1>8, <2>1, <2>4, <3>2
            <4> QED
                BY <2>1, <4>1
        <3> QED
            BY <3>1, <3>2
    <2>6. allocations' = [s \in Sources |-> allocations'[s]]
        BY <2>1, <2>4
    <2> QED
        BY <2>5, <2>6
<1>10. Handing'
    <2>1. next' \in 1..k /\ remaining' \in Nat /\ remaining' = L - (next' - 1)
        <3> HIDE DEF L, k
        <3> QED
            BY <1>1, <1>3, <1>5, <1>6, <1>7
    <2>2. Lists(V)' /\ Sorted(remainders)' /\ Positive'
        BY <1>1 DEF Handing, Lists, Sorted, Positive
    <2> QED
        BY <1>1, <1>9, <2>1, <2>2 DEF Handing
<1> QED
    BY <1>1, <1>10 DEF LoopInv, ReturnsShares

LEMMA StepReturn ==
    ASSUME LoopInv, Return
    PROVE  LoopInv'
<1> DEFINE V == Weighted(weight)
           L == Leftover(totalCents, weight)
           k == Len(remainders)
<1>1. /\ Handing /\ remaining = 0 /\ pc' = "done"
      /\ totalCents' = totalCents /\ weight' = weight /\ allocations' = allocations
    BY DEF Return, ReturnWhen, LoopInv
<1>2. /\ totalCents \in Nat /\ totalCents > 0
      /\ weight \in [Sources -> Nat] /\ IsFiniteSet(Sources)
      /\ TotalWeight(weight) \in Nat \ {0} /\ V \subseteq Sources /\ IsFiniteSet(V)
      /\ V # {}
    BY <1>1, Weights DEF LoopInv, Handing, Positive
<1>3. /\ Lists(V) /\ k \in Nat /\ remainders \in [1..k -> V] /\ next \in 1..k
      /\ IsInjective(remainders)
    BY <1>1 DEF Handing, Lists
<1>4. L \in Nat /\ next - 1 = L /\ next - 1 \in 0..k
    <2>1. L \in Nat
        BY <1>2, LeftoverBound
    <2>2. 0 = L - (next - 1)
        BY <1>1 DEF Handing
    <2> HIDE DEF L, k
    <2> QED
        BY <1>3, <2>1, <2>2
<1>5. Served \in SUBSET V /\ Cardinality(Served) = L
    <2>1. \A i \in 1..(next - 1) : i \in 1..k
        <3> HIDE DEF k
        <3> QED
            BY <1>3
    <2>2. Served \in SUBSET V
        BY <1>3, <2>1 DEF Served, Front
    <2>3. \A m \in 0..k : Cardinality(Front(remainders, m)) = m
        <3> HIDE DEF V, k
        <3> QED
            BY <1>2, <1>3, Listing
    <2> HIDE DEF V, L, k
    <2> QED
        BY <1>4, <2>2, <2>3 DEF Served
<1>6. TopRemainders(totalCents, weight, Served)
    <2>1. ASSUME NEW u \in Served, NEW v \in V \ Served
          PROVE  Remainder(totalCents, weight, u) >= Remainder(totalCents, weight, v)
        <3>1. PICK i \in 1..(next - 1) : u = remainders[i]
            BY DEF Served, Front
        <3>2. PICK j \in 1..k : v = remainders[j]
            BY <1>3 DEF Lists
        <3>3. j \notin 1..(next - 1)
            BY <2>1, <3>2 DEF Served, Front
        <3>4. i < j /\ i \in 1..k
            <4> HIDE DEF k
            <4> QED
                BY <1>3, <3>3
        <3>5. Sorted(remainders) /\ DOMAIN remainders = 1..k
            BY <1>1, <1>3 DEF Handing
        <3> QED
            BY <3>1, <3>2, <3>4, <3>5 DEF Sorted
    <2> QED
        BY <1>5, <2>1 DEF TopRemainders
<1>7. allocations = [s \in Sources |-> Base(totalCents, weight, s)
                                         + (IF s \in Served THEN 1 ELSE 0)]
    BY <1>1 DEF Handing
<1>8. SumFunction(allocations) = totalCents
    BY <1>2, <1>5, <1>6, <1>7, SumOfShares
<1>9. allocations \in [Sources -> 0..totalCents]
    <2>1. allocations \in [Sources -> Nat]
        <3>1. \A s \in Sources : Base(totalCents, weight, s) \in Nat
            BY <1>2, ShareOfSource
        <3> QED
            BY <1>7, <3>1
    <2>2. \A s \in Sources : allocations[s] <= totalCents
        BY <1>2, <1>8, <2>1, SumOfNaturals
    <2> QED
        BY <1>2, <2>1, <2>2
<1>10. allocations \in Shares(totalCents, weight)
    BY <1>2, <1>5, <1>6, <1>7, <1>9 DEF Shares
<1> QED
    BY <1>1, <1>10 DEF LoopInv, ReturnsShares

LEMMA LoopInvariant == Spec => []LoopInv
<1>1. LoopInv /\ [Next]_vars => LoopInv'
    <2> SUFFICES ASSUME LoopInv, [Next]_vars PROVE LoopInv'
        OBVIOUS
    <2>1. CASE Step
        BY <2>1, StepGuard, StepFloor, StepSort, StepHand, StepReturn DEF Step
    <2>2. CASE UNCHANGED vars
        BY <2>2 DEF vars, LoopInv, ReturnsShares, Flooring, Handing, Positive, Passed,
                    Lists, Served, Front, Sorted
    <2> QED
        BY <2>1, <2>2 DEF Next, Done
<1> QED
    BY LoopInit, <1>1, PTL DEF Spec

\* The loop returns one of the apportionments, for any number of sources, any deficit and
\* any weights, whatever order sort.Slice leaves equal remainders in.
THEOREM ReturnsSharesCorrect == Spec => []ReturnsShares
<1>1. LoopInv => ReturnsShares
    BY DEF LoopInv
<1> QED
    BY <1>1, LoopInvariant, PTL

\* What it returns adds up to the deficit, is within a cent of each source's exact share
\* and never charges a heavier source less than a lighter one.
THEOREM FairSharesCorrect == Spec => []FairShares
<1>1. LoopInv => FairShares
    <2> SUFFICES ASSUME LoopInv, pc = "done", totalCents > 0, TotalWeight(weight) > 0
                 PROVE  FairShares
        BY DEF FairShares
    <2>1. /\ weight \in [Sources -> Nat] /\ IsFiniteSet(Sources)
          /\ totalCents \in Nat \ {0} /\ TotalWeight(weight) \in Nat \ {0}
          /\ allocations \in Shares(totalCents, weight)
        BY Weights DEF LoopInv, ReturnsShares
    <2> QED
        BY <2>1, SharesAreFair DEF FairShares
<1> QED
    BY <1>1, LoopInvariant, PTL

=============================================================================
