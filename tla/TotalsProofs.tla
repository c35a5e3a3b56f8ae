----------------------------- MODULE TotalsProofs -----------------------------
(* Facts about Total: it is a natural number, it is additive, and it is      *)
(* unchanged by zeros and by renaming the domain.  They replace the          *)
(* induction over the domain that a fold would need.                         *)
EXTENDS Totals, FiniteSetsExt, FiniteSetTheorems, WellFoundedInduction, TLAPS

\* The smallest of some natural numbers is one of them, and no larger than any.
LEMMA MinMember ==
  ASSUME NEW S \in SUBSET Nat, S # {}
  PROVE  Min(S) \in S /\ \A y \in S : Min(S) <= y
<1>1. PICK x \in S : \A y \in S : ~(<<y, x>> \in OpToRel(<, Nat))
  BY NatLessThanWellFounded, WFMin
<1>2. \A y \in S : ~(y < x)
  BY <1>1 DEF OpToRel
<1>3. \A y \in S : x <= y
  BY <1>2
<1> QED BY <1>3 DEF Min

\* So has the largest, if a number bounds them.
LEMMA MaxMember ==
  ASSUME NEW n \in Nat, NEW S \in SUBSET (0..n), S # {}
  PROVE  Max(S) \in S /\ \A y \in S : y <= Max(S)
<1> DEFINE T == {k \in Nat : n - k \in S}
<1>1. PICK x \in S : TRUE
  OBVIOUS
<1>2. n - x \in T
  BY <1>1
<1>3. PICK k \in T : \A y \in T : k <= y
  BY <1>2, MinMember
<1>4. ASSUME NEW y \in S PROVE y <= n - k
  <2>1. y \in Int /\ n - y \in T
    OBVIOUS
  <2>2. k <= n - y /\ k \in Nat
    <3> HIDE DEF T
    <3>1. k <= n - y
      BY <1>3, <2>1
    <3> QED BY <3>1, <1>3 DEF T
  <2> QED BY <2>1, <2>2
<1>5. PICK m \in S : \A y \in S : m >= y
  BY <1>3, <1>4
<1>6. Max(S) = CHOOSE z \in S : \A y \in S : z >= y
  BY DEF Max
<1>7. Max(S) \in S /\ \A y \in S : Max(S) >= y
  BY <1>5, <1>6
<1> QED BY <1>7

\* A set of natural numbers that holds 0 and with a number the next one has them all:
\* induction, for a set instead of a property.
LEMMA AllNumbers ==
  ASSUME NEW T \in SUBSET Nat, 0 \in T, \A n \in T : n + 1 \in T
  PROVE  T = Nat
<1> SUFFICES ASSUME Nat \ T # {} PROVE FALSE
  OBVIOUS
<1>1. PICK m \in Nat \ T : \A y \in Nat \ T : m <= y
  BY MinMember
<1>2. m # 0
  OBVIOUS
<1>3. m - 1 \in T
  BY <1>1, <1>2
<1> QED BY <1>3

\* What a coin is: a domain element and a number up to its value.
LEMMA CoinsMember ==
  ASSUME NEW S, NEW f \in [S -> Int], NEW c
  PROVE  c \in Coins(f) <=> \E x \in S, k \in Nat : c = <<x, k>> /\ 1 <= k /\ k <= f[x]
  BY DEF Coins

\* A total over a finite domain is a natural number.
LEMMA TotalType ==
  ASSUME NEW S, IsFiniteSet(S), NEW f \in [S -> Int]
  PROVE  IsFiniteSet(Coins(f)) /\ Total(f) \in Nat
<1> DEFINE Pile == [x \in S |-> {x} \X (1..f[x])]
           Piles == {Pile[x] : x \in S}
<1>1. Pile \in Surjection(S, Piles)
  BY DEF Surjection
<1>2. IsFiniteSet(Piles)
  BY <1>1, FS_Surjection
<1>3. ASSUME NEW P \in Piles PROVE IsFiniteSet(P)
  <2>1. PICK x \in S : P = {x} \X (1..f[x])
    OBVIOUS
  <2>2. IsFiniteSet({x})
    BY FS_Singleton
  <2>3. IsFiniteSet(1..f[x])
    <3>1. f[x] \in Int
      OBVIOUS
    <3> QED BY <3>1, FS_Interval
  <2> QED BY <2>1, <2>2, <2>3, FS_Product
<1>4. IsFiniteSet(UNION Piles)
  <2> HIDE DEF Piles
  <2> QED BY <1>2, <1>3, FS_UNION
<1>5. Coins(f) = UNION Piles
  BY DEF Coins
<1> QED BY <1>4, <1>5, FS_CardinalityType DEF Total

\* Totals of functions with the same non-zero values are equal.
LEMMA TotalSupport ==
  ASSUME NEW S, NEW T, NEW f \in [S -> Int], NEW g \in [T -> Int],
         \A x \in S \cap T : f[x] = g[x],
         \A x \in S \ T : f[x] = 0,
         \A x \in T \ S : g[x] = 0
  PROVE  Total(f) = Total(g)
<1>1. ASSUME NEW c PROVE c \in Coins(f) <=> c \in Coins(g)
  BY CoinsMember
<1>2. Coins(f) = Coins(g)
  BY <1>1
<1> QED BY <1>2 DEF Total

\* The total of a function with one non-zero value is that value.
LEMMA TotalPoint ==
  ASSUME NEW S, NEW f \in [S -> Nat], NEW a \in S, \A x \in S \ {a} : f[x] = 0
  PROVE  Total(f) = f[a]
<1>1. ASSUME NEW c PROVE c \in Coins(f) <=> c \in {a} \X (1..f[a])
  BY CoinsMember
<1>2. Coins(f) = {a} \X (1..f[a])
  BY <1>1
<1>3. IsFiniteSet({a}) /\ Cardinality({a}) = 1
  BY FS_Singleton
<1>4. IsFiniteSet(1..f[a]) /\ Cardinality(1..f[a]) = f[a]
  <2>1. f[a] \in Nat
    OBVIOUS
  <2>2. f[a] \in Int /\ 1 \in Int
    BY <2>1
  <2>3. /\ IsFiniteSet(1..f[a])
        /\ Cardinality(1..f[a]) = IF 1 > f[a] THEN 0 ELSE f[a] - 1 + 1
    BY <2>2, FS_Interval
  <2> QED BY <2>1, <2>3
<1>5. Cardinality({a} \X (1..f[a])) = Cardinality({a}) * Cardinality(1..f[a])
  BY <1>3, <1>4, FS_Product
<1>6. f[a] = 1 * f[a]
  OBVIOUS
<1> QED BY <1>2, <1>3, <1>4, <1>5, <1>6 DEF Total

\* Renaming the domain keeps the total.
LEMMA TotalRename ==
  ASSUME NEW S, IsFiniteSet(S), NEW T, NEW b \in Bijection(S, T),
         NEW f \in [S -> Int], NEW g \in [T -> Int], \A x \in S : f[x] = g[b[x]]
  PROVE  Total(f) = Total(g)
<1> DEFINE rename == [c \in Coins(f) |-> <<b[c[1]], c[2]>>]
<1>1. ASSUME NEW c \in Coins(f) PROVE rename[c] \in Coins(g)
  BY CoinsMember DEF Bijection, Injection, IsInjective, Surjection
<1>2. ASSUME NEW c \in Coins(f), NEW d \in Coins(f), rename[c] = rename[d] PROVE c = d
  <2>1. PICK x \in S, k \in Nat : c = <<x, k>>
    BY CoinsMember
  <2>2. PICK y \in S, l \in Nat : d = <<y, l>>
    BY CoinsMember
  <2>3. <<b[x], k>> = <<b[y], l>>
    BY <1>2, <2>1, <2>2
  <2> QED BY <2>1, <2>2, <2>3 DEF Bijection, Injection, IsInjective
<1>3. ASSUME NEW d \in Coins(g) PROVE \E c \in Coins(f) : rename[c] = d
  <2>1. PICK y \in T, k \in Nat : d = <<y, k>> /\ 1 <= k /\ k <= g[y]
    BY CoinsMember
  <2>2. PICK x \in S : b[x] = y
    BY DEF Bijection, Surjection
  <2>3. <<x, k>> \in Coins(f)
    BY <2>1, <2>2, CoinsMember
  <2> QED BY <2>1, <2>2, <2>3
<1>4. rename \in Bijection(Coins(f), Coins(g))
  <2> HIDE DEF rename
  <2>1. rename \in [Coins(f) -> Coins(g)]
    BY <1>1 DEF rename
  <2> QED BY <2>1, <1>2, <1>3 DEF Bijection, Injection, IsInjective, Surjection
<1>5. IsFiniteSet(Coins(f))
  BY TotalType
<1> QED BY <1>4, <1>5, FS_Bijection DEF Total, ExistsBijection

\* Totals are additive.
LEMMA TotalAdd ==
  ASSUME NEW S, IsFiniteSet(S),
         NEW f \in [S -> Nat], NEW g \in [S -> Nat], NEW h \in [S -> Nat],
         \A x \in S : f[x] = g[x] + h[x]
  PROVE  Total(f) = Total(g) + Total(h)
<1> DEFINE Upper == Coins(f) \ Coins(g)
           lower == [c \in Upper |-> <<c[1], c[2] - g[c[1]]>>]
<1>1. ASSUME NEW c
      PROVE  c \in Upper <=>
               \E x \in S, k \in Nat : c = <<x, k>> /\ g[x] < k /\ k <= g[x] + h[x]
  BY CoinsMember
<1>2. Coins(f) = Coins(g) \cup Upper /\ Coins(g) \cap Upper = {}
  <2>1. ASSUME NEW c \in Coins(g) PROVE c \in Coins(f)
    BY CoinsMember
  <2> QED BY <2>1
<1>3. IsFiniteSet(Coins(f)) /\ IsFiniteSet(Coins(g)) /\ IsFiniteSet(Upper)
  <2>1. f \in [S -> Int] /\ g \in [S -> Int]
    OBVIOUS
  <2>2. IsFiniteSet(Coins(f)) /\ IsFiniteSet(Coins(g))
    BY <2>1, TotalType
  <2> QED BY <2>2, FS_Difference
<1>4. Cardinality(Coins(f)) = Cardinality(Coins(g)) + Cardinality(Upper)
  <2> HIDE DEF Upper
  <2>1. Cardinality(Coins(g) \cap Upper) = 0
    BY <1>2, FS_EmptySet
  <2>2. Cardinality(Coins(g)) \in Nat /\ Cardinality(Upper) \in Nat
    BY <1>3, FS_CardinalityType
  <2>3. Cardinality(Coins(g) \cup Upper) =
          Cardinality(Coins(g)) + Cardinality(Upper) - Cardinality(Coins(g) \cap Upper)
    BY <1>3, FS_Union
  <2> QED BY <1>2, <2>1, <2>2, <2>3
<1>5. lower \in Bijection(Upper, Coins(h))
  <2>1. ASSUME NEW c \in Upper PROVE lower[c] \in Coins(h)
    <3>1. PICK x \in S, k \in Nat : c = <<x, k>> /\ g[x] < k /\ k <= g[x] + h[x]
      BY <1>1
    <3>2. lower[c] = <<x, k - g[x]>> /\ k - g[x] \in Nat /\ 1 <= k - g[x] /\ k - g[x] <= h[x]
      BY <3>1
    <3> QED BY <3>2, CoinsMember
  <2>2. ASSUME NEW c \in Upper, NEW d \in Upper, lower[c] = lower[d] PROVE c = d
    <3>1. PICK x \in S, k \in Nat : c = <<x, k>>
      BY <1>1
    <3>2. PICK y \in S, l \in Nat : d = <<y, l>>
      BY <1>1
    <3> QED BY <2>2, <3>1, <3>2
  <2>3. ASSUME NEW d \in Coins(h) PROVE \E c \in Upper : lower[c] = d
    <3>1. PICK x \in S, k \in Nat : d = <<x, k>> /\ 1 <= k /\ k <= h[x]
      BY CoinsMember
    <3>2. <<x, k + g[x]>> \in Upper
      BY <1>1, <3>1
    <3>3. lower[<<x, k + g[x]>>] = d
      BY <3>1, <3>2
    <3> QED BY <3>2, <3>3
  <2>4. lower \in [Upper -> Coins(h)]
    <3> HIDE DEF Upper
    <3> QED BY <2>1
  <2> HIDE DEF lower, Upper
  <2> QED BY <2>2, <2>3, <2>4 DEF Bijection, Injection, IsInjective, Surjection
<1>6. Cardinality(Coins(h)) = Cardinality(Upper)
  <2> HIDE DEF lower, Upper
  <2> QED BY <1>3, <1>5, FS_Bijection DEF ExistsBijection
<1> QED BY <1>4, <1>6 DEF Total

\* Changing one value changes the total by as much.
LEMMA TotalChange ==
  ASSUME NEW S, IsFiniteSet(S), NEW f \in [S -> Nat], NEW g \in [S -> Nat], NEW a \in S,
         \A x \in S \ {a} : f[x] = g[x]
  PROVE  Total(f) - f[a] = Total(g) - g[a]
<1> DEFINE rest == [x \in S |-> IF x = a THEN 0 ELSE f[x]]
           point(k) == [x \in S |-> IF x = a THEN k ELSE 0]
<1>1. rest \in [S -> Nat] /\ point(f[a]) \in [S -> Nat] /\ point(g[a]) \in [S -> Nat]
  OBVIOUS
<1>2. Total(point(f[a])) = f[a] /\ Total(point(g[a])) = g[a]
  <2>1. \A k \in Nat : Total(point(k)) = point(k)[a]
    BY TotalPoint
  <2> QED BY <2>1
<1>3. Total(f) = Total(rest) + Total(point(f[a]))
  <2>1. \A x \in S : f[x] = rest[x] + point(f[a])[x]
    OBVIOUS
  <2> HIDE DEF rest, point
  <2> QED BY <1>1, <2>1, TotalAdd
<1>4. Total(g) = Total(rest) + Total(point(g[a]))
  <2>1. \A x \in S : g[x] = rest[x] + point(g[a])[x]
    OBVIOUS
  <2> HIDE DEF rest, point
  <2> QED BY <1>1, <2>1, TotalAdd
<1>5. Total(rest) \in Nat
  BY <1>1, TotalType
<1> QED BY <1>2, <1>3, <1>4, <1>5

\* One value is at most the total.
LEMMA TotalMember ==
  ASSUME NEW S, IsFiniteSet(S), NEW f \in [S -> Nat], NEW a \in S
  PROVE  f[a] <= Total(f)
<1> DEFINE g == [x \in S |-> IF x = a THEN 0 ELSE f[x]]
<1>1. g \in [S -> Nat] /\ g[a] = 0 /\ \A x \in S \ {a} : f[x] = g[x]
  OBVIOUS
<1>2. Total(g) \in Nat /\ Total(f) \in Nat
  BY <1>1, TotalType
<1> HIDE DEF g
<1>3. Total(f) - f[a] = Total(g) - g[a]
  BY <1>1, TotalChange
<1> QED BY <1>1, <1>2, <1>3

\* g on S and R extends f on S by the values of h on T, which b numbers.
Extends(g, f, h, b, S, R, T) ==
  /\ IsFiniteSet(S) /\ IsFiniteSet(R) /\ S \cap R = {} /\ b \in Bijection(R, T)
  /\ f \in [S -> Int] /\ g \in [S \cup R -> Int] /\ h \in [T -> Int]
  /\ \A x \in S : g[x] = f[x]
  /\ \A x \in R : g[x] = h[b[x]]

\* Extending a family by a renamed one adds the total of the latter.
LEMMA TotalExtend ==
  ASSUME NEW S, NEW R, NEW T, NEW b, NEW f, NEW g, NEW h, Extends(g, f, h, b, S, R, T)
  PROVE  Total(g) = Total(f) + Total(h)
<1> USE DEF Extends
<1>1. PICK k : k = [x \in R |-> h[b[x]]]
  OBVIOUS
<1>2. k \in [R -> Int] /\ \A x \in R : k[x] = h[b[x]] /\ g[x] = k[x]
  BY <1>1 DEF Bijection, Injection
<1>3. Total(k) = Total(h)
  BY <1>2, TotalRename
<1>4. Coins(g) = Coins(f) \cup Coins(k) /\ Coins(f) \cap Coins(k) = {}
  <2>1. ASSUME NEW c PROVE c \in Coins(g) <=> c \in Coins(f) \/ c \in Coins(k)
    BY <1>2, CoinsMember
  <2>2. ASSUME NEW c \in Coins(f), c \in Coins(k) PROVE FALSE
    BY <1>2, <2>2, CoinsMember
  <2> QED BY <2>1, <2>2
<1>5. IsFiniteSet(Coins(f)) /\ IsFiniteSet(Coins(k)) /\ Total(f) \in Nat /\ Total(k) \in Nat
  BY <1>2, TotalType
<1>6. Cardinality(Coins(f) \cap Coins(k)) = 0
  BY <1>4, FS_EmptySet
<1>7. Cardinality(Coins(g)) =
        Cardinality(Coins(f)) + Cardinality(Coins(k)) - Cardinality(Coins(f) \cap Coins(k))
  BY <1>4, <1>5, FS_Union
<1> QED BY <1>3, <1>5, <1>6, <1>7 DEF Total

\* A total above zero has a summand above zero.
LEMMA TotalPositive ==
  ASSUME NEW S, NEW f \in [S -> Int], Total(f) # 0
  PROVE  \E x \in S : f[x] > 0
<1>1. Coins(f) # {}
  BY FS_EmptySet DEF Total
<1>2. PICK c : c \in Coins(f)
  BY <1>1
<1>3. \E x \in S, k \in Nat : c = <<x, k>> /\ 1 <= k /\ k <= f[x]
  BY <1>2, CoinsMember
<1>4. PICK x \in S, k \in Nat : 1 <= k /\ k <= f[x]
  BY <1>3
<1>5. f[x] \in Int
  OBVIOUS
<1>6. f[x] > 0
  BY <1>4, <1>5
<1> QED BY <1>6

\* A total grows with the function.
LEMMA TotalMonotone ==
  ASSUME NEW S, IsFiniteSet(S), NEW f \in [S -> Nat], NEW g \in [S -> Nat],
         \A x \in S : f[x] <= g[x]
  PROVE  Total(f) <= Total(g)
<1>1. Coins(f) \subseteq Coins(g)
  <2> SUFFICES ASSUME NEW c \in Coins(f) PROVE c \in Coins(g)
    OBVIOUS
  <2>1. PICK x \in S, k \in Nat : c = <<x, k>> /\ 1 <= k /\ k <= f[x]
    BY CoinsMember
  <2>2. k <= g[x]
    BY <2>1
  <2> QED BY <2>1, <2>2, CoinsMember
<1>2. IsFiniteSet(Coins(g))
  BY TotalType
<1> QED BY <1>1, <1>2, FS_Subset DEF Total

\* The total over a part of the domain is no larger.
LEMMA TotalPart ==
  ASSUME NEW S, IsFiniteSet(S), NEW f \in [S -> Nat], NEW T \in SUBSET S, NEW g \in [T -> Nat],
         \A x \in T : g[x] = f[x]
  PROVE  Total(g) <= Total(f) /\ Total(g) \in Nat /\ Total(f) \in Nat
<1>1. Coins(g) \subseteq Coins(f)
  <2> SUFFICES ASSUME NEW c \in Coins(g) PROVE c \in Coins(f)
    OBVIOUS
  <2>1. PICK x \in T, k \in Nat : c = <<x, k>> /\ 1 <= k /\ k <= g[x]
    BY CoinsMember
  <2> QED BY <2>1, CoinsMember
<1>2. IsFiniteSet(T)
  BY FS_Subset
<1>3. IsFiniteSet(Coins(f)) /\ Total(g) \in Nat /\ Total(f) \in Nat
  BY <1>2, TotalType
<1> QED BY <1>1, <1>3, FS_Subset DEF Total
=============================================================================
