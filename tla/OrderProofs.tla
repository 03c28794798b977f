---------------------------- MODULE OrderProofs ----------------------------
(***************************************************************************)
(* Sets of naturals have a least and, when bounded, a greatest element:    *)
(* what the proofs need induction for is argued from these two, as there   *)
(* being no least counterexample.  And InOrder puts a finite set in order. *)
(***************************************************************************)
EXTENDS Order, FunctionTheorems, FiniteSetTheorems, WellFoundedInduction, TLAPS

\* A set of naturals that has a member has a least one.
LEMMA Least ==
    ASSUME NEW T, T \subseteq Nat, T # {}
    PROVE  \E x \in T : \A y \in T : x <= y
<1> DEFINE R == {z \in Nat \X Nat : z[1] < z[2]}
<1>1. R = OpToRel(<, Nat)
  BY Zenon DEF OpToRel
<1>2. IsWellFoundedOn(R, Nat)
  BY <1>1, NatLessThanWellFounded, Zenon
<1>3. \A x, y \in Nat : y < x => <<y, x>> \in R
  OBVIOUS
<1> HIDE DEF R
<1>4. PICK x \in T : \A y \in T : ~ (<<y, x>> \in R)
  BY <1>2, WFMin
<1>5. \A y \in T : x \in Nat /\ y \in Nat /\ ~ (y < x)
  BY <1>3, <1>4
<1> QED
  BY <1>5

\* A set of naturals that has a bound has a greatest one.
LEMMA Greatest ==
    ASSUME NEW n \in Nat, NEW T, T \subseteq 0 .. n, T # {}
    PROVE  \E x \in T : \A y \in T : y <= x
<1> DEFINE U == {z \in Nat : n - z \in T}
<1>1. \A y \in T : y \in 0 .. n /\ n - y \in Nat /\ n - (n - y) = y
  OBVIOUS
<1>2. U \subseteq Nat /\ U # {}
  BY <1>1
<1>3. PICK u \in U : \A y \in U : u <= y
  BY <1>2, Least
<1>4. n - u \in T /\ u \in Nat
  OBVIOUS
<1>5. ASSUME NEW y \in T PROVE y <= n - u
  <2>1. n - y \in U
    BY <1>1
  <2>2. u <= n - y
    BY <1>3, <2>1
  <2> QED  BY <1>1, <1>4, <2>2
<1> QED  BY <1>4, <1>5

(***************************************************************************)
(* Sorting.                                                                *)
(***************************************************************************)
\* before is a strict total order of S.
Orders(before, S) ==
    /\ \A x \in S : <<x, x>> \notin before
    /\ \A x, y, z \in S : <<x, y>> \in before /\ <<y, z>> \in before => <<x, z>> \in before
    /\ \A x, y \in S : x = y \/ <<x, y>> \in before \/ <<y, x>> \in before

\* f lists S in the order of before.
Lists(f, S, before) ==
    /\ f \in [1 .. Cardinality(S) -> S]
    /\ \A i, j \in 1 .. Cardinality(S) : i < j <=> <<f[i], f[j]>> \in before
    /\ \A x \in S : \E i \in 1 .. Cardinality(S) : f[i] = x

\* Fewer precede what stands earlier.
LEMMA BelowGrows ==
    ASSUME NEW S, IsFiniteSet(S), NEW before, Orders(before, S),
           NEW x \in S, NEW y \in S, <<x, y>> \in before
    PROVE  /\ Cardinality(Below(S, before, x)) \in 0 .. Cardinality(S) - 1
           /\ Cardinality(Below(S, before, y)) \in 0 .. Cardinality(S) - 1
           /\ Cardinality(Below(S, before, x)) < Cardinality(Below(S, before, y))
<1>1. ASSUME NEW z \in S
      PROVE  /\ IsFiniteSet(Below(S, before, z))
             /\ Cardinality(Below(S, before, z)) \in 0 .. Cardinality(S) - 1
  <2>1. Below(S, before, z) \subseteq S /\ z \notin Below(S, before, z)
    BY DEF Below, Orders
  <2>2. /\ IsFiniteSet(Below(S, before, z))
        /\ Cardinality(Below(S, before, z)) <= Cardinality(S)
        /\ Cardinality(Below(S, before, z)) # Cardinality(S)
    BY <2>1, FS_Subset
  <2>3. Cardinality(Below(S, before, z)) \in Nat /\ Cardinality(S) \in Nat
    BY <2>2, FS_CardinalityType
  <2> QED  BY <2>2, <2>3
<1>2. /\ Below(S, before, x) \subseteq Below(S, before, y)
      /\ x \in Below(S, before, y) \ Below(S, before, x)
  BY DEF Below, Orders
<1>3. /\ Cardinality(Below(S, before, x)) <= Cardinality(Below(S, before, y))
      /\ Cardinality(Below(S, before, x)) # Cardinality(Below(S, before, y))
  BY <1>1, <1>2, FS_Subset
<1> QED  BY <1>1, <1>3

\* A strict total order puts a finite set in order.
LEMMA InOrderLists ==
    ASSUME NEW S, IsFiniteSet(S), NEW before, Orders(before, S)
    PROVE  Lists(InOrder(S, before), S, before)
<1> DEFINE n == Cardinality(S)
           rank == [x \in S |-> Cardinality(Below(S, before, x)) + 1]
           f == InOrder(S, before)
<1>1. n \in Nat
  BY FS_CardinalityType
<1>2. ASSUME NEW x \in S
      PROVE  Cardinality(Below(S, before, x)) \in 0 .. n - 1
  <2>1. Below(S, before, x) \subseteq S /\ x \notin Below(S, before, x)
    BY DEF Below, Orders
  <2>2. /\ IsFiniteSet(Below(S, before, x))
        /\ Cardinality(Below(S, before, x)) <= n
        /\ Cardinality(Below(S, before, x)) # n
    BY <2>1, FS_Subset
  <2>3. Cardinality(Below(S, before, x)) \in Nat
    BY <2>2, FS_CardinalityType
  <2> QED  BY <1>1, <2>2, <2>3
<1>3. \A x \in S : rank[x] = Cardinality(Below(S, before, x)) + 1 /\ rank[x] \in 1 .. n
  BY <1>1, <1>2
<1>4. \A x, y \in S : <<x, y>> \in before => rank[x] < rank[y]
  <2> TAKE x, y \in S
  <2> HAVE <<x, y>> \in before
  <2>1. Cardinality(Below(S, before, x)) < Cardinality(Below(S, before, y))
    BY BelowGrows
  <2>2. Cardinality(Below(S, before, x)) \in Int /\ Cardinality(Below(S, before, y)) \in Int
    BY <1>2
  <2> QED  BY <1>3, <2>1, <2>2
<1> HIDE DEF rank
<1>5. \A x, y \in S : rank[x] = rank[y] => x = y
  <2> TAKE x, y \in S
  <2> HAVE rank[x] = rank[y]
  <2>1. rank[x] \in Int /\ rank[y] \in Int
    BY <1>3
  <2>2. <<x, y>> \notin before /\ <<y, x>> \notin before
    BY <1>4, <2>1
  <2> QED  BY <2>2 DEF Orders
<1>6. rank \in Injection(S, 1 .. n)
  <2>1. rank \in [S -> 1 .. n]
    BY <1>3 DEF rank
  <2> QED  BY <1>5, <2>1 DEF Injection, IsInjective
<1>7. IsFiniteSet(1 .. n) /\ Cardinality(1 .. n) = n
  BY <1>1, FS_Interval
<1>8. rank \in Surjection(S, 1 .. n)
  BY <1>6, <1>7, FS_Injection
<1>9. \A i \in 1 .. n : \E x \in S : rank[x] = i
  BY <1>8 DEF Surjection
<1>10. ASSUME NEW i \in 1 .. n
       PROVE  f[i] \in S /\ rank[f[i]] = i
  <2>1. PICK x \in S : rank[x] = i
    BY <1>9
  <2>2. Cardinality(Below(S, before, x)) = i - 1
    BY <1>2, <1>3, <2>1
  <2>3. f[i] = CHOOSE y \in S : Cardinality(Below(S, before, y)) = i - 1
    BY DEF InOrder
  <2>4. f[i] \in S /\ Cardinality(Below(S, before, f[i])) = i - 1
    BY <2>2, <2>3
  <2> QED  BY <1>3, <2>4
<1>11. f \in [1 .. n -> S]
  <2>1. f = [i \in 1 .. n |-> f[i]]
    BY DEF InOrder
  <2> QED  BY <1>10, <2>1
<1> HIDE DEF f
<1>12. ASSUME NEW i \in 1 .. n, NEW j \in 1 .. n
       PROVE  i < j <=> <<f[i], f[j]>> \in before
  <2>1. /\ f[i] \in S /\ rank[f[i]] = i
        /\ f[j] \in S /\ rank[f[j]] = j
    BY <1>10
  <2>2. i < j => <<f[i], f[j]>> \in before
    <3>1. CASE f[i] = f[j]
      BY <2>1, <3>1
    <3>2. CASE <<f[j], f[i]>> \in before
      BY <1>4, <2>1, <3>2
    <3> QED  BY <2>1, <3>1, <3>2 DEF Orders
  <2> QED  BY <1>4, <2>1, <2>2
<1>13. ASSUME NEW x \in S
       PROVE  \E i \in 1 .. n : f[i] = x
  <2>1. rank[x] \in 1 .. n
    BY <1>3
  <2> QED  BY <1>5, <1>10, <2>1
<1> QED  BY <1>11, <1>12, <1>13 DEF Lists, f

\* Pairs of naturals are in order by the first, then by the second.
LEMMA PrecedenceOrders ==
    ASSUME NEW S, S \subseteq Nat \X Nat
    PROVE  Orders(Precedence, S)
<1>1. ASSUME NEW x \in S, NEW y \in S
      PROVE  /\ <<x, y>> \in Precedence <=> Before(x, y)
             /\ x[1] \in Nat /\ x[2] \in Nat
             /\ x = y <=> x[1] = y[1] /\ x[2] = y[2]
  BY DEF Precedence
<1>2. \A x \in S : <<x, x>> \notin Precedence
  BY <1>1 DEF Before
<1>3. \A x, y, z \in S :
         <<x, y>> \in Precedence /\ <<y, z>> \in Precedence => <<x, z>> \in Precedence
  <2> TAKE x, y, z \in S
  <2>1. Before(x, y) /\ Before(y, z) => Before(x, z)
    BY <1>1 DEF Before
  <2> QED  BY <1>1, <2>1
<1>4. \A x, y \in S : x = y \/ <<x, y>> \in Precedence \/ <<y, x>> \in Precedence
  <2> TAKE x, y \in S
  <2>1. x = y \/ Before(x, y) \/ Before(y, x)
    BY <1>1 DEF Before
  <2> QED  BY <1>1, <2>1
<1> QED  BY <1>2, <1>3, <1>4 DEF Orders

\* A set is listed in one way.
LEMMA OneListing ==
    ASSUME NEW S, IsFiniteSet(S), NEW before, NEW f, Lists(f, S, before), NEW g, Lists(g, S, before)
    PROVE  f = g
<1> DEFINE n == Cardinality(S)
           C == {i \in Nat \ {0} : i <= n /\ f[i] # g[i]}
<1>1. n \in Nat
  BY FS_CardinalityType
<1>2. /\ f \in [1 .. n -> S] /\ g \in [1 .. n -> S]
      /\ \A i, j \in 1 .. n : i < j <=> <<f[i], f[j]>> \in before
      /\ \A i, j \in 1 .. n : i < j <=> <<g[i], g[j]>> \in before
      /\ \A x \in S : \E i \in 1 .. n : f[i] = x
      /\ \A x \in S : \E i \in 1 .. n : g[i] = x
  BY DEF Lists
<1> HIDE DEF n
<1>3. C = {}
  <2> SUFFICES ASSUME C # {} PROVE FALSE
    OBVIOUS
  <2>1. PICK i \in C : \A j \in C : i <= j
    BY Least
  <2>2. i \in 1 .. n /\ f[i] # g[i]
    BY <1>1
  <2>3. \A j \in 1 .. n : j < i => f[j] = g[j]
    <3> SUFFICES ASSUME NEW j \in 1 .. n, j < i, f[j] # g[j] PROVE FALSE
      OBVIOUS
    <3>1. j \in Nat \ {0} /\ j <= n /\ ~ (i <= j)
      BY <1>1, <2>2
    <3>2. j \in C
      BY <3>1
    <3> QED  BY <2>1, <3>1, <3>2
  <2>4. PICK l \in 1 .. n : g[l] = f[i]
    BY <1>2, <2>2
  <2>5. PICK m \in 1 .. n : f[m] = g[i]
    BY <1>2, <2>2
  <2>6. ~ (l < i)
    <3> SUFFICES ASSUME l < i PROVE FALSE
      OBVIOUS
    <3>1. f[l] = f[i] /\ <<f[l], f[i]>> \in before
      BY <1>2, <2>2, <2>3, <2>4
    <3>2. <<f[i], f[i]>> \notin before
      BY <1>1, <1>2, <2>2
    <3> QED  BY <3>1, <3>2
  <2>7. ~ (m < i)
    <3> SUFFICES ASSUME m < i PROVE FALSE
      OBVIOUS
    <3>1. g[m] = g[i] /\ <<g[m], g[i]>> \in before
      BY <1>2, <2>2, <2>3, <2>5
    <3>2. <<g[i], g[i]>> \notin before
      BY <1>1, <1>2, <2>2
    <3> QED  BY <3>1, <3>2
  <2>8. i < l /\ i < m
    BY <1>1, <2>2, <2>4, <2>5, <2>6, <2>7
  <2>9. <<f[m], f[i]>> \in before
    <3>1. <<g[i], g[l]>> \in before
      BY <1>2, <2>2, <2>8
    <3> QED  BY <2>4, <2>5, <3>1
  <2>10. m < i
    BY <1>2, <2>2, <2>9
  <2> QED  BY <2>7, <2>10
<1>4. ASSUME NEW i \in 1 .. n
      PROVE  f[i] = g[i]
  <2>1. i \in Nat \ {0} /\ i <= n /\ i \notin C
    BY <1>1, <1>3
  <2> QED  BY <2>1
<1> HIDE DEF C
<1>5. f = [i \in 1 .. n |-> f[i]] /\ g = [i \in 1 .. n |-> g[i]]
  BY <1>2
<1>6. [i \in 1 .. n |-> f[i]] = [i \in 1 .. n |-> g[i]]
  BY <1>4
<1> QED  BY <1>5, <1>6

\* The other way round, a set is listed backwards.
LEMMA Reversed ==
    ASSUME NEW S, IsFiniteSet(S), NEW before, NEW after,
           \A x, y \in S : <<x, y>> \in after <=> <<y, x>> \in before,
           NEW f, Lists(f, S, before), NEW g, Lists(g, S, after)
    PROVE  \A i \in 1 .. Cardinality(S) : g[i] = f[(Cardinality(S) + 1) - i]
<1> DEFINE n == Cardinality(S)
           h == [i \in 1 .. n |-> f[(n + 1) - i]]
<1>1. n \in Nat
  BY FS_CardinalityType
<1>2. /\ f \in [1 .. n -> S]
      /\ \A i, j \in 1 .. n : i < j <=> <<f[i], f[j]>> \in before
      /\ \A x \in S : \E i \in 1 .. n : f[i] = x
  BY DEF Lists
<1> HIDE DEF n
<1>3. \A i \in 1 .. n : h[i] = f[(n + 1) - i] /\ (n + 1) - i \in 1 .. n
  BY <1>1
<1>4. h \in [1 .. n -> S]
  BY <1>2, <1>3
<1> HIDE DEF h
<1>5. ASSUME NEW i \in 1 .. n, NEW j \in 1 .. n
      PROVE  i < j <=> <<h[i], h[j]>> \in after
  <2> DEFINE k == (n + 1) - i
             l == (n + 1) - j
  <2>1. k \in 1 .. n /\ l \in 1 .. n /\ (i < j <=> l < k)
    BY <1>1
  <2>2. h[i] = f[k] /\ h[j] = f[l] /\ f[k] \in S /\ f[l] \in S
    BY <1>2, <1>3, <2>1
  <2> HIDE DEF k, l
  <2>3. l < k <=> <<f[l], f[k]>> \in before
    BY <1>2, <2>1
  <2>4. <<f[k], f[l]>> \in after <=> <<f[l], f[k]>> \in before
    BY <2>2
  <2> QED  BY <2>1, <2>2, <2>3, <2>4
<1>6. ASSUME NEW x \in S
      PROVE  \E i \in 1 .. n : h[i] = x
  <2>1. PICK j \in 1 .. n : f[j] = x
    BY <1>2
  <2>2. (n + 1) - j \in 1 .. n /\ (n + 1) - ((n + 1) - j) = j
    BY <1>1
  <2>3. h[(n + 1) - j] = x
    BY <1>3, <2>1, <2>2
  <2> QED  BY <2>2, <2>3
<1>7. Lists(h, S, after)
  BY <1>4, <1>5, <1>6 DEF Lists, n
<1>8. g = h
  BY <1>7, OneListing
<1> QED  BY <1>3, <1>8 DEF n
=============================================================================
