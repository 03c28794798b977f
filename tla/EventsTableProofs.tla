------------------------- MODULE EventsTableProofs -------------------------
(***************************************************************************)
(* What the readers of the events table see, for every set of pitches,     *)
(* every set of builds that keep the rules of the schema, and every length *)
(* of the game.                                                            *)
(***************************************************************************)
EXTENDS EventsTable, PayloadProofs, OrderProofs, SequenceTheorems

(***************************************************************************)
(* Event ids as text.                                                      *)
(***************************************************************************)
\* Two sequences are one when they agree everywhere.
LEMMA SameSequence ==
    ASSUME NEW S, NEW s \in Seq(S), NEW t \in Seq(S), Len(s) = Len(t),
           \A i \in 1 .. Len(s) : s[i] = t[i]
    PROVE  s = t
OBVIOUS

\* Text is ordered, as a dictionary is.
LEMMA TextIrreflexive ==
    ASSUME NEW s \in Seq(Nat)
    PROVE  ~ TextBefore(s, s)
BY DEF TextBefore

LEMMA TextTransitive ==
    ASSUME NEW s \in Seq(Nat), NEW t \in Seq(Nat), NEW u \in Seq(Nat),
           TextBefore(s, t), TextBefore(t, u)
    PROVE  TextBefore(s, u)
<1>1. PICK i \in 1 .. Len(t) :
         /\ \A h \in 1 .. i - 1 : h <= Len(s) /\ s[h] = t[h]
         /\ i > Len(s) \/ s[i] < t[i]
  BY DEF TextBefore
<1>2. PICK j \in 1 .. Len(u) :
         /\ \A h \in 1 .. j - 1 : h <= Len(t) /\ t[h] = u[h]
         /\ j > Len(t) \/ t[j] < u[j]
  BY DEF TextBefore
<1>3. Len(s) \in Nat /\ Len(t) \in Nat /\ Len(u) \in Nat /\ i \in Nat /\ j \in Nat
  OBVIOUS
<1>4. CASE i < j
  <2>1. i \in 1 .. Len(u) /\ t[i] = u[i]
    BY <1>2, <1>3, <1>4
  <2>2. \A h \in 1 .. i - 1 : h <= Len(s) /\ s[h] = u[h]
    BY <1>1, <1>2, <1>3, <1>4
  <2> QED  BY <1>1, <2>1, <2>2 DEF TextBefore
<1>5. CASE j < i
  <2>1. j \in 1 .. i - 1 /\ j <= Len(t)
    BY <1>3, <1>5
  <2>2. s[j] < u[j]
    <3>1. s[j] = t[j]
      BY <1>1, <2>1
    <3>2. t[j] < u[j]
      BY <1>2, <1>3, <2>1
    <3> QED  BY <3>1, <3>2
  <2>3. \A h \in 1 .. j - 1 : h <= Len(s) /\ s[h] = u[h]
    <3> TAKE h \in 1 .. j - 1
    <3>1. h \in 1 .. i - 1
      BY <1>3, <1>5
    <3>2. h <= Len(s) /\ s[h] = t[h] /\ t[h] = u[h]
      BY <1>1, <1>2, <3>1, Zenon
    <3> QED  BY <3>2
  <2> QED  BY <2>2, <2>3 DEF TextBefore
<1>6. CASE i = j
  <2>1. t[i] < u[i]
    <3>1. j > Len(t) \/ t[j] < u[j]
      BY <1>2
    <3> QED  BY <1>3, <1>6, <3>1
  <2>2. i > Len(s) \/ s[i] < u[i]
    <3>1. CASE i > Len(s)
      BY <3>1
    <3>2. CASE ~ (i > Len(s))
      <4>1. i \in 1 .. Len(s) /\ i \in 1 .. Len(t) /\ i \in 1 .. Len(u)
        BY <1>3, <1>6, <3>2
      <4>2. s[i] \in Nat /\ t[i] \in Nat /\ u[i] \in Nat
        BY <4>1, ElementOfSeq
      <4>3. s[i] < t[i]
        BY <1>1, <3>2, Zenon
      <4>4. \A x, y, z \in Nat : x < y /\ y < z => x < z
        OBVIOUS
      <4> QED  BY <2>1, <4>2, <4>3, <4>4, Zenon
    <3> QED  BY <3>1, <3>2
  <2>3. \A h \in 1 .. i - 1 : h <= Len(s) /\ s[h] = u[h]
    BY <1>1, <1>2, <1>3, <1>6
  <2> QED  BY <1>6, <2>2, <2>3 DEF TextBefore
<1> QED  BY <1>3, <1>4, <1>5, <1>6

LEMMA TextTotal ==
    ASSUME NEW s \in Seq(Nat), NEW t \in Seq(Nat)
    PROVE  s = t \/ TextBefore(s, t) \/ TextBefore(t, s)
<1> DEFINE D == {i \in Nat \ {0} : i <= Len(s) /\ i <= Len(t) /\ s[i] # t[i]}
<1>1. /\ Len(s) \in Nat /\ Len(t) \in Nat
      /\ \A i \in 1 .. Len(s) : s[i] \in Nat
      /\ \A i \in 1 .. Len(t) : t[i] \in Nat
  OBVIOUS
<1>2. CASE D = {}
  <2>1. \A i \in Nat \ {0} : i <= Len(s) /\ i <= Len(t) => s[i] = t[i]
    BY <1>2
  <2>2. CASE Len(s) = Len(t)
    <3>1. \A i \in 1 .. Len(s) : s[i] = t[i]
      BY <1>1, <2>1, <2>2
    <3> QED  BY <2>2, <3>1, SameSequence
  <2>3. CASE Len(s) < Len(t)
    <3>1. /\ Len(s) + 1 \in 1 .. Len(t)
          /\ \A h \in 1 .. (Len(s) + 1) - 1 : h <= Len(s) /\ s[h] = t[h]
          /\ Len(s) + 1 > Len(s)
      BY <1>1, <2>1, <2>3
    <3> QED  BY <3>1 DEF TextBefore
  <2>4. CASE Len(t) < Len(s)
    <3>1. /\ Len(t) + 1 \in 1 .. Len(s)
          /\ \A h \in 1 .. (Len(t) + 1) - 1 : h <= Len(t) /\ t[h] = s[h]
          /\ Len(t) + 1 > Len(t)
      BY <1>1, <2>1, <2>4
    <3> QED  BY <3>1 DEF TextBefore
  <2> QED  BY <1>1, <2>2, <2>3, <2>4
<1>3. CASE D # {}
  <2>1. PICK i \in D : \A h \in D : i <= h
    BY <1>3, Least
  <2>2. i \in 1 .. Len(s) /\ i \in 1 .. Len(t) /\ s[i] # t[i]
    BY <1>1
  <2>3. \A h \in 1 .. i - 1 : h <= Len(s) /\ h <= Len(t) /\ s[h] = t[h]
    <3> TAKE h \in 1 .. i - 1
    <3>1. h \in Nat \ {0} /\ h < i /\ h <= Len(s) /\ h <= Len(t)
      BY <1>1, <2>2
    <3> QED  BY <2>1, <3>1
  <2>4. s[i] < t[i] \/ t[i] < s[i]
    BY <1>1, <2>2
  <2> QED  BY <2>2, <2>3, <2>4 DEF TextBefore
<1> QED  BY <1>2, <1>3

\* The digits of the numbers up to m.
Step(f, n) == IF n < 10 THEN <<n>> ELSE Append(f[n \div 10], n % 10)
Partial(m, f) ==
    /\ f \in [0 .. m -> Seq(0 .. 9)]
    /\ \A n \in 0 .. m : f[n] = Step(f, n)

\* Division by ten.
LEMMA Tens ==
    ASSUME NEW n \in Nat
    PROVE  /\ n \div 10 \in Nat /\ n % 10 \in 0 .. 9 /\ n = (10 * (n \div 10)) + (n % 10)
           /\ n >= 10 => n \div 10 < n
OBVIOUS

LEMMA PartialExists ==
    ASSUME NEW m \in Nat
    PROVE  \E f : Partial(m, f)
<1> DEFINE C == {k \in Nat : ~ \E f : Partial(k, f)}
<1> SUFFICES ASSUME C # {} PROVE FALSE
  OBVIOUS
<1>1. PICK k \in C : \A l \in C : k <= l
  BY Least
<1>2. k \in Nat /\ ~ \E f : Partial(k, f)
  OBVIOUS
<1>3. CASE k = 0
  <2> DEFINE f == [n \in 0 .. 0 |-> <<0>>]
  <2>1. Partial(0, f)
    BY DEF Partial, Step
  <2> QED  BY <1>2, <1>3, <2>1
<1>4. CASE k # 0
  <2>1. k - 1 \in Nat /\ k - 1 \notin C
    BY <1>1, <1>2, <1>4
  <2>2. PICK f : Partial(k - 1, f)
    BY <2>1
  <2>3. /\ f \in [0 .. k - 1 -> Seq(0 .. 9)]
        /\ \A n \in 0 .. k - 1 : f[n] = Step(f, n)
    BY <2>2 DEF Partial
  <2>4. k >= 10 => k \div 10 \in 0 .. k - 1
    BY <1>2, Tens
  <2>5. Step(f, k) \in Seq(0 .. 9)
    <3>1. CASE k < 10
      BY <1>2, <3>1 DEF Step
    <3>2. CASE k >= 10
      <4>1. f[k \div 10] \in Seq(0 .. 9) /\ k % 10 \in 0 .. 9
        BY <1>2, <2>3, <2>4, <3>2, Tens
      <4>2. Append(f[k \div 10], k % 10) \in Seq(0 .. 9)
        BY <4>1
      <4> QED  BY <1>2, <3>2, <4>2 DEF Step
    <3> QED  BY <1>2, <3>1, <3>2
  <2> DEFINE g == [n \in 0 .. k |-> IF n = k THEN Step(f, k) ELSE f[n]]
  <2>6. g \in [0 .. k -> Seq(0 .. 9)]
    BY <1>2, <2>3, <2>5
  <2>7. /\ g[k] = Step(f, k)
        /\ \A n \in 0 .. k - 1 : g[n] = f[n]
    BY <1>2
  <2> HIDE DEF g
  <2>8. ASSUME NEW n \in 0 .. k
        PROVE  g[n] = Step(g, n)
    <3>1. Step(g, n) = Step(f, n)
      <4>1. CASE n < 10
        BY <4>1 DEF Step
      <4>2. CASE n >= 10
        <5>1. n \div 10 \in 0 .. k - 1
          BY <1>2, <4>2, Tens
        <5> QED  BY <2>7, <4>2, <5>1 DEF Step
      <4> QED  BY <4>1, <4>2
    <3>2. n = k \/ n \in 0 .. k - 1
      BY <1>2
    <3> QED  BY <2>3, <2>7, <3>1, <3>2
  <2>9. Partial(k, g)
    BY <2>6, <2>8 DEF Partial
  <2> QED  BY <1>2, <2>9
<1> QED  BY <1>3, <1>4

LEMMA PartialsAgree ==
    ASSUME NEW m \in Nat, NEW f, Partial(m, f), NEW k \in Nat, NEW g, Partial(k, g)
    PROVE  \A n \in Nat : n <= m /\ n <= k => f[n] = g[n]
<1> DEFINE C == {n \in Nat : n <= m /\ n <= k /\ f[n] # g[n]}
<1> SUFFICES ASSUME C # {} PROVE FALSE
  OBVIOUS
<1>1. PICK n \in C : \A l \in C : n <= l
  BY Least
<1>2. n \in Nat /\ n \in 0 .. m /\ n \in 0 .. k /\ f[n] # g[n]
  OBVIOUS
<1>3. f[n] = Step(f, n) /\ g[n] = Step(g, n)
  BY <1>2 DEF Partial
<1>4. CASE n < 10
  BY <1>2, <1>3, <1>4 DEF Step
<1>5. CASE n >= 10
  <2>1. n \div 10 \in Nat /\ n \div 10 < n
    BY <1>2, <1>5, Tens
  <2>2. n \div 10 \notin C /\ n \div 10 <= m /\ n \div 10 <= k
    BY <1>1, <1>2, <2>1
  <2>3. f[n \div 10] = g[n \div 10]
    BY <2>1, <2>2
  <2> QED  BY <1>2, <1>3, <1>5, <2>3 DEF Step
<1> QED  BY <1>2, <1>4, <1>5

\* Every number has digits.
LEMMA DigitsDefined == Digits = [n \in Nat |-> Step(Digits, n)]
<1> DEFINE G == [n \in Nat |-> (CHOOSE f : Partial(n, f))[n]]
<1>1. \A n \in Nat : Partial(n, CHOOSE f : Partial(n, f))
  BY PartialExists
<1>2. ASSUME NEW n \in Nat
      PROVE  G[n] = Step(G, n)
  <2> DEFINE f == CHOOSE h : Partial(n, h)
             g == CHOOSE h : Partial(n \div 10, h)
  <2>1. Partial(n, f) /\ G[n] = f[n] /\ n \div 10 \in Nat
    BY <1>1, Tens
  <2>2. Partial(n \div 10, g) /\ G[n \div 10] = g[n \div 10]
    BY <1>1, <2>1
  <2> HIDE DEF G, f, g
  <2>3. n >= 10 => f[n \div 10] = g[n \div 10]
    BY <2>1, <2>2, PartialsAgree, Tens
  <2>4. f[n] = Step(f, n)
    BY <2>1 DEF Partial
  <2> QED  BY <2>1, <2>2, <2>3, <2>4 DEF Step
<1>3. G = [n \in Nat |-> G[n]]
  OBVIOUS
<1> HIDE DEF G
<1>4. G = [n \in Nat |-> Step(G, n)]
  BY <1>2, <1>3, Zenon
<1>5. Digits = CHOOSE D : D = [n \in Nat |-> Step(D, n)]
  BY Zenon DEF Digits, Step
<1> QED  BY <1>4, <1>5, Zenon

\* Sequences are one when their parts are.
LEMMA SameAppend ==
    ASSUME NEW S, NEW s \in Seq(S), NEW t \in Seq(S), NEW x \in S, NEW y \in S,
           Append(s, x) = Append(t, y)
    PROVE  s = t /\ x = y
<1>1. /\ Len(s) \in Nat /\ Len(t) \in Nat
      /\ Len(Append(s, x)) = Len(s) + 1 /\ Len(Append(t, y)) = Len(t) + 1
      /\ \A i \in 1 .. Len(s) : Append(s, x)[i] = s[i]
      /\ \A i \in 1 .. Len(t) : Append(t, y)[i] = t[i]
      /\ Append(s, x)[Len(s) + 1] = x /\ Append(t, y)[Len(t) + 1] = y
  OBVIOUS
<1>2. Len(s) = Len(t)
  BY <1>1
<1>3. x = y /\ \A i \in 1 .. Len(s) : s[i] = t[i]
  BY <1>1, <1>2
<1> QED  BY <1>2, <1>3, SameSequence

LEMMA DigitsType == \A n \in Nat : Digits[n] \in Seq(0 .. 9)
<1> DEFINE C == {n \in Nat : Digits[n] \notin Seq(0 .. 9)}
<1> SUFFICES ASSUME C # {} PROVE FALSE
  OBVIOUS
<1>1. PICK n \in C : \A l \in C : n <= l
  BY Least
<1>2. n \in Nat /\ Digits[n] \notin Seq(0 .. 9)
  OBVIOUS
<1>3. Digits[n] = Step(Digits, n)
  BY <1>2, DigitsDefined
<1>4. CASE n < 10
  BY <1>2, <1>3, <1>4 DEF Step
<1>5. CASE n >= 10
  <2>1. n \div 10 \in Nat /\ n \div 10 \notin C /\ n % 10 \in 0 .. 9
    BY <1>1, <1>2, <1>5, Tens
  <2>2. Append(Digits[n \div 10], n % 10) \in Seq(0 .. 9)
    BY <2>1
  <2> QED  BY <1>2, <1>3, <1>5, <2>2 DEF Step
<1> QED  BY <1>2, <1>4, <1>5

\* Numbers have different digits.
LEMMA DigitsDistinct ==
    ASSUME NEW m \in Nat, NEW n \in Nat, Digits[m] = Digits[n]
    PROVE  m = n
<1> DEFINE C == {k \in Nat : \E l \in Nat : k # l /\ Digits[k] = Digits[l]}
<1> SUFFICES ASSUME C # {} PROVE FALSE
  OBVIOUS
<1>1. PICK k \in C : \A l \in C : k <= l
  BY Least
<1>2. PICK l \in Nat : k # l /\ Digits[k] = Digits[l]
  OBVIOUS
<1>3. k \in Nat /\ l \in C
  BY <1>2
<1>4. k < l
  BY <1>1, <1>2, <1>3
<1>5. Digits[k] = Step(Digits, k) /\ Digits[l] = Step(Digits, l)
  BY <1>2, <1>3, DigitsDefined
<1>6. \A i \in Nat : i >= 10 =>
         /\ Digits[i \div 10] \in Seq(0 .. 9) /\ Step(Digits, i) = Append(Digits[i \div 10], i % 10)
         /\ i \div 10 \in Nat
  BY DigitsType, Tens DEF Step
<1>7. CASE l < 10
  <2>1. Digits[k] = <<k>> /\ Digits[l] = <<l>>
    <3>1. \A i \in Nat : i < 10 => Step(Digits, i) = <<i>>
      BY DEF Step
    <3>2. k < 10
      BY <1>2, <1>3, <1>4, <1>7
    <3> QED  BY <1>2, <1>3, <1>5, <1>7, <3>1, <3>2
  <2>2. <<k>>[1] = <<l>>[1]
    BY <1>2, <2>1
  <2> QED  BY <1>2, <2>2
<1>8. CASE l >= 10 /\ k < 10
  <2>1. Digits[k] = <<k>>
    BY <1>5, <1>8 DEF Step
  <2>2. Digits[l] = Append(Digits[l \div 10], l % 10) /\ Digits[l \div 10] \in Seq(0 .. 9)
    BY <1>2, <1>5, <1>6, <1>8
  <2>3. Digits[l \div 10] # <<>>
    <3>1. Digits[l \div 10] = Step(Digits, l \div 10) /\ l \div 10 \in Nat
      BY <1>2, Tens, DigitsDefined
    <3>2. CASE l \div 10 < 10
      BY <3>1, <3>2 DEF Step
    <3>3. CASE l \div 10 >= 10
      BY <1>6, <3>1, <3>3
    <3> QED  BY <3>1, <3>2, <3>3
  <2>4. Len(Digits[l]) = Len(Digits[l \div 10]) + 1 /\ Len(Digits[l \div 10]) >= 1
    BY <2>2, <2>3
  <2> QED  BY <1>2, <2>1, <2>4
<1>9. CASE k >= 10
  <2> DEFINE s == Digits[k \div 10]
             t == Digits[l \div 10]
  <2>1. /\ s \in Seq(0 .. 9) /\ Digits[k] = Append(s, k % 10) /\ k \div 10 \in Nat
        /\ t \in Seq(0 .. 9) /\ Digits[l] = Append(t, l % 10) /\ l \div 10 \in Nat
    <3>1. l >= 10
      BY <1>2, <1>3, <1>4, <1>9
    <3>2. /\ s \in Seq(0 .. 9) /\ Step(Digits, k) = Append(s, k % 10) /\ k \div 10 \in Nat
      BY <1>3, <1>6, <1>9
    <3>3. /\ t \in Seq(0 .. 9) /\ Step(Digits, l) = Append(t, l % 10) /\ l \div 10 \in Nat
      BY <1>2, <1>6, <3>1
    <3> QED  BY <1>5, <3>2, <3>3
  <2>2. Append(s, k % 10) = Append(t, l % 10)
    BY <1>2, <2>1
  <2>3. k % 10 \in 0 .. 9 /\ l % 10 \in 0 .. 9
    BY <1>2, <1>3, Tens
  <2> HIDE DEF s, t
  <2>4. s = t /\ k % 10 = l % 10
    <3>1. \A u, v \in Seq(0 .. 9), x, y \in 0 .. 9 :
             Append(u, x) = Append(v, y) => u = v /\ x = y
      BY SameAppend
    <3> DEFINE x == k % 10
               y == l % 10
    <3>2. s \in Seq(0 .. 9) /\ t \in Seq(0 .. 9) /\ x \in 0 .. 9 /\ y \in 0 .. 9
          /\ Append(s, x) = Append(t, y)
      BY <2>1, <2>2, <2>3
    <3> HIDE DEF x, y
    <3>3. s = t /\ x = y
      BY <3>1, <3>2
    <3> QED  BY <3>3 DEF x, y
  <2>5. k \div 10 # l \div 10
    BY <1>2, <1>3, <2>4, Tens
  <2>6. k \div 10 \in C
    BY <2>1, <2>4, <2>5 DEF s, t
  <2> QED  BY <1>1, <1>3, <1>9, <2>6, Tens
<1> QED  BY <1>2, <1>3, <1>4, <1>7, <1>8, <1>9

\* No two pitches of a game share an id (event_ids.py:28-29).
THEOREM EventIdsDistinct ==
    ASSUME NEW j \in Nat \X Nat, NEW k \in Nat \X Nat, EventId(j) = EventId(k)
    PROVE  j = k
<1> DEFINE a == Digits[j[1]]
           b == Digits[j[2]]
           c == Digits[k[1]]
           d == Digits[k[2]]
<1>1. a \in Seq(0 .. 9) /\ b \in Seq(0 .. 9) /\ c \in Seq(0 .. 9) /\ d \in Seq(0 .. 9)
  BY DigitsType
<1>2. EventId(j) = a \o <<10>> \o b /\ EventId(k) = c \o <<10>> \o d
  BY DEF EventId, Colon
<1> HIDE DEF a, b, c, d
<1>3. ASSUME NEW s \in Seq(0 .. 9), NEW t \in Seq(0 .. 9)
      PROVE  /\ Len(s) \in Nat /\ Len(t) \in Nat
             /\ Len(s \o <<10>> \o t) = Len(s) + 1 + Len(t)
             /\ \A i \in 1 .. Len(s) : (s \o <<10>> \o t)[i] = s[i] /\ s[i] # 10
             /\ (s \o <<10>> \o t)[Len(s) + 1] = 10
             /\ \A i \in 1 .. Len(t) : (s \o <<10>> \o t)[Len(s) + 1 + i] = t[i]
  <2>1. s \in Seq(0 .. 10) /\ t \in Seq(0 .. 10) /\ <<10>> \in Seq(0 .. 10)
    OBVIOUS
  <2>2. Len(s) \in Nat /\ Len(t) \in Nat /\ \A i \in 1 .. Len(s) : s[i] # 10
    <3>1. \A i \in 1 .. Len(s) : s[i] \in 0 .. 9
      OBVIOUS
    <3>2. \A i \in 1 .. Len(s) : s[i] # 10
      <4>1. 10 \notin 0 .. 9
        OBVIOUS
      <4> QED  BY <3>1, <4>1, Zenon
    <3>3. Len(s) \in Nat /\ Len(t) \in Nat
      OBVIOUS
    <3> QED  BY <3>2, <3>3
  <2>3. /\ s \o <<10>> \in Seq(0 .. 10) /\ Len(s \o <<10>>) = Len(s) + 1
        /\ \A i \in 1 .. Len(s) : (s \o <<10>>)[i] = s[i]
        /\ (s \o <<10>>)[Len(s) + 1] = 10
    BY <2>1
  <2> DEFINE u == s \o <<10>>
  <2> HIDE DEF u
  <2>4. /\ Len(u \o t) = Len(u) + Len(t)
        /\ \A i \in 1 .. Len(u) : (u \o t)[i] = u[i]
        /\ \A i \in 1 .. Len(t) : (u \o t)[Len(u) + i] = t[i]
    BY <2>1, <2>3 DEF u
  <2>5. /\ Len(u) = Len(s) + 1
        /\ \A i \in 1 .. Len(s) : u[i] = s[i]
        /\ u[Len(s) + 1] = 10
    BY <2>3 DEF u
  <2>6. /\ Len(u \o t) = Len(s) + 1 + Len(t)
        /\ \A i \in 1 .. Len(s) : (u \o t)[i] = s[i] /\ s[i] # 10
        /\ (u \o t)[Len(s) + 1] = 10
        /\ \A i \in 1 .. Len(t) : (u \o t)[Len(s) + 1 + i] = t[i]
    BY <2>2, <2>4, <2>5
  <2> QED  BY <2>2, <2>6 DEF u
<1> DEFINE p == a \o <<10>> \o b
           q == c \o <<10>> \o d
<1>4. /\ p = q
      /\ Len(a) \in Nat /\ Len(b) \in Nat /\ Len(c) \in Nat /\ Len(d) \in Nat
      /\ Len(p) = Len(a) + 1 + Len(b) /\ Len(q) = Len(c) + 1 + Len(d)
      /\ \A i \in 1 .. Len(a) : p[i] = a[i] /\ a[i] # 10
      /\ \A i \in 1 .. Len(c) : q[i] = c[i] /\ c[i] # 10
      /\ p[Len(a) + 1] = 10 /\ q[Len(c) + 1] = 10
      /\ \A i \in 1 .. Len(b) : p[Len(a) + 1 + i] = b[i]
      /\ \A i \in 1 .. Len(d) : q[Len(c) + 1 + i] = d[i]
  <2>1. p = q
    BY <1>2
  <2>2. /\ Len(a) \in Nat /\ Len(b) \in Nat /\ Len(p) = Len(a) + 1 + Len(b)
        /\ \A i \in 1 .. Len(a) : p[i] = a[i] /\ a[i] # 10
        /\ p[Len(a) + 1] = 10
        /\ \A i \in 1 .. Len(b) : p[Len(a) + 1 + i] = b[i]
    BY <1>1, <1>3, Zenon
  <2>3. /\ Len(c) \in Nat /\ Len(d) \in Nat /\ Len(q) = Len(c) + 1 + Len(d)
        /\ \A i \in 1 .. Len(c) : q[i] = c[i] /\ c[i] # 10
        /\ q[Len(c) + 1] = 10
        /\ \A i \in 1 .. Len(d) : q[Len(c) + 1 + i] = d[i]
    BY <1>1, <1>3, Zenon
  <2> HIDE DEF p, q
  <2> QED  BY <2>1, <2>2, <2>3, Zenon
<1> HIDE DEF p, q
<1>5. Len(a) = Len(c)
  <2>1. ~ (Len(a) < Len(c))
    <3> SUFFICES ASSUME Len(a) < Len(c) PROVE FALSE
      OBVIOUS
    <3>1. Len(a) + 1 \in 1 .. Len(c)
      BY <1>4
    <3> QED  BY <1>4, <3>1
  <2>2. ~ (Len(c) < Len(a))
    <3> SUFFICES ASSUME Len(c) < Len(a) PROVE FALSE
      OBVIOUS
    <3>1. Len(c) + 1 \in 1 .. Len(a)
      BY <1>4
    <3> QED  BY <1>4, <3>1
  <2> QED  BY <1>4, <2>1, <2>2
<1>6. Len(b) = Len(d)
  BY <1>4, <1>5
<1>7. a = c
  <2>1. \A i \in 1 .. Len(a) : a[i] = c[i]
    BY <1>4, <1>5
  <2> QED  BY <1>1, <1>5, <2>1, SameSequence
<1>8. b = d
  <2>1. \A i \in 1 .. Len(b) : b[i] = d[i]
    BY <1>4, <1>5, <1>6
  <2> QED  BY <1>1, <1>6, <2>1, SameSequence
<1>9. j[1] = k[1] /\ j[2] = k[2]
  BY <1>7, <1>8, DigitsDistinct DEF a, b, c, d
<1> QED  BY <1>9

(***************************************************************************)
(* The inductive invariant.                                                *)
(***************************************************************************)
\* What the feed lists has been thrown, and a startTime is the time of the throw.
Clocked ==
    /\ \A k \in Thrown : thrown[k] <= clock
    /\ \A k \in Listed : k \in Thrown /\ start[k] \in {Missing, thrown[k]}

\* Of two pitches the first was thrown first.
InTurn == \A j, k \in Thrown : Before(j, k) => thrown[j] < thrown[k]

\* A record is of a pitch thrown at its time in t, no later than the feed the record was
\* taken from; its event_time is the time of the throw or that of the feed, and every
\* build can store and replay its message.
Honest(t, e) ==
    /\ e.pitch \in Pitches
    /\ t[e.pitch] \in Nat /\ e.stamp \in Nat /\ t[e.pitch] <= e.stamp
    /\ e.timed => e.time = t[e.pitch]
    /\ ~ e.timed => e.time = e.stamp
    /\ \A a, b \in Builds : IsMessage(a, b, e.message)
Records == \A e \in batch \cup topic : Honest(thrown, e)

\* A row holds what its build makes of such a record.
Contents ==
    \A k \in Stored :
        /\ Honest(thrown, live[k]) /\ live[k].pitch = k
        /\ table[k] = live[k].time
        /\ payload[k] = Flatten(writer[k], live[k].message)

\* The order of the rows of a table.
TableOrder(t) ==
    {p \in (DOMAIN t) \X (DOMAIN t) :
        \/ t[p[1]] < t[p[2]]
        \/ t[p[1]] = t[p[2]] /\ TextBefore(EventId(p[1]), EventId(p[2]))}
Rows(t) == InOrder(DOMAIN t, TableOrder(t))

\* The rows the replay saw are in the table still.
Seen == \A k \in DOMAIN snap : k \in Stored /\ snap[k] = table[k]

\* What a replay has published is the beginning of the rows in their order, what its
\* cursor holds the rest.
Replayed == {emitted[i] : i \in DOMAIN emitted}
Emission ==
    /\ emitted \in Seq(Replayed)
    /\ Len(emitted) <= Cardinality(DOMAIN snap)
    /\ \A i \in 1 .. Len(emitted) : emitted[i].pitch = Rows(snap)[i]
Rest ==
    replay # "none" =>
        /\ Len(emitted) + Len(rest) = Cardinality(DOMAIN snap)
        /\ \A i \in 1 .. Len(rest) : rest[i] = Rows(snap)[Len(emitted) + i]
        /\ replay = "done" => rest = <<>>
        /\ reader \in Builds

\* And each as its build reads it.
Faithful ==
    \A i \in DOMAIN emitted :
        /\ emitted[i].pitch \in Stored /\ reader \in Builds
        /\ emitted[i].message = Rebuild(reader, payload[emitted[i].pitch])

IInv == TypeOK /\ Clocked /\ InTurn /\ Records /\ Contents /\ Seen /\ Emission /\ Rest /\ Faithful

(***************************************************************************)
(* The order of the rows.                                                  *)
(***************************************************************************)
LEMMA IdType ==
    ASSUME NEW k \in Pitches
    PROVE  k \in Nat \X Nat /\ EventId(k) \in Seq(Nat)
<1>1. k \in Nat \X Nat
  BY PitchesAssumption
<1>2. Digits[k[1]] \in Seq(Nat) /\ Digits[k[2]] \in Seq(Nat) /\ <<Colon>> \in Seq(Nat)
  <2>1. \A s \in Seq(0 .. 9) : s \in Seq(Nat)
    OBVIOUS
  <2> QED  BY <1>1, <2>1, DigitsType DEF Colon
<1> QED  BY <1>1, <1>2 DEF EventId

\* Rows are in a strict total order, whatever their times.
LEMMA RowsOrdered ==
    ASSUME NEW t, DOMAIN t \subseteq Pitches, t \in [DOMAIN t -> Nat]
    PROVE  /\ IsFiniteSet(DOMAIN t) /\ Cardinality(DOMAIN t) \in Nat
           /\ Orders(TableOrder(t), DOMAIN t)
           /\ Lists(Rows(t), DOMAIN t, TableOrder(t))
<1> DEFINE R == TableOrder(t)
           S == DOMAIN t
           Id(k) == EventId(k)
<1>1. \A k \in S : t[k] \in Nat /\ Id(k) \in Seq(Nat) /\ k \in Nat \X Nat
  BY IdType
<1>2. \A j, k \in S : <<j, k>> \in R <=> t[j] < t[k] \/ (t[j] = t[k] /\ TextBefore(Id(j), Id(k)))
  BY DEF TableOrder
<1>3. \A j, k \in S : Id(j) = Id(k) => j = k
  BY <1>1, EventIdsDistinct
<1>4. /\ \A j \in S : ~ TextBefore(Id(j), Id(j))
      /\ \A i, j, k \in S : TextBefore(Id(i), Id(j)) /\ TextBefore(Id(j), Id(k)) => TextBefore(Id(i), Id(k))
      /\ \A j, k \in S : j = k \/ TextBefore(Id(j), Id(k)) \/ TextBefore(Id(k), Id(j))
  BY <1>1, <1>3, TextIrreflexive, TextTransitive, TextTotal
<1> HIDE DEF R, S, Id
<1>5. \A x \in S : <<x, x>> \notin R
  BY <1>1, <1>2, <1>4
<1>6. \A x, y, z \in S : <<x, y>> \in R /\ <<y, z>> \in R => <<x, z>> \in R
  <2> TAKE x, y, z \in S
  <2> HAVE <<x, y>> \in R /\ <<y, z>> \in R
  <2>1. t[x] \in Nat /\ t[y] \in Nat /\ t[z] \in Nat
    BY <1>1
  <2>2. /\ t[x] < t[y] \/ (t[x] = t[y] /\ TextBefore(Id(x), Id(y)))
        /\ t[y] < t[z] \/ (t[y] = t[z] /\ TextBefore(Id(y), Id(z)))
    BY <1>2
  <2>3. t[x] < t[z] \/ (t[x] = t[z] /\ TextBefore(Id(x), Id(y)) /\ TextBefore(Id(y), Id(z)))
    BY <2>1, <2>2
  <2>4. t[x] < t[z] \/ (t[x] = t[z] /\ TextBefore(Id(x), Id(z)))
    BY <1>4, <2>3, Zenon
  <2> QED  BY <1>2, <2>4
<1>7. \A x, y \in S : x = y \/ <<x, y>> \in R \/ <<y, x>> \in R
  <2> TAKE x, y \in S
  <2>1. t[x] < t[y] \/ t[y] < t[x] \/ (t[x] = t[y] /\ t[y] = t[x])
    BY <1>1
  <2> QED  BY <1>2, <1>4, <2>1, Zenon
<1>8. Orders(R, S)
  BY <1>5, <1>6, <1>7 DEF Orders
<1>9. IsFiniteSet(S) /\ Cardinality(S) \in Nat
  BY PitchesAssumption, FS_Subset, FS_CardinalityType DEF S
<1>10. Lists(InOrder(S, R), S, R)
  BY <1>8, <1>9, InOrderLists
<1> QED  BY <1>8, <1>9, <1>10 DEF Rows, R, S

(***************************************************************************)
(* Types, and what they mean.                                              *)
(***************************************************************************)
FeedType ==
    /\ clock \in 0 .. MaxTime
    /\ thrown \in [Pitches -> Nat \cup {None}]
    /\ start \in [Pitches -> Nat \cup {Missing, None}]
    /\ \A e \in batch \cup topic : e.pitch \in Pitches
TableType ==
    /\ Stored \subseteq Pitches
    /\ table \in [Stored -> Nat]
    /\ DOMAIN payload = Stored /\ DOMAIN live = Stored
    /\ writer \in [Stored -> Builds]
ReplayType ==
    /\ replay \in {"none", "running", "done"}
    /\ rest \in Seq(Pitches)
    /\ reader \in Builds \cup {None}
    /\ \A i \in DOMAIN emitted : emitted[i].pitch \in Pitches
    /\ DOMAIN snap \subseteq Pitches
    /\ snap \in [DOMAIN snap -> Nat]

FeedInv == FeedType /\ TableType /\ Clocked /\ InTurn /\ Records /\ Contents
ReplayInv == ReplayType /\ Seen /\ Emission /\ Rest /\ Faithful

LEMMA TwoParts == IInv <=> FeedInv /\ ReplayInv
BY DEF IInv, FeedInv, ReplayInv, TypeOK, FeedType, TableType, ReplayType

\* What the variables stand for.
LEMMA Meaning ==
    ASSUME FeedInv
    PROVE  /\ clock \in Nat
           /\ \A k \in Thrown : k \in Pitches /\ thrown[k] \in Nat /\ thrown[k] <= clock
           /\ \A k \in Pitches : thrown[k] \in Nat => k \in Thrown
           /\ \A k \in Listed : /\ k \in Thrown
                                /\ start[k] # Missing => start[k] = thrown[k]
                                /\ EventTime(k) \in Nat
           /\ \A k \in Stored : k \in Pitches /\ table[k] \in Nat /\ writer[k] \in Builds
<1>1. clock \in Nat
  BY BoundsAssumption DEF FeedInv, FeedType
<1>2. ASSUME NEW k \in Thrown
      PROVE  k \in Pitches /\ thrown[k] \in Nat /\ thrown[k] <= clock
  BY DEF Thrown, FeedInv, FeedType, Clocked
<1>3. \A k \in Pitches : thrown[k] \in Nat => k \in Thrown
  BY MarksAssumption DEF Thrown
<1>4. ASSUME NEW k \in Listed
      PROVE  /\ k \in Thrown
             /\ start[k] # Missing => start[k] = thrown[k]
             /\ EventTime(k) \in Nat
  <2>1. k \in Thrown /\ (start[k] # Missing => start[k] = thrown[k])
    BY DEF FeedInv, Clocked
  <2> QED  BY <1>1, <1>2, <2>1 DEF EventTime
<1>5. \A k \in Stored : k \in Pitches /\ table[k] \in Nat /\ writer[k] \in Builds
  BY DEF FeedInv, TableType
<1> QED  BY <1>1, <1>2, <1>3, <1>4, <1>5

(***************************************************************************)
(* Records.                                                                *)
(***************************************************************************)
\* Every build can read what the parser makes of a pitch.
LEMMA MessageReadable ==
    ASSUME NEW a \in Builds, NEW b \in Builds, NEW c \in Builds, NEW k \in Pitches,
           EventTime(k) \in Nat, clock \in Nat
    PROVE  IsMessage(b, c, Message(a, k))
<1>1. ASSUME NEW n, NEW kind \in {"scalar", "timestamp", "enum", "text"}
      PROVE  IsValue(b, c, kind, Value(n, kind, k))
  <2>1. CASE kind = "scalar"
    <3>1. Value(n, kind, k) = k /\ ToJson(b, kind, k) = k /\ k # Null
      BY <2>1, NullAssumption DEF Value, ToJson
    <3> QED  BY <2>1, <3>1 DEF IsValue
  <2>2. CASE kind = "timestamp"
    <3>1. \A x \in Nat : <<"iso", x>> # Null
      BY NullAssumption
    <3>2. \A x : ToJson(b, kind, x) = <<"iso", x>>
      BY <2>2 DEF ToJson
    <3>3. Value(n, kind, k) \in Nat
      <4>1. Value(n, kind, k) = IF n = "event_time" THEN EventTime(k) ELSE clock
        BY <2>2 DEF Value
      <4> QED  BY <4>1
    <3> QED  BY <2>2, <3>1, <3>2, <3>3 DEF IsValue
  <2>3. CASE kind = "enum"
    <3>1. Value(n, kind, k) = Sport /\ ToJson(b, kind, Sport) = b.names[Sport]
      BY <2>3 DEF Value, ToJson
    <3>2. Sport \in DOMAIN b.names /\ Sport \in DOMAIN c.names /\ b.names[Sport] # Null
      BY BuildsAssumption
    <3> QED  BY <2>3, <3>1, <3>2 DEF IsValue
  <2>4. CASE kind = "text"
    <3>1. Value(n, kind, k) = Text(k) /\ Text(k)[2] = k
      BY <2>4 DEF Value, Text
    <3> QED  BY <2>4, <3>1 DEF IsValue
  <2> QED  BY <2>1, <2>2, <2>3, <2>4
<1> DEFINE m == Message(a, k)
<1>2. /\ DOMAIN m.spine = DOMAIN a.spine
      /\ \A n \in DOMAIN a.spine : m.spine[n] = Value(n, a.spine[n], k)
      /\ DOMAIN m.body = DOMAIN a.body
      /\ \A n \in DOMAIN a.body : m.body[n] = Value(n, a.body[n], k)
  BY DEF Message
<1> HIDE DEF m
<1>3. Compatible(a, b) /\ IsBuild(a)
  BY BuildsAssumption DEF Compatible
<1>4. ASSUME NEW n \in Known(b.spine, m.spine)
      PROVE  IsValue(b, c, b.spine[n], m.spine[n])
  <2>1. n \in DOMAIN a.spine /\ n \in DOMAIN b.spine
    BY <1>2 DEF Known
  <2>2. b.spine[n] = a.spine[n] /\ m.spine[n] = Value(n, a.spine[n], k)
        /\ a.spine[n] \in {"scalar", "timestamp", "enum"}
    BY <1>2, <1>3, <2>1 DEF Compatible, IsBuild
  <2> QED  BY <1>1, <2>2
<1>5. ASSUME NEW n \in Known(b.body, m.body)
      PROVE  IsValue(b, c, b.body[n], m.body[n])
  <2>1. n \in DOMAIN a.body /\ n \in DOMAIN b.body
    BY <1>2 DEF Known
  <2>2. b.body[n] = a.body[n] /\ m.body[n] = Value(n, a.body[n], k)
        /\ a.body[n] \in {"scalar", "enum", "text"}
    BY <1>2, <1>3, <2>1 DEF Compatible, IsBuild
  <2> QED  BY <1>1, <2>2
<1> QED  BY <1>4, <1>5 DEF IsMessage, m

\* A poll's records are honest.
LEMMA RecordHonest ==
    ASSUME FeedInv, NEW b \in Builds, NEW k \in Listed
    PROVE  Honest(thrown, Record(b, k))
<1>1. /\ k \in Thrown /\ k \in Pitches /\ clock \in Nat
      /\ thrown[k] \in Nat /\ thrown[k] <= clock
      /\ EventTime(k) \in Nat /\ (start[k] # Missing => start[k] = thrown[k])
  BY Meaning
<1>2. /\ Record(b, k).pitch = k /\ Record(b, k).time = EventTime(k)
      /\ Record(b, k).message = Message(b, k)
      /\ Record(b, k).timed = (start[k] # Missing) /\ Record(b, k).stamp = clock
  BY DEF Record
<1>3. \A c, d \in Builds : IsMessage(c, d, Message(b, k))
  BY <1>1, MessageReadable
<1>4. EventTime(k) = IF start[k] = Missing THEN clock ELSE thrown[k]
  BY <1>1 DEF EventTime
<1> QED  BY <1>1, <1>2, <1>3, <1>4 DEF Honest

\* And stay so while other pitches are thrown.
LEMMA HonestStays ==
    ASSUME NEW t, NEW u, NEW e, Honest(t, e), \A k \in Pitches : t[k] \in Nat => u[k] = t[k]
    PROVE  Honest(u, e)
BY DEF Honest

(***************************************************************************)
(* The feed and the table keep the invariant.                              *)
(***************************************************************************)
\* Time goes by.
LEMMA TickKeeps ==
    ASSUME FeedInv, Tick
    PROVE  FeedInv'
<1>1. /\ clock \in Nat /\ clock' = clock + 1 /\ clock < MaxTime
      /\ UNCHANGED <<thrown, start, batch, topic, table, payload, live, writer>>
  BY Meaning DEF Tick, pollVars, tableVars
<1>2. FeedType' /\ TableType'
  BY <1>1, BoundsAssumption DEF FeedInv, FeedType, TableType, Stored
<1>3. Thrown' = Thrown /\ Listed' = Listed /\ Stored' = Stored
  BY <1>1 DEF Thrown, Listed, Stored
<1>4. Clocked' /\ InTurn'
  BY <1>1, <1>3, Meaning DEF FeedInv, Clocked, InTurn
<1>5. Records' /\ Contents'
  BY <1>1, <1>3 DEF FeedInv, Records, Contents
<1> QED  BY <1>2, <1>4, <1>5 DEF FeedInv

\* The next pitch is thrown.
LEMMA ThrowKeeps ==
    ASSUME FeedInv, NEW n \in Pitches, Throw(n)
    PROVE  FeedInv'
<1>1. /\ clock \in Nat /\ clock' = clock + 1 /\ clock < MaxTime
      /\ n \notin Thrown /\ \A j \in Thrown : Before(j, n)
      /\ thrown' = [thrown EXCEPT ![n] = clock']
      /\ UNCHANGED <<start, batch, topic, table, payload, live, writer>>
  BY Meaning DEF Throw, pollVars, tableVars
<1>2. /\ thrown' \in [Pitches -> Nat \cup {None}]
      /\ thrown'[n] = clock' /\ clock' \in Nat
      /\ \A k \in Pitches : k # n => thrown'[k] = thrown[k]
  BY <1>1 DEF FeedInv, FeedType
<1>3. FeedType' /\ TableType'
  BY <1>1, <1>2, BoundsAssumption DEF FeedInv, FeedType, TableType, Stored
<1>4. /\ Thrown' = Thrown \cup {n} /\ Listed' = Listed /\ Stored' = Stored
      /\ \A k \in Thrown : k # n /\ thrown'[k] = thrown[k]
  BY <1>1, <1>2, MarksAssumption DEF Thrown, Listed, Stored
<1>5. Clocked'
  <2>1. \A k \in Thrown' : thrown'[k] <= clock'
    BY <1>1, <1>2, <1>4, Meaning
  <2>2. \A k \in Listed : k \in Thrown' /\ start[k] \in {Missing, thrown'[k]}
    BY <1>4 DEF FeedInv, Clocked
  <2> QED  BY <1>1, <1>4, <2>1, <2>2 DEF Clocked
<1>6. InTurn'
  <2> SUFFICES ASSUME NEW j \in Thrown', NEW k \in Thrown', Before(j, k)
               PROVE  thrown'[j] < thrown'[k]
    BY DEF InTurn
  <2>1. CASE j \in Thrown /\ k \in Thrown
    BY <1>4, <2>1 DEF FeedInv, InTurn
  <2>2. CASE j \in Thrown /\ k = n
    BY <1>1, <1>2, <1>4, <2>2, Meaning
  <2>3. CASE j = n
    <3>1. k = n \/ Before(k, n)
      BY <1>1, <1>4
    <3>2. k[1] \in Nat /\ k[2] \in Nat /\ n[1] \in Nat /\ n[2] \in Nat
      BY PitchesAssumption DEF Thrown
    <3> QED  BY <2>3, <3>1, <3>2 DEF Before
  <2> QED  BY <1>4, <2>1, <2>2, <2>3
<1>7. \A e : Honest(thrown, e) => Honest(thrown', e)
  <2>1. \A k \in Pitches : thrown[k] \in Nat => thrown'[k] = thrown[k]
    BY <1>4, Meaning
  <2> QED  BY <2>1, HonestStays
<1>8. Records' /\ Contents'
  BY <1>1, <1>4, <1>7 DEF FeedInv, Records, Contents
<1> QED  BY <1>3, <1>5, <1>6, <1>8 DEF FeedInv

\* A pitch is listed.
LEMMA ListKeeps ==
    ASSUME FeedInv, NEW n \in Pitches, List(n)
    PROVE  FeedInv'
<1>1. /\ n \in Thrown /\ start' \in {[start EXCEPT ![n] = Missing], [start EXCEPT ![n] = thrown[n]]}
      /\ UNCHANGED <<clock, thrown, batch, topic, table, payload, live, writer>>
  BY DEF List, pollVars, tableVars
<1>2. /\ start' \in [Pitches -> Nat \cup {Missing, None}]
      /\ start'[n] \in {Missing, thrown[n]}
      /\ \A k \in Pitches : k # n => start'[k] = start[k]
  <2>1. thrown[n] \in Nat
    BY <1>1, Meaning
  <2> QED  BY <1>1, <2>1 DEF FeedInv, FeedType
<1>3. FeedType' /\ TableType'
  BY <1>1, <1>2 DEF FeedInv, FeedType, TableType, Stored
<1>4. Thrown' = Thrown /\ Listed' \subseteq Listed \cup {n} /\ Stored' = Stored
  BY <1>1, <1>2 DEF Thrown, Listed, Stored
<1>5. Clocked'
  <2>1. \A k \in Listed' : k \in Thrown /\ start'[k] \in {Missing, thrown[k]}
    <3> TAKE k \in Listed'
    <3>1. CASE k = n
      BY <1>1, <1>2, <3>1
    <3>2. CASE k # n
      <4>1. k \in Listed /\ k \in Pitches
        BY <1>4, <3>2 DEF Listed
      <4> QED  BY <1>2, <3>2, <4>1 DEF FeedInv, Clocked
    <3> QED  BY <3>1, <3>2
  <2> QED  BY <1>1, <1>4, <2>1 DEF FeedInv, Clocked
<1>6. InTurn' /\ Records' /\ Contents'
  BY <1>1, <1>4 DEF FeedInv, InTurn, Records, Contents
<1> QED  BY <1>3, <1>5, <1>6 DEF FeedInv

\* A poll makes, publishes or drops records.
LEMMA PollKeeps ==
    ASSUME FeedInv, UNCHANGED <<feedVars, tableVars>>,
           \A e \in (batch \cup topic)' : Honest(thrown, e)
    PROVE  FeedInv'
<1>1. UNCHANGED <<clock, thrown, start, table, payload, live, writer>>
  BY DEF feedVars, tableVars
<1>2. Thrown' = Thrown /\ Listed' = Listed /\ Stored' = Stored
  BY <1>1 DEF Thrown, Listed, Stored
<1>3. FeedType' /\ TableType'
  BY <1>1, <1>2 DEF FeedInv, FeedType, TableType, Honest
<1>4. Clocked' /\ InTurn' /\ Records' /\ Contents'
  BY <1>1, <1>2 DEF FeedInv, Clocked, InTurn, Records, Contents
<1> QED  BY <1>3, <1>4 DEF FeedInv

LEMMA FetchHonest ==
    ASSUME FeedInv, NEW b \in Builds, Fetch(b)
    PROVE  \A e \in (batch \cup topic)' : Honest(thrown, e)
<1> SUFFICES ASSUME NEW e \in (batch \cup topic)' PROVE Honest(thrown, e)
  OBVIOUS
<1>1. CASE e \in topic
  BY <1>1 DEF FeedInv, Records
<1>2. CASE e \in batch'
  <2>1. \E k \in Listed : e = Record(b, k)
    BY <1>2 DEF Fetch
  <2> QED  BY <2>1, RecordHonest
<1> QED  BY <1>1, <1>2 DEF Fetch

\* What storing a record does: to the rows there are, nothing.
LEMMA StoreMeaning ==
    ASSUME FeedInv, NEW e \in topic, NEW b \in Builds, Store(e, b)
    PROVE  /\ e.pitch \in Pitches
           /\ Stored' = Stored \cup {e.pitch}
           /\ \A k \in Stored : /\ table'[k] = table[k] /\ payload'[k] = payload[k]
                                /\ live'[k] = live[k] /\ writer'[k] = writer[k]
           /\ e.pitch \notin Stored =>
                 /\ table'[e.pitch] = e.time /\ live'[e.pitch] = e /\ writer'[e.pitch] = b
                 /\ payload'[e.pitch] = Flatten(b, e.message)
           /\ DOMAIN payload' = Stored' /\ DOMAIN live' = Stored' /\ DOMAIN writer' = Stored'
           /\ table' = [k \in DOMAIN table' |-> table'[k]]
           /\ writer' = [k \in DOMAIN writer' |-> writer'[k]]
<1>1. e.pitch \in Pitches /\ TableType
  BY DEF FeedInv, FeedType
<1>2. CASE e.pitch \in Stored
  <2>1. UNCHANGED <<table, payload, live, writer>>
    BY <1>2 DEF Store, Insert, tableVars
  <2> QED  BY <1>1, <1>2, <2>1 DEF TableType, Stored
<1>3. CASE e.pitch \notin Stored
  <2>1. /\ table' = [k \in DOMAIN table' |-> table'[k]] /\ DOMAIN table' = Stored \cup {e.pitch}
        /\ \A k \in Stored : table'[k] = table[k]
        /\ table'[e.pitch] = e.time
    <3>1. table' = With(table, e.pitch, e.time) /\ DOMAIN table = Stored
      BY <1>1, <1>3 DEF Store, Insert, Write, TableType, Stored
    <3>2. table' = [k \in Stored \cup {e.pitch} |-> IF k = e.pitch THEN e.time ELSE table[k]]
      BY <3>1, Zenon DEF With
    <3> QED  BY <1>3, <3>2
  <2>2. /\ payload' = [k \in DOMAIN payload' |-> payload'[k]] /\ DOMAIN payload' = Stored \cup {e.pitch}
        /\ \A k \in Stored : payload'[k] = payload[k]
        /\ payload'[e.pitch] = Flatten(b, e.message)
    <3>1. payload' = With(payload, e.pitch, Flatten(b, e.message)) /\ DOMAIN payload = Stored
      BY <1>1, <1>3 DEF Store, Insert, Write, TableType, Stored
    <3>2. payload' = [k \in Stored \cup {e.pitch} |-> IF k = e.pitch THEN Flatten(b, e.message) ELSE payload[k]]
      BY <3>1, Zenon DEF With
    <3> QED  BY <1>3, <3>2
  <2>3. /\ live' = [k \in DOMAIN live' |-> live'[k]] /\ DOMAIN live' = Stored \cup {e.pitch}
        /\ \A k \in Stored : live'[k] = live[k]
        /\ live'[e.pitch] = e
    <3>1. live' = With(live, e.pitch, e) /\ DOMAIN live = Stored
      BY <1>1, <1>3 DEF Store, Insert, Write, TableType, Stored
    <3>2. live' = [k \in Stored \cup {e.pitch} |-> IF k = e.pitch THEN e ELSE live[k]]
      BY <3>1, Zenon DEF With
    <3> QED  BY <1>3, <3>2
  <2>4. /\ writer' = [k \in DOMAIN writer' |-> writer'[k]] /\ DOMAIN writer' = Stored \cup {e.pitch}
        /\ \A k \in Stored : writer'[k] = writer[k]
        /\ writer'[e.pitch] = b
    <3>1. writer' = With(writer, e.pitch, b) /\ DOMAIN writer = Stored
      BY <1>1, <1>3 DEF Store, Insert, Write, TableType, Stored
    <3>2. writer' = [k \in Stored \cup {e.pitch} |-> IF k = e.pitch THEN b ELSE writer[k]]
      BY <3>1, Zenon DEF With
    <3> QED  BY <1>3, <3>2
  <2>5. Stored' = Stored \cup {e.pitch}
    BY <2>1 DEF Stored
  <2> QED  BY <1>1, <2>1, <2>2, <2>3, <2>4, <2>5
<1> QED  BY <1>2, <1>3

\* A record is stored.
LEMMA StoreKeeps ==
    ASSUME FeedInv, NEW e \in topic, NEW b \in Builds, Store(e, b)
    PROVE  FeedInv'
<1>1. UNCHANGED <<clock, thrown, start, batch, topic>>
  BY DEF Store, feedVars, pollVars
<1>2. Thrown' = Thrown /\ Listed' = Listed
  BY <1>1 DEF Thrown, Listed
<1>3. FeedType' /\ Clocked' /\ InTurn' /\ Records'
  BY <1>1, <1>2 DEF FeedInv, FeedType, Clocked, InTurn, Records
<1>4. Honest(thrown, e) /\ e.time \in Nat
  <2>1. Honest(thrown, e)
    BY DEF FeedInv, Records
  <2> QED  BY <2>1 DEF Honest
<1>5. ASSUME NEW k \in Stored'
      PROVE  /\ k \in Pitches /\ table'[k] \in Nat /\ writer'[k] \in Builds
             /\ Honest(thrown, live'[k]) /\ live'[k].pitch = k
             /\ table'[k] = live'[k].time
             /\ payload'[k] = Flatten(writer'[k], live'[k].message)
  <2>1. CASE k \in Stored
    BY <2>1, StoreMeaning, Meaning DEF FeedInv, Contents
  <2>2. CASE k \notin Stored
    <3>1. k = e.pitch /\ e.pitch \in Pitches
      BY <2>2, StoreMeaning
    <3>2. /\ table'[k] = e.time /\ live'[k] = e /\ writer'[k] = b
          /\ payload'[k] = Flatten(b, e.message)
      BY <2>2, <3>1, StoreMeaning
    <3> QED  BY <1>4, <3>1, <3>2
  <2> QED  BY <2>1, <2>2
<1>6. TableType'
  <2>1. /\ DOMAIN payload' = Stored' /\ DOMAIN live' = Stored' /\ DOMAIN writer' = Stored'
        /\ table' = [k \in DOMAIN table' |-> table'[k]]
        /\ writer' = [k \in DOMAIN writer' |-> writer'[k]]
    BY StoreMeaning
  <2>2. DOMAIN table' = Stored'
    BY DEF Stored
  <2> QED  BY <1>5, <2>1, <2>2 DEF TableType
<1>7. Contents'
  BY <1>1, <1>5 DEF Contents
<1> QED  BY <1>3, <1>6, <1>7 DEF FeedInv

\* The readers change nothing they read.
LEMMA ReadersKeep ==
    ASSUME FeedInv, UNCHANGED <<feedVars, pollVars, tableVars>>
    PROVE  FeedInv'
<1>1. \A e \in (batch \cup topic)' : Honest(thrown, e)
  BY DEF FeedInv, Records, pollVars
<1> QED  BY <1>1, PollKeeps

(***************************************************************************)
(* The replay keeps it.                                                    *)
(***************************************************************************)
\* The replay goes on as before while rows are only added.
LEMMA RowsAddedKeep ==
    ASSUME ReplayInv, UNCHANGED replayVars,
           \A k \in Stored : k \in Stored' /\ table'[k] = table[k] /\ payload'[k] = payload[k]
    PROVE  ReplayInv'
<1>1. ReplayType' /\ Emission' /\ Rest'
  BY DEF ReplayInv, ReplayType, Emission, Rest, Replayed, replayVars
<1>2. Seen'
  BY DEF ReplayInv, Seen, replayVars
<1>3. Faithful'
  BY DEF ReplayInv, Faithful, replayVars
<1> QED  BY <1>1, <1>2, <1>3 DEF ReplayInv

\* A replay begins.
LEMMA BeginKeeps ==
    ASSUME FeedInv, NEW b \in Builds, Begin(b)
    PROVE  ReplayInv'
<1>1. /\ replay' = "running" /\ rest' = Rows(table) /\ reader' = b /\ emitted' = <<>> /\ snap' = table
      /\ UNCHANGED tableVars
  <2>1. RowOrder = TableOrder(table)
    BY DEF RowOrder, TableOrder, RowBefore, Stored
  <2> QED  BY <2>1, Zenon DEF Begin, Rows, Stored
<1>2. Stored \subseteq Pitches /\ table \in [Stored -> Nat] /\ Stored = DOMAIN table
  BY DEF FeedInv, TableType, Stored
<1> DEFINE n == Cardinality(DOMAIN table)
           r == Rows(table)
<1>3. n \in Nat /\ r \in [1 .. n -> Stored]
  BY <1>2, RowsOrdered DEF Lists
<1> HIDE DEF r, n
<1>4. r \in Seq(Pitches) /\ Len(r) = n
  <2>1. r \in [1 .. n -> Pitches]
    BY <1>2, <1>3
  <2> QED  BY <1>3, <2>1
<1>5. emitted' \in Seq({}) /\ DOMAIN emitted' = {} /\ Len(emitted') = 0
  BY <1>1
<1>6. ReplayType'
  BY <1>1, <1>2, <1>4, <1>5 DEF ReplayType, r
<1>7. Seen'
  BY <1>1, <1>2 DEF Seen, tableVars, Stored
<1>8. Emission'
  <2>1. Replayed' = {}
    BY <1>5 DEF Replayed
  <2> QED  BY <1>1, <1>3, <1>5, <2>1 DEF Emission, n
<1>9. Rest'
  <2>1. Len(emitted') + Len(rest') = Cardinality(DOMAIN snap')
    BY <1>1, <1>3, <1>4, <1>5 DEF n, r
  <2>2. \A i \in 1 .. Len(rest') : rest'[i] = Rows(snap')[Len(emitted') + i]
    <3> TAKE i \in 1 .. Len(rest')
    <3>1. Len(emitted') + i = i
      BY <1>1, <1>3, <1>4, <1>5 DEF r
    <3> QED  BY <1>1, <3>1, Zenon
  <2> QED  BY <1>1, <2>1, <2>2 DEF Rest
<1>10. Faithful'
  BY <1>5 DEF Faithful
<1> QED  BY <1>6, <1>7, <1>8, <1>9, <1>10 DEF ReplayInv

\* A row is published.
LEMMA PublishRowKeeps ==
    ASSUME FeedInv, ReplayInv, PublishRow
    PROVE  ReplayInv'
<1> DEFINE k == Head(rest)
           e == [pitch |-> k, message |-> Rebuild(reader, payload[k])]
           n == Cardinality(DOMAIN snap)
           r == Rows(snap)
           S == Replayed \cup {e}
<1>1. /\ replay = "running" /\ rest # <<>> /\ emitted' = Append(emitted, e) /\ rest' = Tail(rest)
      /\ UNCHANGED <<replay, reader, snap, tableVars>>
  BY DEF PublishRow
<1>2. rest \in Seq(Pitches) /\ DOMAIN snap \subseteq Pitches /\ snap \in [DOMAIN snap -> Nat]
  BY DEF ReplayInv, ReplayType
<1>3. n \in Nat /\ r \in [1 .. n -> DOMAIN snap]
  BY <1>2, RowsOrdered DEF Lists
<1>4. /\ Len(rest) \in Nat /\ Len(rest) >= 1 /\ k = rest[1] /\ k \in Pitches
      /\ Tail(rest) \in Seq(Pitches) /\ Len(Tail(rest)) = Len(rest) - 1
      /\ \A i \in 1 .. Len(Tail(rest)) : Tail(rest)[i] = rest[i + 1]
  <2>1. k \in Pitches /\ Tail(rest) \in Seq(Pitches) /\ Len(Tail(rest)) = Len(rest) - 1
        /\ \A i \in 1 .. Len(Tail(rest)) : Tail(rest)[i] = rest[i + 1]
    BY <1>1, <1>2, HeadTailProperties
  <2>2. Len(rest) \in Nat /\ Len(rest) >= 1 /\ k = rest[1]
    BY <1>1, <1>2
  <2> QED  BY <2>1, <2>2
<1>5. /\ emitted \in Seq(Replayed) /\ Len(emitted) <= n
      /\ \A i \in 1 .. Len(emitted) : emitted[i].pitch = r[i]
      /\ Len(emitted) + Len(rest) = n
      /\ \A i \in 1 .. Len(rest) : rest[i] = r[Len(emitted) + i]
      /\ reader \in Builds
  BY <1>1 DEF ReplayInv, Emission, Rest
<1>6. e.pitch = k /\ e.message = Rebuild(reader, payload[k])
  OBVIOUS
<1> HIDE DEF k, e, n, r
<1>7. /\ Len(emitted) \in Nat /\ DOMAIN emitted = 1 .. Len(emitted)
      /\ emitted' \in Seq(S) /\ Len(emitted') = Len(emitted) + 1
      /\ DOMAIN emitted' = 1 .. Len(emitted) + 1
      /\ \A i \in 1 .. Len(emitted) : emitted'[i] = emitted[i]
      /\ emitted'[Len(emitted) + 1] = e
  <2>1. emitted \in Seq(S) /\ e \in S
    BY <1>5
  <2>2. /\ Append(emitted, e) \in Seq(S) /\ Len(Append(emitted, e)) = Len(emitted) + 1
        /\ \A i \in 1 .. Len(emitted) : Append(emitted, e)[i] = emitted[i]
        /\ Append(emitted, e)[Len(emitted) + 1] = e
    BY <2>1, AppendProperties
  <2>3. Len(emitted) \in Nat /\ DOMAIN emitted = 1 .. Len(emitted)
    BY <1>5, LenProperties
  <2>4. DOMAIN Append(emitted, e) = 1 .. Len(emitted) + 1
    BY <2>2, <2>3, LenProperties
  <2> QED  BY <1>1, <2>2, <2>3, <2>4
<1>8. Replayed' = S
  BY <1>7 DEF Replayed
<1> HIDE DEF S
<1>9. k = r[Len(emitted) + 1] /\ Len(emitted) + 1 \in 1 .. n /\ k \in DOMAIN snap
  BY <1>3, <1>4, <1>5, <1>7
<1>10. ReplayType'
  <2>1. \A i \in DOMAIN emitted' : emitted'[i].pitch \in Pitches
    BY <1>4, <1>6, <1>7 DEF ReplayInv, ReplayType
  <2> QED  BY <1>1, <1>4, <2>1 DEF ReplayInv, ReplayType
<1>11. Seen'
  BY <1>1 DEF ReplayInv, Seen, tableVars, Stored
<1>12. Emission'
  <2>1. \A i \in 1 .. Len(emitted') : emitted'[i].pitch = r[i]
    BY <1>5, <1>6, <1>7, <1>9
  <2>2. emitted' \in Seq(Replayed') /\ Len(emitted') <= n
    BY <1>3, <1>7, <1>8, <1>9
  <2> QED  BY <1>1, <2>1, <2>2 DEF Emission, n, r
<1>13. Rest'
  <2>1. Len(emitted') + Len(rest') = n
    <3>1. Len(rest') = Len(rest) - 1 /\ Len(emitted') = Len(emitted) + 1
      BY <1>1, <1>4, <1>7
    <3> QED  BY <1>4, <1>5, <1>7, <3>1
  <2>2. \A i \in 1 .. Len(rest') : rest'[i] = r[Len(emitted') + i]
    <3> TAKE i \in 1 .. Len(rest')
    <3>1. rest'[i] = rest[i + 1] /\ i + 1 \in 1 .. Len(rest)
      BY <1>1, <1>4
    <3>2. rest'[i] = r[Len(emitted) + (i + 1)]
      BY <1>5, <3>1, Zenon
    <3>3. Len(emitted) + (i + 1) = Len(emitted') + i
      BY <1>1, <1>4, <1>7
    <3> QED  BY <3>2, <3>3, Zenon
  <2> QED  BY <1>1, <1>5, <2>1, <2>2 DEF Rest, n, r
<1>14. Faithful'
  <2> SUFFICES ASSUME NEW i \in DOMAIN emitted'
               PROVE  /\ emitted'[i].pitch \in Stored /\ reader \in Builds
                      /\ emitted'[i].message = Rebuild(reader, payload[emitted'[i].pitch])
    BY <1>1 DEF Faithful, tableVars, Stored
  <2>1. CASE i \in DOMAIN emitted
    BY <1>7, <2>1 DEF ReplayInv, Faithful
  <2>2. CASE i = Len(emitted) + 1
    <3>1. k \in Stored
      BY <1>9 DEF ReplayInv, Seen
    <3> QED  BY <1>5, <1>6, <1>7, <2>2, <3>1
  <2> QED  BY <1>7, <2>1, <2>2
<1> QED  BY <1>10, <1>11, <1>12, <1>13, <1>14 DEF ReplayInv

\* A replay ends, or is cut short.
LEMMA CompleteKeeps ==
    ASSUME ReplayInv, Complete
    PROVE  ReplayInv'
<1>1. /\ UNCHANGED <<rest, reader, emitted, snap, tableVars>>
      /\ replay = "running" /\ rest = <<>> /\ replay' = "done"
  BY DEF Complete
<1>2. ReplayType'
  BY <1>1 DEF ReplayInv, ReplayType
<1>3. Seen' /\ Faithful'
  BY <1>1 DEF ReplayInv, Seen, Faithful, tableVars, Stored
<1>4. Emission'
  BY <1>1 DEF ReplayInv, Emission, Replayed
<1>5. Rest'
  BY <1>1 DEF ReplayInv, Rest
<1> QED  BY <1>2, <1>3, <1>4, <1>5 DEF ReplayInv

LEMMA AbortKeeps ==
    ASSUME Abort
    PROVE  ReplayInv'
<1>1. /\ replay' = "none" /\ rest' = <<>> /\ emitted' = <<>> /\ snap' = <<>>
      /\ reader' = None
  BY DEF Abort
<1>2. DOMAIN snap' = {} /\ DOMAIN emitted' = {} /\ Len(emitted') = 0
  BY <1>1
<1>3. Cardinality(DOMAIN snap') = 0
  BY <1>2, FS_EmptySet
<1>4. ReplayType'
  BY <1>1, <1>2 DEF ReplayType
<1>5. Seen' /\ Faithful' /\ Rest'
  BY <1>1, <1>2 DEF Seen, Faithful, Rest
<1>6. Emission'
  BY <1>1, <1>2, <1>3 DEF Emission
<1> QED  BY <1>4, <1>5, <1>6 DEF ReplayInv

LEMMA Initially == Init => IInv
<1> SUFFICES ASSUME Init PROVE FeedInv /\ ReplayInv
  BY TwoParts
<1>1. /\ clock = 0 /\ thrown = [k \in Pitches |-> None] /\ start = thrown
      /\ batch = {} /\ topic = {} /\ Stored = {}
      /\ DOMAIN payload = {} /\ DOMAIN live = {}
      /\ table \in [{} -> Nat] /\ writer \in [{} -> Builds]
      /\ replay = "none" /\ rest = <<>> /\ reader = None /\ snap = table
      /\ DOMAIN emitted = {} /\ emitted \in Seq({}) /\ Len(emitted) = 0
  BY DEF Init, Stored
<1>2. Thrown = {} /\ Listed = {}
  BY <1>1 DEF Thrown, Listed
<1>3. FeedInv
  BY <1>1, <1>2, BoundsAssumption DEF FeedInv, FeedType, TableType, Clocked, InTurn, Records, Contents
<1>4. ReplayInv
  <2>1. ReplayType /\ Seen /\ Rest /\ Faithful
    BY <1>1 DEF ReplayType, Seen, Rest, Faithful, Stored
  <2>2. Emission
    <3>1. Replayed = {}
      BY <1>1 DEF Replayed
    <3>2. Cardinality(DOMAIN snap) = 0
      BY <1>1, FS_EmptySet DEF Stored
    <3> QED  BY <1>1, <3>1, <3>2 DEF Emission
  <2> QED  BY <2>1, <2>2 DEF ReplayInv
<1> QED  BY <1>3, <1>4

\* No step takes a row away or changes what is in it.
LEMMA RowsStay ==
    ASSUME FeedInv, [Next]_vars
    PROVE  \A k \in Stored : k \in Stored' /\ table'[k] = table[k] /\ payload'[k] = payload[k]
<1>1. CASE UNCHANGED tableVars
  BY <1>1 DEF tableVars, Stored
<1>2. ASSUME NEW e \in topic, NEW b \in Builds, Store(e, b)
      PROVE  \A k \in Stored : k \in Stored' /\ table'[k] = table[k] /\ payload'[k] = payload[k]
  BY <1>2, StoreMeaning
<1> QED
  BY <1>1, <1>2 DEF Next, vars, Tick, Throw, List, Fetch, Publish, GiveUp, Begin, PublishRow, Complete, Abort

LEMMA Inductive == IInv /\ [Next]_vars => IInv'
<1> SUFFICES ASSUME FeedInv, ReplayInv, [Next]_vars PROVE FeedInv' /\ ReplayInv'
  BY TwoParts DEF IInv, FeedInv, ReplayInv, TypeOK, FeedType, TableType, ReplayType
<1>0. UNCHANGED replayVars => ReplayInv'
  BY RowsStay, RowsAddedKeep
<1>1. CASE Tick
  BY <1>0, <1>1, TickKeeps DEF Tick
<1>2. ASSUME NEW k \in Pitches, Throw(k) PROVE FeedInv' /\ ReplayInv'
  BY <1>0, <1>2, ThrowKeeps DEF Throw
<1>3. ASSUME NEW k \in Pitches, List(k) PROVE FeedInv' /\ ReplayInv'
  BY <1>0, <1>3, ListKeeps DEF List
<1>4. ASSUME NEW b \in Builds, Fetch(b) PROVE FeedInv' /\ ReplayInv'
  BY <1>0, <1>4, FetchHonest, PollKeeps DEF Fetch
<1>5. ASSUME NEW e \in batch, Publish(e) PROVE FeedInv' /\ ReplayInv'
  <2>1. \A d \in (batch \cup topic)' : Honest(thrown, d)
    BY <1>5 DEF Publish, FeedInv, Records
  <2> QED  BY <1>0, <1>5, <2>1, PollKeeps DEF Publish
<1>6. CASE GiveUp
  <2>1. \A d \in (batch \cup topic)' : Honest(thrown, d)
    BY <1>6 DEF GiveUp, FeedInv, Records
  <2> QED  BY <1>0, <1>6, <2>1, PollKeeps DEF GiveUp
<1>7. ASSUME NEW e \in topic, NEW b \in Builds, Store(e, b) PROVE FeedInv' /\ ReplayInv'
  BY <1>0, <1>7, StoreKeeps DEF Store
<1>8. ASSUME NEW b \in Builds, Begin(b) PROVE FeedInv' /\ ReplayInv'
  BY <1>8, BeginKeeps, ReadersKeep DEF Begin
<1>9. CASE PublishRow
  BY <1>9, PublishRowKeeps, ReadersKeep DEF PublishRow
<1>10. CASE Complete
  BY <1>10, CompleteKeeps, ReadersKeep DEF Complete
<1>11. CASE Abort
  BY <1>11, AbortKeeps, ReadersKeep DEF Abort
<1>12. CASE UNCHANGED vars
  BY <1>0, <1>12, ReadersKeep DEF vars
<1> QED
  BY <1>1, <1>2, <1>3, <1>4, <1>5, <1>6, <1>7, <1>8, <1>9, <1>10, <1>11, <1>12 DEF Next

LEMMA Invariant == Spec => []IInv
BY Initially, Inductive, PTL DEF Spec

(***************************************************************************)
(* What follows.                                                           *)
(***************************************************************************)
\* The variables keep their types: a row is of a pitch and of a time, a replay publishes
\* pitches (replay/reader.py, query_api/db.py).
THEOREM TypeCorrect == Spec => []TypeOK
BY Invariant, PTL DEF IInv

\* A row is of the time of the throw or of the feed the pitch was first stored from.
LEMMA RowTimes ==
    ASSUME FeedInv, NEW k \in Stored
    PROVE  /\ k \in Thrown /\ thrown[k] \in Nat /\ table[k] \in Nat /\ thrown[k] <= table[k]
           /\ live[k].stamp \in Nat
           /\ table[k] = thrown[k] \/ (~ live[k].timed /\ table[k] = live[k].stamp)
<1>1. Honest(thrown, live[k]) /\ live[k].pitch = k /\ table[k] = live[k].time
  BY DEF FeedInv, Contents
<1>2. /\ thrown[k] \in Nat /\ live[k].stamp \in Nat /\ thrown[k] <= live[k].stamp
      /\ live[k].timed => live[k].time = thrown[k]
      /\ ~ live[k].timed => live[k].time = live[k].stamp
  BY <1>1 DEF Honest
<1>3. k \in Thrown /\ table[k] \in Nat
  BY <1>2, Meaning
<1>4. CASE live[k].timed
  BY <1>1, <1>2, <1>3, <1>4
<1>5. CASE ~ live[k].timed
  BY <1>1, <1>2, <1>3, <1>5
<1> QED  BY <1>4, <1>5

\* A replay gives back the pitches as they were thrown, but for those published without
\* their startTime, and those stand behind no pitch thrown after their feed
\* (replay/reader.py orders rows by time and id, the parser falls back to the
\* time of the feed, the ingestor publishes and saves pitch by pitch).
THEOREM ThrownInOrder == Spec => []DisplacedOnlyByFeedTime
<1>1. IInv => DisplacedOnlyByFeedTime
  <2> SUFFICES ASSUME FeedInv, ReplayInv, NEW h \in DOMAIN emitted, NEW i \in DOMAIN emitted, h < i,
                      Before(emitted[i].pitch, emitted[h].pitch)
               PROVE  /\ ~ live[emitted[i].pitch].timed
                      /\ thrown[emitted[h].pitch] <= live[emitted[i].pitch].stamp
    BY TwoParts, Zenon DEF DisplacedOnlyByFeedTime
  <2> DEFINE n == Cardinality(DOMAIN snap)
             j == emitted[h].pitch
             k == emitted[i].pitch
  <2>1. /\ h \in 1 .. n /\ i \in 1 .. n
        /\ j = Rows(snap)[h] /\ k = Rows(snap)[i]
    <3>1. Len(emitted) \in Nat /\ DOMAIN emitted = 1 .. Len(emitted)
      BY LenProperties DEF ReplayInv, Emission
    <3>2. n \in Nat
      BY RowsOrdered DEF ReplayInv, ReplayType
    <3> QED  BY <3>1, <3>2 DEF ReplayInv, Emission
  <2>2. <<j, k>> \in TableOrder(snap) /\ j \in DOMAIN snap /\ k \in DOMAIN snap
    <3>1. Lists(Rows(snap), DOMAIN snap, TableOrder(snap))
      BY RowsOrdered DEF ReplayInv, ReplayType
    <3> QED  BY <2>1, <3>1 DEF Lists
  <2>3. Before(k, j)
    BY DEF j, k
  <2> HIDE DEF j, k, n
  <2>4. snap[j] < snap[k] \/ snap[j] = snap[k]
    BY <2>2 DEF TableOrder
  <2>5. j \in Stored /\ k \in Stored /\ snap[j] = table[j] /\ snap[k] = table[k]
    BY <2>2 DEF ReplayInv, Seen
  <2>6. /\ j \in Thrown /\ thrown[j] \in Nat /\ table[j] \in Nat /\ thrown[j] <= table[j]
        /\ k \in Thrown /\ thrown[k] \in Nat /\ table[k] \in Nat
    BY <2>5, RowTimes
  <2>7. table[k] = thrown[k] \/ (~ live[k].timed /\ table[k] = live[k].stamp)
    BY <2>5, RowTimes
  <2>8. thrown[k] < thrown[j]
    BY <2>3, <2>6 DEF FeedInv, InTurn
  <2>9. thrown[j] <= table[k] /\ table[k] # thrown[k]
    BY <2>4, <2>5, <2>6, <2>8
  <2>10. ~ live[k].timed /\ thrown[j] <= live[k].stamp
    BY <2>7, <2>9
  <2> QED  BY <2>10 DEF j, k
<1> QED  BY <1>1, Invariant, PTL

\* The last row in order is the one the query API takes for the latest.
LEMMA LatestIsLastRow ==
    ASSUME FeedInv, Stored # {}
    PROVE  /\ Cardinality(Stored) \in Nat /\ Cardinality(Stored) >= 1
           /\ Latest \in Stored /\ Latest = Rows(table)[Cardinality(Stored)]
           /\ \A j \in Stored : j = Latest \/ LatestBefore(j, Latest)
<1> DEFINE n == Cardinality(Stored)
           r == Rows(table)
           R == TableOrder(table)
<1>1. Stored \subseteq Pitches /\ table \in [Stored -> Nat] /\ Stored = DOMAIN table
  BY DEF FeedInv, TableType, Stored
<1>2. n \in Nat /\ IsFiniteSet(Stored) /\ Orders(R, Stored) /\ Lists(r, Stored, R)
  BY <1>1, RowsOrdered
<1>3. n # 0
  BY <1>2, FS_EmptySet
<1>4. \A j, k \in Stored : LatestBefore(j, k) <=> <<j, k>> \in R
  BY <1>1 DEF LatestBefore, TableOrder
<1> HIDE DEF n, r, R
<1>5. n \in 1 .. n /\ \A i \in 1 .. n : i = n \/ i < n
  BY <1>2, <1>3 DEF n
<1>6. r[n] \in Stored
  BY <1>2, <1>5 DEF Lists, n
<1>7. ASSUME NEW j \in Stored
      PROVE  j = r[n] \/ <<j, r[n]>> \in R
  <2>1. PICK i \in 1 .. n : r[i] = j
    BY <1>2 DEF Lists, n
  <2>2. i < n => <<r[i], r[n]>> \in R
    BY <1>2, <1>5 DEF Lists, n
  <2> QED  BY <1>5, <2>1, <2>2
<1>8. \A j \in Stored \ {r[n]} : LatestBefore(j, r[n])
  BY <1>4, <1>6, <1>7
<1>9. Latest \in Stored /\ \A j \in Stored \ {Latest} : LatestBefore(j, Latest)
  <2>1. \E k \in Stored : \A j \in Stored \ {k} : LatestBefore(j, k)
    BY <1>6, <1>8
  <2> QED  BY <2>1, Zenon DEF Latest
<1>10. Latest = r[n]
  <2> SUFFICES ASSUME Latest # r[n] PROVE FALSE
    OBVIOUS
  <2>1. <<r[n], Latest>> \in R /\ <<Latest, r[n]>> \in R
    BY <1>4, <1>6, <1>8, <1>9
  <2> QED  BY <1>2, <1>6, <1>9, <2>1 DEF Orders
<1> QED  BY <1>2, <1>3, <1>9, <1>10 DEF n, r

\* The latest pitch the query API shows moves on only, and its time stays (query_api/db.py
\* takes the last row, persistence_consumer/storage.py does nothing on a conflict).
LatestLast == Stored # {} => Latest \in Stored /\ \A j \in Stored : j = Latest \/ LatestBefore(j, Latest)

THEOREM LatestStays == Spec => LatestMovesOn
<1>1. IInv => LatestLast
  BY TwoParts, LatestIsLastRow DEF LatestLast
<1>2. IInv /\ IInv' /\ LatestLast /\ LatestLast' /\ [Next]_vars =>
         [Stored # {} => table'[Latest] = table[Latest] /\ table[Latest] <= table'[Latest']]_vars
  <2> SUFFICES ASSUME FeedInv, FeedInv', LatestLast, LatestLast', [Next]_vars, Stored # {}
               PROVE  table'[Latest] = table[Latest] /\ table[Latest] <= table'[Latest']
    BY TwoParts DEF IInv, FeedInv, TypeOK, FeedType, TableType
  <2>1. Latest \in Stored /\ table[Latest] \in Nat
    BY Meaning DEF LatestLast
  <2>2. Latest \in Stored' /\ table'[Latest] = table[Latest]
    BY <2>1, RowsStay
  <2>3. Latest' \in Stored' /\ \A j \in Stored' : j = Latest' \/ LatestBefore(j, Latest)'
    BY <2>2 DEF LatestLast
  <2>4. Latest = Latest' \/ table'[Latest] < table'[Latest'] \/ table'[Latest] = table'[Latest']
    BY <2>2, <2>3 DEF LatestBefore
  <2>5. table'[Latest'] \in Nat
    BY <2>3 DEF FeedInv, TableType
  <2> QED  BY <2>1, <2>2, <2>4, <2>5
<1> QED  BY <1>1, <1>2, Invariant, PTL DEF Spec, LatestMovesOn

\* A replayed pitch is the one published, less what a build on the way does not know
\* (schemas/proto_utils.py, schemas/proto/README.md).
THEOREM ContractKept == Spec => []ReplayKeepsContract
<1>1. IInv => ReplayKeepsContract
  <2> SUFFICES ASSUME FeedInv, ReplayInv, NEW i \in DOMAIN emitted, NEW k, k = emitted[i].pitch
               PROVE  emitted[i].message = Part(reader, Part(writer[k], live[k].message))
    BY TwoParts, Zenon DEF ReplayKeepsContract
  <2>1. k \in Stored /\ reader \in Builds /\ emitted[i].message = Rebuild(reader, payload[k])
    BY DEF ReplayInv, Faithful
  <2>2. writer[k] \in Builds
    BY <2>1 DEF FeedInv, TableType
  <2>3. payload[k] = Flatten(writer[k], live[k].message) /\ IsMessage(writer[k], reader, live[k].message)
    BY <2>1, <2>2 DEF FeedInv, Contents, Honest
  <2>4. Compatible(writer[k], reader)
    BY <2>1, <2>2, BuildsAssumption
  <2> QED  BY <2>1, <2>3, <2>4, RoundTrip
<1> QED  BY <1>1, Invariant, PTL

\* The rows the query API asks for are the first of the rows read backwards.
LEMMA RecentRows ==
    ASSUME FeedInv, NEW limit \in Nat
    PROVE  LET n == Cardinality(Stored)
               l == IF limit < n THEN limit ELSE n
           IN  /\ n \in Nat /\ Recent(limit) \in Seq(Stored) /\ Len(Recent(limit)) = l
               /\ \A i \in 1 .. l : Recent(limit)[i] = Rows(table)[(n + 1) - i]
<1> DEFINE n == Cardinality(Stored)
           l == IF limit < n THEN limit ELSE n
           r == Rows(table)
           R == TableOrder(table)
           b == InOrder(Stored, LatestFirst)
<1>1. Stored \subseteq Pitches /\ table \in [Stored -> Nat] /\ Stored = DOMAIN table
  BY DEF FeedInv, TableType, Stored
<1>2. n \in Nat /\ IsFiniteSet(Stored) /\ Orders(R, Stored) /\ Lists(r, Stored, R)
  BY <1>1, RowsOrdered
<1>3. \A j, k \in Stored : <<j, k>> \in LatestFirst <=> <<k, j>> \in R
  BY <1>1 DEF LatestFirst, LaterRow, TableOrder
<1> HIDE DEF R, r
<1>4. Orders(LatestFirst, Stored)
  <2>1. \A x \in Stored : <<x, x>> \notin LatestFirst
    BY <1>2, <1>3 DEF Orders
  <2>2. \A x, y, z \in Stored :
           <<x, y>> \in LatestFirst /\ <<y, z>> \in LatestFirst => <<x, z>> \in LatestFirst
    BY <1>2, <1>3 DEF Orders
  <2>3. \A x, y \in Stored : x = y \/ <<x, y>> \in LatestFirst \/ <<y, x>> \in LatestFirst
    BY <1>2, <1>3 DEF Orders
  <2> QED  BY <2>1, <2>2, <2>3 DEF Orders
<1>5. Lists(b, Stored, LatestFirst)
  BY <1>2, <1>4, InOrderLists
<1> HIDE DEF b
<1>6. \A i \in 1 .. n : b[i] = r[(n + 1) - i]
  BY <1>2, <1>3, <1>5, Reversed
<1>7. b \in [1 .. n -> Stored]
  BY <1>5 DEF Lists
<1>8. Len(b) = n
  BY <1>2, <1>7
<1>9. l \in Nat /\ l <= n
  BY <1>2
<1>10. Recent(limit) = SubSeq(b, 1, l)
  BY <1>8 DEF Recent, b
<1> HIDE DEF n, l
<1>11. \A i \in 1 .. l : i \in 1 .. n /\ b[i] \in Stored
  BY <1>2, <1>7, <1>9 DEF n
<1>12. /\ SubSeq(b, 1, l) \in Seq(Stored)
       /\ Len(SubSeq(b, 1, l)) = IF 1 <= l THEN l - 1 + 1 ELSE 0
       /\ \A i \in 1 .. l - 1 + 1 : SubSeq(b, 1, l)[i] = b[1 + i - 1]
  BY <1>9, <1>11, SubSeqProperties
<1>13. Len(SubSeq(b, 1, l)) = l
  BY <1>9, <1>12
<1>14. \A i \in 1 .. l : SubSeq(b, 1, l)[i] = b[i]
  BY <1>9, <1>12
<1> QED  BY <1>2, <1>6, <1>10, <1>11, <1>12, <1>13, <1>14 DEF n, l, r

\* The query API's most recent pitches are the end of the replay, backwards, and the
\* first of them its latest (query_api/repository.py and replay/reader.py).
THEOREM RepositoriesAgree == Spec => []ReadersAgree
<1>1. IInv => ReadersAgree
  <2> DEFINE n == Cardinality(Stored)
  <2> SUFFICES ASSUME FeedInv, ReplayInv, replay = "done", table = snap,
                      NEW limit \in 1 .. Cardinality(Pitches), NEW recent, recent = Recent(limit)
               PROVE  /\ Len(recent) = (IF limit < n THEN limit ELSE n)
                      /\ \A i \in DOMAIN recent : recent[i] = emitted[Len(emitted) + 1 - i].pitch
                      /\ recent # <<>> => recent[1] = Latest
    BY TwoParts, Zenon DEF ReadersAgree
  <2>1. limit \in Nat /\ limit >= 1
    BY PitchesAssumption, FS_CardinalityType
  <2> DEFINE l == IF limit < n THEN limit ELSE n
  <2>2. /\ n \in Nat /\ recent \in Seq(Stored) /\ Len(recent) = l
        /\ \A i \in 1 .. l : recent[i] = Rows(table)[(n + 1) - i]
    BY <2>1, RecentRows
  <2>3. DOMAIN recent = 1 .. l
    BY <2>2, LenProperties
  <2>4. /\ Len(emitted) = n
        /\ \A i \in 1 .. Len(emitted) : emitted[i].pitch = Rows(table)[i]
    <3>1. rest = <<>> /\ Len(emitted) + Len(rest) = Cardinality(DOMAIN snap) /\ Len(emitted) \in Nat
      BY LenProperties DEF ReplayInv, Rest, Emission
    <3>2. Len(emitted) = n
      BY <3>1 DEF Stored
    <3> QED  BY <3>2 DEF ReplayInv, Emission
  <2>5. ASSUME NEW i \in 1 .. l
        PROVE  recent[i] = emitted[Len(emitted) + 1 - i].pitch
    <3>1. Len(emitted) + 1 - i = (n + 1) - i /\ (n + 1) - i \in 1 .. Len(emitted)
      BY <2>1, <2>2, <2>4
    <3> QED  BY <2>2, <2>4, <3>1
  <2>6. recent # <<>> => recent[1] = Latest
    <3> SUFFICES ASSUME recent # <<>> PROVE recent[1] = Latest
      OBVIOUS
    <3>1. Len(recent) >= 1
      BY <2>2
    <3>2. 1 \in 1 .. l /\ n >= 1 /\ (n + 1) - 1 = n
      BY <2>1, <2>2, <3>1
    <3>3. Stored # {}
      BY <2>2, <3>2, FS_EmptySet
    <3>4. recent[1] = Rows(table)[n]
      BY <2>2, <3>2
    <3> QED  BY <3>3, <3>4, LatestIsLastRow
  <2> QED  BY <2>2, <2>3, <2>5, <2>6
<1> QED  BY <1>1, Invariant, PTL
=============================================================================
