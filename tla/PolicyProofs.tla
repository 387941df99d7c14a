---------------------------- MODULE PolicyProofs ----------------------------
(***************************************************************************)
(* What the policies compute (cost.rs, planner.rs, eviction.rs,             *)
(* admission.rs), for every input, and the facts about numbers, sums,       *)
(* products and orders that this and the geometry of tensors rest on.       *)
(***************************************************************************)
EXTENDS Policy, FiniteSetTheorems, TLAPS

-----------------------------------------------------------------------------
(* Arithmetic *)

\* Multiplication is monotone, and steps by the factor.
LEMMA Multiples ==
  ASSUME NEW a \in Nat, NEW b \in Nat, NEW s \in Nat
  PROVE  /\ a * s \in Nat
         /\ a <= b => a * s <= b * s
         /\ a < b => a * s + s <= b * s
<1>1. \A x, y \in Nat : x * y \in Nat
  OBVIOUS
<1>2. ASSUME a <= b PROVE a * s <= b * s
  <2>1. PICK d \in Nat : b = a + d
    <3>1. b - a \in Nat /\ b = a + (b - a)
      BY <1>2
    <3> QED BY SMTT(30), <3>1
  <2>2. b * s = a * s + d * s
    BY <2>1
  <2> QED BY SMTT(30), <1>1, <2>2
<1>3. ASSUME a < b PROVE a * s + s <= b * s
  <2>1. PICK d \in Nat : b = a + 1 + d
    <3>1. b - a - 1 \in Nat /\ b = a + 1 + (b - a - 1)
      BY <1>3
    <3> QED BY SMTT(30), <3>1
  <2>2. b * s = a * s + s + d * s
    BY SMTT(30), <2>1
  <2> QED BY SMTT(30), <1>1, <2>2
<1> QED
  BY SMTT(30), <1>1, <1>2, <1>3

\* Division with remainder.
LEMMA Quotient ==
  ASSUME NEW k \in Nat, NEW s \in Nat \ {0}
  PROVE  /\ k \div s \in Nat /\ (k \div s) * s \in Nat
         /\ (k \div s) * s <= k /\ k < (k \div s) * s + s
<1>1. /\ k \div s \in Nat /\ k % s \in Nat /\ k % s < s
      /\ k = (k \div s) * s + (k % s)
  OBVIOUS
<1>2. (k \div s) * s \in Nat
  BY SMTT(30), <1>1, Multiples
<1> QED
  BY SMTT(30), <1>1, <1>2

\* Division is monotone.
LEMMA QuotientMonotone ==
  ASSUME NEW a \in Nat, NEW b \in Nat, NEW s \in Nat \ {0}, a <= b
  PROVE  a \div s <= b \div s
<1> DEFINE p == a \div s
           q == b \div s
<1>1. p \in Nat /\ p * s \in Nat /\ p * s <= a /\ a < p * s + s
  BY Quotient
<1>2. q \in Nat /\ q * s \in Nat /\ q * s <= b /\ b < q * s + s
  BY SMTT(30), Quotient
<1> HIDE DEF p, q
<1>3. q < p => q * s + s <= p * s
  BY SMTT(30), <1>1, <1>2, Multiples
<1>4. ~(q < p)
  BY SMTT(30), <1>1, <1>2, <1>3
<1>5. p <= q
  BY SMTT(30), <1>1, <1>2, <1>4
<1> QED
  BY <1>5 DEF p, q

\* A set of naturals that is not empty has a least element.
LEMMA LeastNat ==
  ASSUME NEW T \in SUBSET Nat, T # {}
  PROVE  \E x \in T : \A y \in T : x <= y
<1> DEFINE R == OpToRel(<, Nat)
<1>1. IsWellFoundedOn(R, Nat)
  BY Zenon, NatLessThanWellFounded
<1>2. \A a, b \in Nat : a < b => <<a, b>> \in R
  BY DEF OpToRel
<1> HIDE DEF R
<1>3. PICK x \in T : \A y \in T : ~(<<y, x>> \in R)
  BY ZenonT(40), <1>1, WFMin
<1>4. x \in Nat /\ \A y \in T : y \in Nat
  OBVIOUS
<1>5. \A y \in T : ~(y < x)
  BY ZenonT(40), <1>2, <1>3, <1>4
<1>6. \A y \in T : x <= y
  BY SMTT(30), <1>4, <1>5
<1> QED
  BY SMTT(30), <1>6

\* Induction over the first naturals, for a set.
LEMMA UpTo ==
  ASSUME NEW L \in Nat, NEW T \in SUBSET (0..L), 0 \in T,
         \A n \in 1..L : n - 1 \in T => n \in T
  PROVE  T = 0..L
<1> DEFINE U == (0..L) \ T
<1>1. SUFFICES ASSUME U # {} PROVE FALSE
  BY Zenon, <1>1
<1>2. U \in SUBSET Nat
  BY SMTT(30)
<1>3. PICK x \in U : \A y \in U : x <= y
  <2> HIDE DEF U
  <2> QED BY Zenon, <1>1, <1>2, LeastNat
<1>4. x \in 1..L /\ x - 1 \in 0..L /\ ~(x <= x - 1) /\ x \notin T
  BY SMTT(30), <1>3
<1>5. x - 1 \in T
  BY Zenon, <1>3, <1>4
<1> QED
  BY Zenon, <1>4, <1>5

-----------------------------------------------------------------------------
(* Recursion: running sums and products *)

\* What a recursion begins with and its steps stay in a set.
Stays(L, S, base, step) == base \in S /\ \A n \in 1..L, v \in S : step[<<n, v>>] \in S

\* The function the recursion defines.
Follows(L, S, base, step, p) ==
  p \in [0..L -> S] /\ p[0] = base /\ \A n \in 1..L : p[n] = step[<<n, p[n - 1]>>]

\* A function that is defined by recursion over the first naturals exists.
LEMMA Recursion ==
  ASSUME NEW L \in Nat, NEW S, NEW base, NEW step, Stays(L, S, base, step)
  PROVE  \E p : Follows(L, S, base, step, p)
<1> USE DEF Stays, Follows
<1> DEFINE Up(n, p) == p[0] = base /\ \A k \in 1..n : p[k] = step[<<k, p[k - 1]>>]
           T == {n \in 0..L : \E p \in [0..n -> S] : Up(n, p)}
<1>1. 0 \in T
  <2>1. [k \in 0..0 |-> base] \in [0..0 -> S] /\ Up(0, [k \in 0..0 |-> base])
    BY SMTT(30)
  <2>2. 0 \in 0..L
    BY SMTT(30)
  <2> QED BY Zenon, <2>1, <2>2
<1>2. ASSUME NEW n \in 1..L, n - 1 \in T PROVE n \in T
  <2>1. PICK p \in [0..(n - 1) -> S] : Up(n - 1, p)
    BY Zenon, <1>2
  <2> DEFINE q == [k \in 0..n |-> IF k = n THEN step[<<n, p[n - 1]>>] ELSE p[k]]
  <2>2. step[<<n, p[n - 1]>>] \in S
    <3>1. p[n - 1] \in S
      BY SMTT(30), <2>1
    <3> QED BY Zenon, <3>1
  <2>3. q \in [0..n -> S]
    BY SMTT(30), <2>1, <2>2
  <2>4. q[0] = base /\ q[n] = step[<<n, p[n - 1]>>] /\ \A k \in 0..(n - 1) : q[k] = p[k]
    BY SMTT(30), <2>1
  <2> HIDE DEF q
  <2>5. \A k \in 1..n : q[k] = step[<<k, q[k - 1]>>]
    <3>1. ASSUME NEW k \in 1..n PROVE q[k] = step[<<k, q[k - 1]>>]
      <4>1. k - 1 \in 0..(n - 1)
        BY SMTT(30)
      <4>2. CASE k = n
        BY Zenon, <2>4, <4>1, <4>2
      <4>3. CASE k # n
        <5>1. k \in 1..(n - 1) /\ k \in 0..(n - 1)
          BY SMTT(30), <4>3
        <5> QED BY Zenon, <2>1, <2>4, <4>1, <5>1
      <4> QED BY Zenon, <4>2, <4>3
    <3> QED BY Zenon, <3>1
  <2>6. n \in 0..L
    BY SMTT(30)
  <2> QED BY Zenon, <2>3, <2>4, <2>5, <2>6
<1>3. T = 0..L
  <2>1. T \in SUBSET (0..L)
    BY Zenon
  <2> HIDE DEF T
  <2> QED BY Zenon, <1>1, <1>2, <2>1, UpTo
<1>4. L \in T
  BY SMTT(30), <1>3
<1> QED
  BY Zenon, <1>4

\* Running totals.
LEMMA TotalsStep ==
  ASSUME NEW s, Len(s) \in Nat, \A i \in 1..Len(s) : s[i] \in Nat
  PROVE  /\ Totals(s) \in [0..Len(s) -> Nat]
         /\ Totals(s)[0] = 0
         /\ \A n \in 1..Len(s) : Totals(s)[n] = Totals(s)[n - 1] + s[n]
<1> DEFINE L == Len(s)
           step == [z \in (1..L) \X Nat |-> z[2] + s[z[1]]]
           Is(p) == p = [n \in 0..L |-> IF n = 0 THEN 0 ELSE p[n - 1] + s[n]]
<1>1. \A n \in 1..L, m \in Nat : step[<<n, m>>] \in Nat /\ step[<<n, m>>] = m + s[n]
  BY SMTT(30)
<1>2. PICK p \in [0..L -> Nat] : p[0] = 0 /\ \A n \in 1..L : p[n] = step[<<n, p[n - 1]>>]
  <2>1. 0 \in Nat /\ L \in Nat
    OBVIOUS
  <2>2. Stays(L, Nat, 0, step)
    BY Zenon, <1>1, <2>1 DEF Stays
  <2>3. \E g : Follows(L, Nat, 0, step, g)
    <3> HIDE DEF step, L
    <3> QED BY ONLY Zenon, <2>1, <2>2, Recursion
  <2> QED BY Zenon, <2>3 DEF Follows
<1>3. \A n \in 1..L : p[n - 1] \in Nat /\ p[n] = p[n - 1] + s[n]
  <2> HIDE DEF step
  <2>1. \A n \in 1..L : p[n - 1] \in Nat
    BY SMTT(30)
  <2> QED BY Zenon, <1>1, <1>2, <2>1
<1> HIDE DEF step
<1>4. Is(p)
  BY SMTT(30), <1>2, <1>3
<1>5. Is(Totals(s))
  <2>1. Totals(s) = CHOOSE f : Is(f)
    BY Zenon DEF Totals
  <2> HIDE DEF Is
  <2> QED BY Zenon, <1>4, <2>1
<1> DEFINE t == Totals(s)
<1> HIDE DEF t
<1>6. t = [n \in 0..L |-> IF n = 0 THEN 0 ELSE t[n - 1] + s[n]]
  BY Zenon, <1>5 DEF t
<1>7. t[0] = 0 /\ \A n \in 1..L : t[n] = t[n - 1] + s[n]
  BY SMTT(30), <1>6
<1> DEFINE T == {n \in 0..L : t[n] \in Nat}
<1>8. 0 \in T /\ \A n \in 1..L : n - 1 \in T => n \in T
  BY SMTT(30), <1>7
<1>9. T = 0..L
  <2>1. T \in SUBSET (0..L)
    BY Zenon
  <2> HIDE DEF T
  <2> QED BY Zenon, <1>8, <2>1, UpTo
<1>10. t \in [0..L -> Nat]
  <2>1. \A n \in 0..L : t[n] \in Nat
    BY Zenon, <1>9
  <2>2. t = [n \in 0..L |-> t[n]]
    BY SMTT(30), <1>6, <1>7
  <2> QED BY SMTT(30), <2>1, <2>2
<1> QED
  BY Zenon, <1>7, <1>10 DEF t
\* Running products.
LEMMA ProductsStep ==
  ASSUME NEW s, Len(s) \in Nat, \A i \in 1..Len(s) : s[i] \in Nat
  PROVE  /\ Products(s) \in [0..Len(s) -> Nat]
         /\ Products(s)[0] = 1
         /\ \A n \in 1..Len(s) : Products(s)[n] = Products(s)[n - 1] * s[n]
<1> DEFINE L == Len(s)
           step == [z \in (1..L) \X Nat |-> z[2] * s[z[1]]]
           Is(p) == p = [n \in 0..L |-> IF n = 0 THEN 1 ELSE p[n - 1] * s[n]]
<1>1. \A n \in 1..L, m \in Nat : step[<<n, m>>] \in Nat /\ step[<<n, m>>] = m * s[n]
  BY SMTT(30)
<1>2. PICK p \in [0..L -> Nat] : p[0] = 1 /\ \A n \in 1..L : p[n] = step[<<n, p[n - 1]>>]
  <2>1. 1 \in Nat /\ L \in Nat
    OBVIOUS
  <2>2. Stays(L, Nat, 1, step)
    BY Zenon, <1>1, <2>1 DEF Stays
  <2>3. \E g : Follows(L, Nat, 1, step, g)
    <3> HIDE DEF step, L
    <3> QED BY ONLY Zenon, <2>1, <2>2, Recursion
  <2> QED BY Zenon, <2>3 DEF Follows
<1>3. \A n \in 1..L : p[n - 1] \in Nat /\ p[n] = p[n - 1] * s[n]
  <2> HIDE DEF step
  <2>1. \A n \in 1..L : p[n - 1] \in Nat
    BY SMTT(30)
  <2> QED BY Zenon, <1>1, <1>2, <2>1
<1> HIDE DEF step
<1>4. Is(p)
  BY SMTT(30), <1>2, <1>3
<1>5. Is(Products(s))
  <2>1. Products(s) = CHOOSE f : Is(f)
    BY Zenon DEF Products
  <2> HIDE DEF Is
  <2> QED BY Zenon, <1>4, <2>1
<1> DEFINE t == Products(s)
<1> HIDE DEF t
<1>6. t = [n \in 0..L |-> IF n = 0 THEN 1 ELSE t[n - 1] * s[n]]
  BY Zenon, <1>5 DEF t
<1>7. t[0] = 1 /\ \A n \in 1..L : t[n] = t[n - 1] * s[n]
  BY SMTT(30), <1>6
<1> DEFINE T == {n \in 0..L : t[n] \in Nat}
<1>8. 0 \in T /\ \A n \in 1..L : n - 1 \in T => n \in T
  BY SMTT(30), <1>7
<1>9. T = 0..L
  <2>1. T \in SUBSET (0..L)
    BY Zenon
  <2> HIDE DEF T
  <2> QED BY Zenon, <1>8, <2>1, UpTo
<1>10. t \in [0..L -> Nat]
  <2>1. \A n \in 0..L : t[n] \in Nat
    BY Zenon, <1>9
  <2>2. t = [n \in 0..L |-> t[n]]
    BY SMTT(30), <1>6, <1>7
  <2> QED BY SMTT(30), <2>1, <2>2
<1> QED
  BY Zenon, <1>7, <1>10 DEF t

\* Totals depend on the summands only up to where they are taken.
LEMMA TotalsAgree ==
  ASSUME NEW s, Len(s) \in Nat, \A i \in 1..Len(s) : s[i] \in Nat,
         NEW u, Len(u) \in Nat, \A i \in 1..Len(u) : u[i] \in Nat,
         NEW n \in 0..Len(s), n <= Len(u), \A i \in 1..n : s[i] = u[i]
  PROVE  Totals(s)[n] = Totals(u)[n]
<1> DEFINE a == Totals(s)
           b == Totals(u)
           T == {k \in 0..n : a[k] = b[k]}
<1>1. /\ a[0] = 0 /\ \A k \in 1..Len(s) : a[k] = a[k - 1] + s[k]
      /\ b[0] = 0 /\ \A k \in 1..Len(u) : b[k] = b[k - 1] + u[k]
  BY Zenon, TotalsStep
<1> HIDE DEF a, b
<1>2. 0 \in T /\ \A k \in 1..n : k - 1 \in T => k \in T
  BY SMTT(30), <1>1
<1>3. T = 0..n
  <2>1. T \in SUBSET (0..n) /\ n \in Nat
    BY SMTT(30)
  <2> HIDE DEF T
  <2> QED BY Zenon, <1>2, <2>1, UpTo
<1>4. n \in T
  BY SMTT(30), <1>3
<1> QED
  BY Zenon, <1>4 DEF a, b

\* The summands may be added in the opposite order.
LEMMA TotalsReversed ==
  ASSUME NEW s, Len(s) \in Nat, \A i \in 1..Len(s) : s[i] \in Nat,
         NEW u, Len(u) = Len(s), \A i \in 1..Len(s) : u[i] = s[Len(s) - i + 1]
  PROVE  Totals(u)[Len(s)] = Totals(s)[Len(s)]
<1> DEFINE L == Len(s)
           a == Totals(s)
           b == Totals(u)
           T == {k \in 0..L : a[L - k] + b[k] = a[L]}
<1>1. \A i \in 1..Len(u) : u[i] \in Nat
  BY SMTT(30)
<1>2. /\ a \in [0..L -> Nat] /\ a[0] = 0 /\ \A k \in 1..L : a[k] = a[k - 1] + s[k]
      /\ b \in [0..L -> Nat] /\ b[0] = 0 /\ \A k \in 1..L : b[k] = b[k - 1] + u[k]
  BY Zenon, <1>1, TotalsStep
<1> HIDE DEF a, b
<1>3. 0 \in T
  BY SMTT(30), <1>2
<1>4. ASSUME NEW k \in 1..L, k - 1 \in T PROVE k \in T
  <2>1. PICK j \in 1..L : L - (k - 1) = j /\ L - k = j - 1 /\ u[k] = s[j]
    <3>1. L - k + 1 \in 1..L /\ L - (k - 1) = L - k + 1 /\ L - k = (L - k + 1) - 1
      BY SMTT(30)
    <3> QED BY Zenon, <3>1
  <2>2. a[j] = a[j - 1] + s[j] /\ b[k] = b[k - 1] + s[j] /\ a[j] + b[k - 1] = a[L]
    <3>1. a[L - (k - 1)] + b[k - 1] = a[L]
      BY Zenon, <1>4
    <3> QED BY Zenon, <1>2, <2>1, <3>1
  <2>3. a[j - 1] \in Nat /\ b[k - 1] \in Nat /\ s[j] \in Nat
    <3>1. j - 1 \in 0..L /\ k - 1 \in 0..L
      BY SMTT(30)
    <3> QED BY Zenon, <1>2, <3>1
  <2>4. a[j - 1] + b[k] = a[L]
    BY SMTT(30), <2>1, <2>2, <2>3
  <2> QED BY SMTT(30), <2>1, <2>4
<1>5. T = 0..L
  <2>1. T \in SUBSET (0..L)
    BY Zenon
  <2> HIDE DEF T
  <2> QED BY Zenon, <1>3, <1>4, <2>1, UpTo
<1>6. L \in T
  BY SMTT(30), <1>5
<1>7. b[L] = a[L]
  BY SMTT(30), <1>2, <1>6
<1> QED
  BY Zenon, <1>7 DEF a, b

\* The factors may be multiplied in the opposite order.
LEMMA ProductsReversed ==
  ASSUME NEW s, Len(s) \in Nat, \A i \in 1..Len(s) : s[i] \in Nat,
         NEW u, Len(u) = Len(s), \A i \in 1..Len(s) : u[i] = s[Len(s) - i + 1]
  PROVE  Products(u)[Len(s)] = Products(s)[Len(s)]
<1> DEFINE L == Len(s)
           a == Products(s)
           b == Products(u)
           T == {k \in 0..L : a[L - k] * b[k] = a[L]}
<1>1. \A i \in 1..Len(u) : u[i] \in Nat
  BY SMTT(30)
<1>2. /\ a \in [0..L -> Nat] /\ a[0] = 1 /\ \A k \in 1..L : a[k] = a[k - 1] * s[k]
      /\ b \in [0..L -> Nat] /\ b[0] = 1 /\ \A k \in 1..L : b[k] = b[k - 1] * u[k]
  BY Zenon, <1>1, ProductsStep
<1> HIDE DEF a, b
<1>3. 0 \in T
  BY SMTT(30), <1>2
<1>4. ASSUME NEW k \in 1..L, k - 1 \in T PROVE k \in T
  <2>1. PICK j \in 1..L : L - (k - 1) = j /\ L - k = j - 1 /\ u[k] = s[j]
    <3>1. L - k + 1 \in 1..L /\ L - (k - 1) = L - k + 1 /\ L - k = (L - k + 1) - 1
      BY SMTT(30)
    <3> QED BY Zenon, <3>1
  <2>2. a[j] = a[j - 1] * s[j] /\ b[k] = b[k - 1] * s[j] /\ a[j] * b[k - 1] = a[L]
    <3>1. a[L - (k - 1)] * b[k - 1] = a[L]
      BY Zenon, <1>4
    <3> QED BY Zenon, <1>2, <2>1, <3>1
  <2>3. a[j - 1] \in Nat /\ b[k - 1] \in Nat /\ s[j] \in Nat
    <3>1. j - 1 \in 0..L /\ k - 1 \in 0..L
      BY SMTT(30)
    <3> QED BY Zenon, <1>2, <3>1
  <2>4. \A x, y, z \in Nat : x * (y * z) = (x * z) * y
    BY SMTT(30)
  <2>5. a[j - 1] * b[k] = a[L]
    <3>1. a[j - 1] * (b[k - 1] * s[j]) = (a[j - 1] * s[j]) * b[k - 1]
      BY SMTT(30), <2>3, <2>4
    <3>2. a[j - 1] * b[k] = a[j - 1] * (b[k - 1] * s[j])
      BY Zenon, <2>2
    <3>3. (a[j - 1] * s[j]) * b[k - 1] = a[L]
      BY Zenon, <2>2
    <3> QED BY Zenon, <3>1, <3>2, <3>3
  <2> QED BY SMTT(30), <2>1, <2>5
<1>5. T = 0..L
  <2>1. T \in SUBSET (0..L)
    BY Zenon
  <2> HIDE DEF T
  <2> QED BY Zenon, <1>3, <1>4, <2>1, UpTo
<1>6. L \in T
  BY SMTT(30), <1>5
<1>7. b[L] = a[L]
  BY SMTT(30), <1>2, <1>6
<1> QED
  BY Zenon, <1>7 DEF a, b

-----------------------------------------------------------------------------
(* Numbers by their digits *)

\* The numbers below every factor of d, and what they stand for when the weight of
\* each is the product of the factors before it.
Digits(d) == {x \in [1..Len(d) -> Nat] : \A i \in 1..Len(d) : x[i] < d[i]}

Terms(d, x) == [i \in 1..Len(d) |-> x[i] * Products(d)[i - 1]]

Value(d, x) == Totals(Terms(d, x))[Len(d)]

\* A product that is not zero has no factor that is.
LEMMA FactorsPositive ==
  ASSUME NEW d, Len(d) \in Nat, \A i \in 1..Len(d) : d[i] \in Nat, Products(d)[Len(d)] > 0
  PROVE  /\ \A n \in 0..Len(d) : Products(d)[n] \in Nat /\ Products(d)[n] > 0
         /\ \A i \in 1..Len(d) : d[i] > 0
<1> DEFINE L == Len(d)
           p == Products(d)
           T == {n \in 0..L : p[L - n] > 0}
<1>1. p \in [0..L -> Nat] /\ p[0] = 1 /\ \A n \in 1..L : p[n] = p[n - 1] * d[n]
  BY Zenon, ProductsStep
<1>2. p[L] > 0
  OBVIOUS
<1> HIDE DEF p
<1>3. ASSUME NEW n \in 1..L, p[n] > 0 PROVE p[n - 1] > 0 /\ d[n] > 0
  <2>1. p[n - 1] \in Nat /\ d[n] \in Nat /\ p[n] = p[n - 1] * d[n]
    BY SMTT(30), <1>1
  <2>2. \A a, b \in Nat : a * b > 0 => a > 0 /\ b > 0
    BY SMTT(30)
  <2> QED BY Zenon, <1>3, <2>1, <2>2
<1>4. 0 \in T
  BY SMTT(30), <1>2
<1>5. ASSUME NEW k \in 1..L, k - 1 \in T PROVE k \in T
  <2>1. PICK n \in 1..L : L - (k - 1) = n /\ L - k = n - 1
    <3>1. L - k + 1 \in 1..L /\ L - (k - 1) = L - k + 1 /\ L - k = (L - k + 1) - 1
      BY SMTT(30)
    <3> QED BY Zenon, <3>1
  <2>2. p[L - (k - 1)] > 0
    BY Zenon, <1>5
  <2>3. p[n - 1] > 0 /\ k \in 0..L
    <3>1. p[n] > 0
      BY Zenon, <2>1, <2>2
    <3> QED BY SMTT(30), <1>3, <3>1
  <2> QED BY Zenon, <2>1, <2>3
<1>6. T = 0..L
  <2>1. T \in SUBSET (0..L)
    BY Zenon
  <2> HIDE DEF T
  <2> QED BY Zenon, <1>4, <1>5, <2>1, UpTo
<1>7. ASSUME NEW n \in 0..L PROVE p[n] > 0
  <2>1. L - n \in 0..L /\ L - (L - n) = n
    BY SMTT(30)
  <2>2. L - n \in T
    BY Zenon, <1>6, <2>1
  <2> QED BY Zenon, <2>1, <2>2
<1>8. \A n \in 0..L : p[n] \in Nat
  BY Zenon, <1>1
<1>9. \A i \in 1..L : d[i] > 0
  <2>1. \A i \in 1..L : i \in 0..L
    BY SMTT(30)
  <2> QED BY Zenon, <1>3, <1>7, <2>1
<1> QED
  BY Zenon, <1>7, <1>8, <1>9 DEF p

\* The terms of a value and their totals.
LEMMA ValueTotals ==
  ASSUME NEW d, Len(d) \in Nat, \A i \in 1..Len(d) : d[i] \in Nat,
         NEW x, \A i \in 1..Len(d) : x[i] \in Nat
  PROVE  /\ Len(Terms(d, x)) = Len(d)
         /\ \A i \in 1..Len(d) : Terms(d, x)[i] = x[i] * Products(d)[i - 1]
         /\ \A i \in 1..Len(d) : Terms(d, x)[i] \in Nat
         /\ Totals(Terms(d, x)) \in [0..Len(d) -> Nat]
         /\ Totals(Terms(d, x))[0] = 0
         /\ \A n \in 1..Len(d) : Totals(Terms(d, x))[n]
                                   = Totals(Terms(d, x))[n - 1] + x[n] * Products(d)[n - 1]
<1> DEFINE L == Len(d)
           p == Products(d)
           t == Terms(d, x)
<1>1. p \in [0..L -> Nat]
  BY Zenon, ProductsStep
<1> HIDE DEF p
<1>2. t = [i \in 1..L |-> x[i] * p[i - 1]]
  BY Zenon DEF Terms, p
<1> HIDE DEF t
<1>3. \A i \in 1..L : t[i] = x[i] * p[i - 1]
  BY SMTT(30), <1>2
<1>4. \A i \in 1..L : t[i] \in Nat
  <2>1. \A i \in 1..L : i - 1 \in 0..L
    BY SMTT(30)
  <2>2. \A a, b \in Nat : a * b \in Nat
    BY SMTT(30)
  <2> QED BY Zenon, <1>1, <1>3, <2>1, <2>2
<1>5. t \in Seq(Nat) /\ Len(t) = L
  <2>1. t \in [1..L -> Nat]
    BY SMTT(30), <1>2, <1>3, <1>4
  <2> QED BY SMTT(30), <2>1
<1>6. /\ Totals(t) \in [0..L -> Nat] /\ Totals(t)[0] = 0
      /\ \A n \in 1..L : Totals(t)[n] = Totals(t)[n - 1] + t[n]
  <2>1. Len(t) \in Nat /\ \A i \in 1..Len(t) : t[i] \in Nat
    BY Zenon, <1>4, <1>5
  <2> QED BY Zenon, <1>5, <2>1, TotalsStep
<1> QED
  BY Zenon, <1>3, <1>4, <1>5, <1>6 DEF p, t

\* Digits stand for a number below the product of all factors.
LEMMA ValueBelow ==
  ASSUME NEW d, Len(d) \in Nat, \A i \in 1..Len(d) : d[i] \in Nat, NEW x \in Digits(d)
  PROVE  Value(d, x) \in Nat /\ Value(d, x) < Products(d)[Len(d)]
<1> DEFINE L == Len(d)
           p == Products(d)
           v == Totals(Terms(d, x))
           T == {n \in 0..L : v[n] < p[n]}
<1>1. \A i \in 1..L : x[i] \in Nat /\ x[i] < d[i]
  BY SMTT(30) DEF Digits
<1>2. /\ v \in [0..L -> Nat] /\ v[0] = 0
      /\ \A n \in 1..L : v[n] = v[n - 1] + x[n] * p[n - 1]
  BY Zenon, <1>1, ValueTotals
<1>3. p \in [0..L -> Nat] /\ p[0] = 1 /\ \A n \in 1..L : p[n] = p[n - 1] * d[n]
  BY Zenon, ProductsStep
<1>4. Value(d, x) = v[L]
  BY Zenon DEF Value
<1> HIDE DEF v, p
<1>5. 0 \in T
  BY SMTT(30), <1>2, <1>3
<1>6. ASSUME NEW n \in 1..L, n - 1 \in T PROVE n \in T
  <2>1. v[n - 1] < p[n - 1]
    BY Zenon, <1>6
  <2>2. v[n - 1] \in Nat /\ p[n - 1] \in Nat /\ x[n] \in Nat /\ d[n] \in Nat /\ x[n] < d[n]
    <3>1. n - 1 \in 0..L
      BY SMTT(30)
    <3> QED BY Zenon, <1>1, <1>2, <1>3, <3>1
  <2>3. x[n] * p[n - 1] + p[n - 1] <= d[n] * p[n - 1] /\ x[n] * p[n - 1] \in Nat
    BY Zenon, <2>2, Multiples
  <2>4. p[n] = d[n] * p[n - 1]
    <3>1. \A a, b \in Nat : a * b = b * a
      BY SMTT(30)
    <3> QED BY Zenon, <1>3, <2>2, <3>1
  <2>5. d[n] * p[n - 1] \in Nat
    BY Zenon, <2>2, Multiples
  <2>6. v[n] = v[n - 1] + x[n] * p[n - 1]
    BY Zenon, <1>2
  <2>7. v[n] < p[n]
    BY ONLY SMTT(30), <2>1, <2>2, <2>3, <2>4, <2>5, <2>6
  <2>8. n \in 0..L
    BY SMTT(30)
  <2> QED BY Zenon, <2>7, <2>8
<1>7. T = 0..L
  <2>1. T \in SUBSET (0..L)
    BY Zenon
  <2> HIDE DEF T
  <2> QED BY Zenon, <1>5, <1>6, <2>1, UpTo
<1>8. L \in 0..L
  BY SMTT(30)
<1> QED
  BY Zenon, <1>2, <1>4, <1>7, <1>8 DEF p

\* Every number below the product of all factors has digits.
LEMMA ValueReaches ==
  ASSUME NEW d, Len(d) \in Nat, \A i \in 1..Len(d) : d[i] \in Nat, Products(d)[Len(d)] > 0,
         NEW m \in Nat, m < Products(d)[Len(d)]
  PROVE  \E x \in Digits(d) : Value(d, x) = m
<1> DEFINE L == Len(d)
           p == Products(d)
           v(x) == Totals(Terms(d, x))
           Reached(n) == \A k \in Nat : k < p[n] => \E x \in Digits(d) : v(x)[n] = k
           T == {n \in 0..L : Reached(n)}
<1>1. p \in [0..L -> Nat] /\ p[0] = 1 /\ \A n \in 1..L : p[n] = p[n - 1] * d[n]
  BY Zenon, ProductsStep
<1>2. (\A n \in 0..L : p[n] \in Nat /\ p[n] > 0) /\ \A i \in 1..L : d[i] > 0
  BY Zenon, FactorsPositive
<1>3. \A x \in Digits(d) : /\ x \in [1..L -> Nat]
                           /\ \A i \in 1..L : x[i] \in Nat /\ x[i] < d[i]
  BY SMTT(30) DEF Digits
<1>4. ASSUME NEW x \in Digits(d)
      PROVE  /\ v(x) \in [0..L -> Nat] /\ v(x)[0] = 0
             /\ \A n \in 1..L : v(x)[n] = v(x)[n - 1] + x[n] * p[n - 1]
  BY Zenon, <1>3, ValueTotals
<1> HIDE DEF v, p
<1>5. 0 \in T
  <2> DEFINE zero == [i \in 1..L |-> 0]
  <2>1. zero \in Digits(d)
    BY SMTT(30), <1>2 DEF Digits
  <2>2. v(zero)[0] = 0
    BY Zenon, <1>4, <2>1
  <2>3. \A k \in Nat : k < p[0] => k = 0
    BY SMTT(30), <1>1
  <2>4. 0 \in 0..L
    BY SMTT(30)
  <2> QED BY Zenon, <2>1, <2>2, <2>3, <2>4
<1>6. ASSUME NEW n \in 1..L, n - 1 \in T PROVE n \in T
  <2>1. n - 1 \in 0..L /\ n \in 0..L
    BY SMTT(30)
  <2>2. ASSUME NEW k \in Nat, k < p[n] PROVE \E x \in Digits(d) : v(x)[n] = k
    <3> DEFINE w == p[n - 1]
               q == k \div w
               rest == k - q * w
    <3>1. w \in Nat \ {0} /\ d[n] \in Nat /\ p[n] = w * d[n]
      BY SMTT(30), <1>1, <1>2, <2>1
    <3> HIDE DEF w
    <3>2. q \in Nat /\ q * w \in Nat /\ q * w <= k /\ k < q * w + w
      BY Zenon, <3>1, Quotient
    <3> HIDE DEF q
    <3>3. rest \in Nat /\ rest < w /\ k = rest + q * w
      BY SMTT(30), <3>1, <3>2
    <3>4. q < d[n]
      <4>1. d[n] <= q => d[n] * w <= q * w
        BY Zenon, <3>1, <3>2, Multiples
      <4>2. w * d[n] = d[n] * w /\ d[n] * w \in Nat
        BY SMTT(30), <3>1
      <4>3. ~(d[n] <= q)
        BY SMTT(30), <2>2, <3>1, <3>2, <4>1, <4>2
      <4> QED BY SMTT(30), <3>1, <3>2, <4>3
    <3> HIDE DEF rest
    <3>5. PICK x \in Digits(d) : v(x)[n - 1] = rest
      BY Zenon, <1>6, <3>3 DEF w
    <3> DEFINE y == [x EXCEPT ![n] = q]
    <3>6. y \in Digits(d) /\ y[n] = q /\ \A i \in 1..(n - 1) : y[i] = x[i]
      BY SMTT(30), <1>3, <3>2, <3>4 DEF Digits
    <3> HIDE DEF y
    <3>7. v(y)[n - 1] = v(x)[n - 1]
      <4>1. \A i \in 1..(n - 1) : Terms(d, y)[i] = Terms(d, x)[i]
        <5>1. \A i \in 1..(n - 1) : i \in 1..L
          BY SMTT(30)
        <5>2. ASSUME NEW z \in Digits(d)
              PROVE  \A i \in 1..L : Terms(d, z)[i] = z[i] * Products(d)[i - 1]
          BY Zenon, <1>3, ValueTotals
        <5> QED BY Zenon, <3>6, <5>1, <5>2
      <4>2. ASSUME NEW z \in Digits(d)
            PROVE  Len(Terms(d, z)) = L /\ \A i \in 1..L : Terms(d, z)[i] \in Nat
        BY Zenon, <1>3, ValueTotals
      <4>3. /\ n - 1 \in 0..Len(Terms(d, y)) /\ n - 1 <= Len(Terms(d, x))
            /\ Len(Terms(d, x)) \in Nat /\ Len(Terms(d, y)) \in Nat
        BY SMTT(30), <2>1, <3>6, <4>2
      <4>4. /\ \A i \in 1..Len(Terms(d, x)) : Terms(d, x)[i] \in Nat
            /\ \A i \in 1..Len(Terms(d, y)) : Terms(d, y)[i] \in Nat
        BY Zenon, <3>6, <4>2
      <4>5. Totals(Terms(d, y))[n - 1] = Totals(Terms(d, x))[n - 1]
        BY Zenon, <4>1, <4>3, <4>4, TotalsAgree
      <4> QED BY Zenon, <4>5 DEF v
    <3>8. v(y)[n] = v(y)[n - 1] + y[n] * p[n - 1]
      BY Zenon, <1>4, <3>6
    <3>9. v(y)[n] = rest + q * w
      BY Zenon, <3>5, <3>6, <3>7, <3>8 DEF w
    <3> QED BY Zenon, <3>3, <3>6, <3>9
  <2> QED BY Zenon, <2>1, <2>2
<1>7. T = 0..L
  <2>1. T \in SUBSET (0..L)
    BY Zenon
  <2> HIDE DEF T
  <2> QED BY Zenon, <1>5, <1>6, <2>1, UpTo
<1>8. L \in 0..L
  BY SMTT(30)
<1>9. \E x \in Digits(d) : v(x)[L] = m
  BY Zenon, <1>7, <1>8 DEF p
<1> QED
  BY Zenon, <1>9 DEF v, Value

\* Strides that are running products give every offset to some index.
LEMMA MixedRadix ==
  ASSUME NEW d, Len(d) \in Nat, \A i \in 1..Len(d) : d[i] \in Nat, Products(d)[Len(d)] > 0
  PROVE  {Value(d, x) : x \in Digits(d)} = 0..(Products(d)[Len(d)] - 1)
<1> DEFINE P == Products(d)[Len(d)]
           V == {Value(d, x) : x \in Digits(d)}
<1>1. P \in Nat /\ P > 0
  <2>1. Len(d) \in 0..Len(d)
    BY SMTT(30)
  <2> QED BY Zenon, <2>1, FactorsPositive
<1>2. \A x \in Digits(d) : Value(d, x) \in Nat /\ Value(d, x) < P
  BY Zenon, ValueBelow
<1>3. \A m \in Nat : m < P => \E x \in Digits(d) : Value(d, x) = m
  BY Zenon, ValueReaches
<1>4. \A m : m \in 0..(P - 1) <=> m \in Nat /\ m < P
  BY SMTT(30), <1>1
<1> HIDE DEF P
<1>5. \A m : m \in V <=> m \in 0..(P - 1)
  BY Zenon, <1>2, <1>3, <1>4
<1>6. V = 0..(P - 1)
  BY Zenon, <1>5
<1> QED
  BY Zenon, <1>6 DEF P

-----------------------------------------------------------------------------
(* Orders *)

\* What takes different places to different places takes some place to each.
LEMMA Onto ==
  ASSUME NEW n \in Nat, NEW q \in [1..n -> 1..n],
         \A i, j \in 1..n : i # j => q[i] # q[j]
  PROVE  \A k \in 1..n : \E i \in 1..n : q[i] = k
<1>1. q \in Injection(1..n, 1..n)
  BY SMTT(30) DEF Injection, IsInjective
<1>2. IsFiniteSet(1..n)
  <2>1. 1 \in Int /\ n \in Int
    BY SMTT(30)
  <2> QED BY Zenon, <2>1, FS_Interval
<1>3. q \in Surjection(1..n, 1..n)
  BY Zenon, <1>1, <1>2, FS_Injection
<1> QED
  BY Zenon, <1>3 DEF Surjection

\* It keeps the size of sets of places.
LEMMA SameSize ==
  ASSUME NEW n \in Nat, NEW q \in [1..n -> 1..n],
         \A i, j \in 1..n : i # j => q[i] # q[j], NEW B \in SUBSET (1..n)
  PROVE  Cardinality({j \in 1..n : q[j] \in B}) = Cardinality(B)
<1> DEFINE A == {j \in 1..n : q[j] \in B}
           f == [j \in A |-> q[j]]
<1>1. f \in [A -> B] /\ \A i, j \in A : f[i] = f[j] => i = j
  BY Zenon
<1>2. \A k \in B : \E j \in A : f[j] = k
  <2>1. \A k \in 1..n : \E j \in 1..n : q[j] = k
    BY Zenon, Onto
  <2> QED BY Zenon, <2>1
<1>3. IsFiniteSet(A)
  <2>1. 1 \in Int /\ n \in Int
    BY SMTT(30)
  <2>2. A \in SUBSET (1..n)
    BY Zenon
  <2> HIDE DEF A
  <2> QED BY Zenon, <2>1, <2>2, FS_Interval, FS_Subset
<1> HIDE DEF A, f
<1>4. f \in Bijection(A, B)
  <2>1. DOMAIN f = A
    BY Zenon, <1>1
  <2> QED BY Zenon, <1>1, <1>2, <2>1 DEF Bijection, Injection, Surjection, IsInjective
<1>5. ExistsBijection(A, B)
  BY Zenon, <1>4 DEF ExistsBijection
<1>6. Cardinality(B) = Cardinality(A)
  BY Zenon, <1>3, <1>5, FS_Bijection
<1> QED
  BY Zenon, <1>6 DEF A

\* A relation that puts the first n numbers in an order.
Orders(R, n) ==
  /\ \A i \in 1..n : <<i, i>> \notin R
  /\ \A i, j, k \in 1..n : <<i, j>> \in R /\ <<j, k>> \in R => <<i, k>> \in R
  /\ \A i, j \in 1..n : i # j => <<i, j>> \in R \/ <<j, i>> \in R

\* The place of i in that order.
Rank(R, n, i) == Cardinality({j \in 1..n : <<j, i>> \in R}) + 1

\* Every place is taken by one number, and the order of the places is that of the
\* relation.
Ranked(R, n) ==
  /\ \A i \in 1..n : Rank(R, n, i) \in 1..n
  /\ \A i, j \in 1..n : <<i, j>> \in R => Rank(R, n, i) < Rank(R, n, j)
  /\ \A i, j \in 1..n : i # j => Rank(R, n, i) # Rank(R, n, j)
  /\ \A k \in 1..n : \E i \in 1..n : Rank(R, n, i) = k

\* An order has such places.
LEMMA Ranks ==
  ASSUME NEW n \in Nat, NEW R, Orders(R, n)
  PROVE  Ranked(R, n)
<1> DEFINE Below(i) == {j \in 1..n : <<j, i>> \in R}
<1>1. 1 \in Int /\ n \in Int /\ IsFiniteSet(1..n) /\ Cardinality(1..n) = n
  <2>1. 1 \in Int /\ n \in Int
    BY SMTT(30)
  <2>2. IsFiniteSet(1..n) /\ Cardinality(1..n) = IF 1 > n THEN 0 ELSE n - 1 + 1
    BY Zenon, <2>1, FS_Interval
  <2> QED BY SMTT(30), <2>1, <2>2
<1>2. \A i \in 1..n : Below(i) \in SUBSET (1..n) /\ i \notin Below(i)
  BY Zenon DEF Orders
<1>3. \A i, j \in 1..n : <<i, j>> \in R => i \in Below(j) /\ Below(i) \in SUBSET Below(j)
  BY Zenon DEF Orders
<1>4. \A i \in 1..n : Rank(R, n, i) = Cardinality(Below(i)) + 1
  BY Zenon DEF Rank
<1> HIDE DEF Below
<1>5. ASSUME NEW A, NEW i, IsFiniteSet(A), i \in A, NEW B \in SUBSET A, i \notin B
      PROVE  IsFiniteSet(B) /\ Cardinality(B) \in Nat /\ Cardinality(A) \in Nat
             /\ Cardinality(B) < Cardinality(A)
  <2>1. IsFiniteSet(B) /\ Cardinality(B) <= Cardinality(A) /\ (Cardinality(A) = Cardinality(B) => A = B)
    BY Zenon, <1>5, FS_Subset
  <2>2. Cardinality(B) \in Nat /\ Cardinality(A) \in Nat
    BY Zenon, <1>5, <2>1, FS_CardinalityType
  <2>3. Cardinality(A) # Cardinality(B)
    BY Zenon, <1>5, <2>1
  <2> QED BY SMTT(30), <2>1, <2>2, <2>3
<1>6. \A i \in 1..n : IsFiniteSet(Below(i)) /\ Cardinality(Below(i)) \in Nat /\ Cardinality(Below(i)) < n
  <2>1. ASSUME NEW i \in 1..n
        PROVE  /\ IsFiniteSet(Below(i)) /\ Cardinality(Below(i)) \in Nat
               /\ Cardinality(Below(i)) < Cardinality(1..n)
    BY SMTT(30), <1>1, <1>2, <1>5
  <2> QED BY Zenon, <1>1, <2>1
<1>7. \A i \in 1..n : Rank(R, n, i) \in 1..n
  BY SMTT(30), <1>4, <1>6
<1>8. ASSUME NEW i \in 1..n, NEW j \in 1..n, <<i, j>> \in R
      PROVE  Rank(R, n, i) < Rank(R, n, j)
  <2>1. Cardinality(Below(i)) < Cardinality(Below(j))
    BY Zenon, <1>2, <1>3, <1>5, <1>6, <1>8
  <2> QED BY SMTT(30), <1>4, <1>6, <2>1
<1>9. ASSUME NEW i \in 1..n, NEW j \in 1..n, i # j
      PROVE  Rank(R, n, i) # Rank(R, n, j)
  <2>1. <<i, j>> \in R \/ <<j, i>> \in R
    BY Zenon, <1>9 DEF Orders
  <2>2. Rank(R, n, i) < Rank(R, n, j) \/ Rank(R, n, j) < Rank(R, n, i)
    BY Zenon, <1>8, <2>1
  <2> QED BY SMTT(30), <1>7, <2>2
<1>10. ASSUME NEW k \in 1..n PROVE \E i \in 1..n : Rank(R, n, i) = k
  <2> DEFINE q == [i \in 1..n |-> Rank(R, n, i)]
  <2>1. q \in [1..n -> 1..n] /\ \A i, j \in 1..n : i # j => q[i] # q[j]
    BY Zenon, <1>7, <1>9
  <2>2. \A i \in 1..n : q[i] = Rank(R, n, i)
    BY Zenon
  <2> HIDE DEF q
  <2>3. \E i \in 1..n : q[i] = k
    BY Zenon, <2>1, Onto
  <2> QED BY Zenon, <2>2, <2>3
<1> QED
  BY Zenon, <1>7, <1>8, <1>9, <1>10 DEF Ranked

-----------------------------------------------------------------------------
(* Costs and admission *)

\* A time on the wire is a u64 and does not fall when a payload grows.
LEMMA TransferGrows ==
  ASSUME NEW n \in Nat, NEW w \in Nat
  PROVE  /\ TransferNs(n, w) \in 0..Top
         /\ TransferNs(n, w) <= TransferNs(n + 1, w)
<1>1. Top \in Nat /\ Second \in Nat
  BY SMTT(30), PolicyAssumption
<1>2. CASE w = 0
  BY SMTT(30), <1>1, <1>2 DEF TransferNs
<1>3. CASE w # 0
  <2> DEFINE x == n * Second
             y == (n + 1) * Second
  <2>1. x \in Nat /\ y \in Nat /\ x <= y
    BY SMTT(30), <1>1, Multiples
  <2> HIDE DEF x, y
  <2>2. x \div w \in Nat /\ y \div w \in Nat /\ x \div w <= y \div w
    BY SMTT(30), <1>3, <2>1, Quotient, QuotientMonotone
  <2>3. Least(x \div w, Top) \in 0..Top /\ Least(x \div w, Top) <= Least(y \div w, Top)
    BY SMTT(30), <1>1, <2>2 DEF Least
  <2>4. TransferNs(n, w) = Least(x \div w, Top) /\ TransferNs(n + 1, w) = Least(y \div w, Top)
    BY SMTT(30), <1>3 DEF TransferNs, x, y
  <2> QED BY ZenonT(40), <2>3, <2>4
<1> QED
  BY SMTT(30), <1>2, <1>3

\* A saturating sum keeps the order.
LEMMA SumGrows ==
  ASSUME NEW a \in Nat, NEW x \in Nat, NEW y \in Nat, x <= y
  PROVE  SatAdd(a, x) <= SatAdd(a, y)
BY SMTT(30), PolicyAssumption DEF SatAdd, Least

\* The bandwidth of a tier is a natural.
LEMMA Bandwidths ==
  ASSUME NEW c \in CostModel, NEW s, NEW d
  PROVE  /\ Least(c.read_bw[Kind(s)], c.write_bw[Kind(d)]) \in Nat
         /\ Least(c.read_bw["persistent"], c.write_bw[Kind(d)]) \in Nat
         /\ c.transfer_latency_ns \in Nat /\ c.restore_latency_ns \in Nat
<1>1. Top \in Nat
  BY SMTT(30), PolicyAssumption
<1>2. Kind(s) \in TierKind /\ Kind(d) \in TierKind /\ "persistent" \in TierKind
  BY DEF Kind, TierKind
<1>3. /\ c.read_bw \in [TierKind -> 0..Top] /\ c.write_bw \in [TierKind -> 0..Top]
      /\ c.transfer_latency_ns \in 0..Top /\ c.restore_latency_ns \in 0..Top
  BY DEF CostModel
<1>4. /\ c.read_bw[Kind(s)] \in 0..Top /\ c.write_bw[Kind(d)] \in 0..Top
      /\ c.read_bw["persistent"] \in 0..Top
  BY SMTT(30), <1>2, <1>3
<1> QED
  BY SMTT(30), <1>1, <1>3, <1>4 DEF Least

\* The cost of recomputing is at least its fixed part and at least what the rate
\* gives, up to saturation, and does not fall when a payload grows.
LEMMA ReconstructGrows ==
  ASSUME NEW c \in CostModel, NEW n \in Nat
  PROVE  /\ ReconstructCost(c, n) \in Nat
         /\ c.recompute_base_ns <= ReconstructCost(c, n)
         /\ Least(n * c.recompute_ns_per_byte, Top) <= ReconstructCost(c, n)
         /\ ReconstructCost(c, n) <= ReconstructCost(c, n + 1)
<1> DEFINE a == c.recompute_base_ns
           x == n * c.recompute_ns_per_byte
           y == (n + 1) * c.recompute_ns_per_byte
<1>1. Top \in Nat /\ a \in 0..Top /\ c.recompute_ns_per_byte \in Nat
  BY SMTT(30), PolicyAssumption DEF CostModel
<1>2. x \in Nat /\ y \in Nat /\ x <= y
  BY SMTT(30), <1>1, Multiples
<1>3. ReconstructCost(c, n) = SatAdd(a, Least(x, Top))
      /\ ReconstructCost(c, n + 1) = SatAdd(a, Least(y, Top))
  BY DEF ReconstructCost
<1> HIDE DEF a, x, y
<1>4. /\ SatAdd(a, Least(x, Top)) \in Nat
      /\ a <= SatAdd(a, Least(x, Top))
      /\ Least(x, Top) <= SatAdd(a, Least(x, Top))
      /\ SatAdd(a, Least(x, Top)) <= SatAdd(a, Least(y, Top))
  BY SMTT(30), <1>1, <1>2 DEF SatAdd, Least
<1> QED
  BY ZenonT(40), <1>3, <1>4 DEF a, x

\* Where the criteria on values are no stricter than the cost model, the value
\* register computes meets them.
LEMMA ValueEnough ==
  ASSUME NEW c \in CostModel, NEW p \in AdmissionPolicy, NEW n \in Nat,
         p.min_reuse_value_ns <= c.recompute_base_ns,
         p.min_reconstruction_cost_ns <= c.recompute_base_ns,
         p.value_per_byte_ns <= c.recompute_ns_per_byte
  PROVE  /\ ReconstructCost(c, n) >= p.min_reuse_value_ns
         /\ ReconstructCost(c, n) >= p.min_reconstruction_cost_ns
         /\ ReconstructCost(c, n) >= RequiredValue(p, n)
<1> DEFINE r == ReconstructCost(c, n)
           v == p.value_per_byte_ns * n
           x == c.recompute_ns_per_byte * n
<1>1. /\ Top \in Nat /\ c.recompute_base_ns \in Nat /\ c.recompute_ns_per_byte \in Nat
      /\ p.min_reuse_value_ns \in Nat /\ p.min_reconstruction_cost_ns \in Nat
      /\ p.value_per_byte_ns \in Nat
  BY SMTT(30), PolicyAssumption DEF CostModel, AdmissionPolicy
<1>2. r \in Nat /\ c.recompute_base_ns <= r /\ Least(n * c.recompute_ns_per_byte, Top) <= r
  BY SMTT(30), ReconstructGrows
<1>3. v \in Nat /\ x \in Nat /\ v <= x
  BY SMTT(30), <1>1, Multiples
<1>4. n * p.value_per_byte_ns = v /\ n * c.recompute_ns_per_byte = x
  BY SMTT(30), <1>1
<1> HIDE DEF r, v, x
<1>5. Least(x, Top) \in Nat /\ Least(v, Top) \in Nat /\ Least(v, Top) <= Least(x, Top)
  BY SMTT(30), <1>1, <1>3 DEF Least
<1>6. RequiredValue(p, n) = Least(v, Top)
  BY SMTT(30), <1>4 DEF RequiredValue
<1>7. r >= p.min_reuse_value_ns /\ r >= p.min_reconstruction_cost_ns
  BY SMTT(30), <1>1, <1>2
<1>8. r >= Least(v, Top)
  BY SMTT(30), <1>2, <1>4, <1>5
<1> QED
  BY SMTT(30), <1>6, <1>7, <1>8 DEF r

-----------------------------------------------------------------------------
(* The planner *)

\* A nonempty set has an element of least rank.
LEMMA LeastOf ==
  ASSUME NEW C, C # {}, NEW f \in [C -> Nat]
  PROVE  \E c \in C : \A d \in C : f[c] <= f[d]
<1> DEFINE S == {f[c] : c \in C}
<1>1. S \in SUBSET Nat /\ S # {}
  BY SMTT(30)
<1>2. PICK n \in S : \A m \in S : n <= m
  <2> HIDE DEF S
  <2> QED BY Zenon, <1>1, LeastNat
<1>3. PICK c \in C : f[c] = n
  BY SMTT(30), <1>2
<1>4. \A d \in C : f[d] \in S
  BY SMTT(30)
<1> QED
  BY Zenon, <1>2, <1>3, <1>4

\* The order of the planner's stable sort.
Before(c, d) ==
  \/ c.plan.cost < d.plan.cost
  \/ /\ c.plan.cost = d.plan.cost
     /\ \/ Priority(c.plan.action) < Priority(d.plan.action)
        \/ Priority(c.plan.action) = Priority(d.plan.action) /\ c.at <= d.at

\* The planner takes a candidate that comes before all others.
LEMMA CheapestFirst ==
  ASSUME NEW C, C # {},
         \A c \in C : c.plan.cost \in Nat /\ Priority(c.plan.action) \in Nat /\ c.at \in Nat
  PROVE  \E c \in C : Cheapest(C) = c.plan /\ \A d \in C : Before(c, d)
<1> DEFINE f == [c \in C |-> c.plan.cost]
<1>1. PICK a \in C : \A d \in C : f[a] <= f[d]
  <2>1. f \in [C -> Nat]
    BY SMTT(30)
  <2> QED BY Zenon, <2>1, LeastOf
<1>2. \A d \in C : a.plan.cost <= d.plan.cost
  BY SMTT(30), <1>1
<1> DEFINE D == {d \in C : d.plan.cost = a.plan.cost}
           g == [d \in D |-> Priority(d.plan.action)]
<1>3. PICK b \in D : \A d \in D : g[b] <= g[d]
  <2>1. g \in [D -> Nat] /\ D # {}
    BY SMTT(30)
  <2> QED BY Zenon, <2>1, LeastOf
<1>4. b \in C /\ b.plan.cost = a.plan.cost
      /\ \A d \in D : Priority(b.plan.action) <= Priority(d.plan.action)
  BY SMTT(30), <1>3
<1> DEFINE F == {d \in D : Priority(d.plan.action) = Priority(b.plan.action)}
           h == [d \in F |-> d.at]
<1>5. PICK c \in F : \A d \in F : h[c] <= h[d]
  <2>1. h \in [F -> Nat] /\ F # {}
    BY SMTT(30)
  <2> QED BY Zenon, <2>1, LeastOf
<1>6. /\ c \in C /\ c.plan.cost = a.plan.cost
      /\ Priority(c.plan.action) = Priority(b.plan.action)
      /\ \A d \in F : c.at <= d.at
  BY SMTT(30), <1>5
<1>7. ASSUME NEW d \in C PROVE Before(c, d)
  <2>1. CASE d.plan.cost # a.plan.cost
    BY SMTT(30), <1>2, <1>6, <2>1 DEF Before
  <2>2. CASE d \in D /\ d \notin F
    BY SMTT(30), <1>4, <1>6, <2>2 DEF Before
  <2>3. CASE d \in F
    BY SMTT(30), <1>6, <2>3 DEF Before
  <2> QED BY Zenon, <2>1, <2>2, <2>3
<1> DEFINE best == CHOOSE x \in C : \A d \in C : Before(x, d)
<1>8. best \in C /\ \A d \in C : Before(best, d)
  BY Zenon, <1>6, <1>7
<1>9. Cheapest(C) = best.plan
  BY Zenon DEF Cheapest, Before
<1> QED
  BY Zenon, <1>8, <1>9

\* A restore reads the same bytes as a transfer from the persistent tier, so it
\* costs less only when it starts sooner.
LEMMA RestoreSooner ==
  ASSUME NEW cost \in CostModel, NEW bytes \in Nat, NEW dest,
         RestoreCost(cost, dest, bytes) < TransferCost(cost, "persistent", dest, bytes)
  PROVE  cost.restore_latency_ns < cost.transfer_latency_ns
<1> DEFINE w == Least(cost.read_bw["persistent"], cost.write_bw[Kind(dest)])
           x == TransferNs(bytes, w)
           a == cost.restore_latency_ns
           b == cost.transfer_latency_ns
<1>1. /\ RestoreCost(cost, dest, bytes) = SatAdd(a, x)
      /\ TransferCost(cost, "persistent", dest, bytes) = SatAdd(b, x)
  <2>1. Kind("persistent") = "persistent"
    BY SMTT(30) DEF Kind
  <2> QED BY Zenon, <2>1 DEF RestoreCost, TransferCost
<1>2. w \in Nat /\ a \in Nat /\ b \in Nat /\ Top \in Nat
  BY SMTT(30), Bandwidths, PolicyAssumption
<1>3. x \in 0..Top
  BY Zenon, <1>2, TransferGrows
<1> HIDE DEF x, a, b
<1>4. SatAdd(a, x) < SatAdd(b, x)
  BY Zenon, <1>1
<1>5. a < b
  BY SMTT(30), <1>2, <1>3, <1>4 DEF SatAdd, Least
<1> QED
  BY Zenon, <1>5 DEF a, b

\* Every cost is a natural number.
LEMMA CostsTyped ==
  ASSUME NEW cost \in CostModel, NEW bytes \in Nat, NEW src, NEW dest
  PROVE  /\ TransferCost(cost, src, dest, bytes) \in Nat
         /\ RestoreCost(cost, dest, bytes) \in Nat
         /\ ReconstructCost(cost, bytes) \in Nat
<1> DEFINE w == Least(cost.read_bw[Kind(src)], cost.write_bw[Kind(dest)])
           v == Least(cost.read_bw["persistent"], cost.write_bw[Kind(dest)])
           x == TransferNs(bytes, w)
           y == TransferNs(bytes, v)
<1>1. /\ w \in Nat /\ v \in Nat /\ Top \in Nat
      /\ cost.restore_latency_ns \in Nat /\ cost.transfer_latency_ns \in Nat
  BY SMTT(30), Bandwidths, PolicyAssumption
<1>2. x \in 0..Top /\ y \in 0..Top
  BY Zenon, <1>1, TransferGrows
<1>3. /\ RestoreCost(cost, dest, bytes) = SatAdd(cost.restore_latency_ns, y)
      /\ TransferCost(cost, src, dest, bytes) = SatAdd(cost.transfer_latency_ns, x)
  BY Zenon DEF RestoreCost, TransferCost
<1> HIDE DEF x, y
<1>4. RestoreCost(cost, dest, bytes) \in Nat /\ TransferCost(cost, src, dest, bytes) \in Nat
  BY SMTT(30), <1>1, <1>2, <1>3 DEF SatAdd, Least
<1> QED
  BY SMTT(30), <1>4, ReconstructGrows

\* What the planner decides when the tensor is not where it is needed.
LEMMA Decided ==
  ASSUME NEW cost \in CostModel, NEW bytes \in Nat, NEW dest, NEW p, Len(p) \in Nat,
         DOMAIN p = 1..Len(p), NEW r \in BOOLEAN, \A i \in 1..Len(p) : p[i] # dest
  PROVE  LET chosen == Decide(cost, bytes, dest, p, r)
             transfer(i) == TransferCost(cost, p[i], dest, bytes)
             persistent == \E i \in 1..Len(p) : p[i] = "persistent"
         IN  \/ /\ Len(p) = 0 /\ ~r
                /\ chosen = Plan("reject", dest, Top)
             \/ /\ \/ \E i \in 1..Len(p) : chosen = Plan("transfer", p[i], transfer(i))
                   \/ /\ chosen = Plan("restore", "persistent", RestoreCost(cost, dest, bytes))
                      /\ persistent /\ cost.restore_latency_ns < cost.transfer_latency_ns
                   \/ chosen = Plan("reconstruct", dest, ReconstructCost(cost, bytes)) /\ r
                /\ \A i \in 1..Len(p) : chosen.cost <= transfer(i)
                /\ persistent => chosen.cost <= RestoreCost(cost, dest, bytes)
                /\ r => chosen.cost <= ReconstructCost(cost, bytes)
<1> DEFINE C == Candidates(cost, bytes, dest, p, r)
           transfer(i) == [at |-> i, plan |-> Plan("transfer", p[i], TransferCost(cost, p[i], dest, bytes))]
           restore == [at |-> Len(p) + 1,
                       plan |-> Plan("restore", "persistent", RestoreCost(cost, dest, bytes))]
           recompute == [at |-> Len(p) + 2,
                         plan |-> Plan("reconstruct", dest, ReconstructCost(cost, bytes))]
<1>1. /\ \A c \in C : \/ \E i \in 1..Len(p) : c = transfer(i)
                      \/ c = restore /\ \E i \in 1..Len(p) : p[i] = "persistent"
                      \/ c = recompute /\ r
      /\ \A i \in 1..Len(p) : transfer(i) \in C
      /\ (\E i \in 1..Len(p) : p[i] = "persistent") => restore \in C
      /\ r => recompute \in C
  <2>1. \A t : Kind(t) = "persistent" <=> t = "persistent"
    BY SMTT(30) DEF Kind
  <2> QED BY SMTT(30), <2>1 DEF Candidates
<1>2. Decide(cost, bytes, dest, p, r) = IF C = {} THEN Plan("reject", dest, Top) ELSE Cheapest(C)
  <2>1. dest \notin {p[i] : i \in DOMAIN p}
    BY SMTT(30)
  <2> QED BY Zenon, <2>1 DEF Decide
<1> HIDE DEF C
<1>3. CASE C = {}
  <2>1. ~r /\ ~(\E i \in 1..Len(p) : TRUE)
    BY Zenon, <1>1, <1>3
  <2>2. Len(p) = 0
    BY SMTT(30), <2>1
  <2> QED BY Zenon, <1>2, <1>3, <2>1, <2>2
<1>4. CASE C # {}
  <2>1. /\ \A i \in 1..Len(p) : TransferCost(cost, p[i], dest, bytes) \in Nat
        /\ RestoreCost(cost, dest, bytes) \in Nat /\ ReconstructCost(cost, bytes) \in Nat
    BY Zenon, CostsTyped
  <2>2. Priority("transfer") = 1 /\ Priority("restore") = 2 /\ Priority("reconstruct") = 3
    BY SMTT(30) DEF Priority
  <2>3. /\ \A i \in 1..Len(p) : /\ transfer(i).at = i /\ transfer(i).plan.action = "transfer"
                                /\ transfer(i).plan.cost = TransferCost(cost, p[i], dest, bytes)
        /\ restore.at = Len(p) + 1 /\ restore.plan.action = "restore"
        /\ restore.plan.cost = RestoreCost(cost, dest, bytes)
        /\ recompute.at = Len(p) + 2 /\ recompute.plan.action = "reconstruct"
        /\ recompute.plan.cost = ReconstructCost(cost, bytes)
    BY SMTT(30) DEF Plan
  <2>4. ASSUME NEW c \in C
        PROVE  c.plan.cost \in Nat /\ Priority(c.plan.action) \in Nat /\ c.at \in Nat
    <3> HIDE DEF transfer, restore, recompute
    <3>1. \A i \in 1..Len(p) : i \in Nat
      BY SMTT(30)
    <3>2. Len(p) + 1 \in Nat /\ Len(p) + 2 \in Nat /\ 1 \in Nat /\ 2 \in Nat /\ 3 \in Nat
      BY SMTT(30)
    <3>3. CASE \E i \in 1..Len(p) : c = transfer(i)
      <4>1. PICK i \in 1..Len(p) : c = transfer(i)
        BY Zenon, <3>3
      <4>2. /\ c.at = i /\ c.plan.action = "transfer"
            /\ c.plan.cost = TransferCost(cost, p[i], dest, bytes)
        BY Zenon, <2>3, <4>1
      <4> QED BY Zenon, <2>1, <2>2, <3>1, <3>2, <4>2
    <3>4. CASE c = restore
      BY Zenon, <2>1, <2>2, <2>3, <3>2, <3>4
    <3>5. CASE c = recompute
      BY Zenon, <2>1, <2>2, <2>3, <3>2, <3>5
    <3> QED BY Zenon, <1>1, <3>3, <3>4, <3>5
  <2>5. PICK c \in C : Cheapest(C) = c.plan /\ \A d \in C : Before(c, d)
    BY Zenon, <1>4, <2>4, CheapestFirst
  <2>6. Decide(cost, bytes, dest, p, r) = c.plan
    BY Zenon, <1>2, <1>4, <2>5
  <2>7. \A d \in C : c.plan.cost <= d.plan.cost
    BY SMTT(30), <2>4, <2>5 DEF Before
  <2>8. /\ \A i \in 1..Len(p) : c.plan.cost <= TransferCost(cost, p[i], dest, bytes)
        /\ (\E i \in 1..Len(p) : p[i] = "persistent") => c.plan.cost <= RestoreCost(cost, dest, bytes)
        /\ r => c.plan.cost <= ReconstructCost(cost, bytes)
    <3> HIDE DEF transfer, restore, recompute
    <3> QED BY Zenon, <1>1, <2>3, <2>7
  <2>9. ASSUME c = restore, NEW i \in 1..Len(p), p[i] = "persistent"
        PROVE  cost.restore_latency_ns < cost.transfer_latency_ns
    <3>1. Before(restore, transfer(i))
      BY Zenon, <1>1, <2>5, <2>9
    <3> HIDE DEF transfer, restore, recompute
    <3>2. restore.plan.cost < transfer(i).plan.cost
      <4>1. Priority(restore.plan.action) = 2 /\ Priority(transfer(i).plan.action) = 1
        BY Zenon, <2>2, <2>3
      <4> QED BY SMTT(30), <3>1, <4>1 DEF Before
    <3>3. RestoreCost(cost, dest, bytes) < TransferCost(cost, "persistent", dest, bytes)
      BY Zenon, <2>3, <2>9, <3>2
    <3> QED BY Zenon, <3>3, RestoreSooner
  <2>10. \/ \E i \in 1..Len(p) : c.plan = Plan("transfer", p[i], TransferCost(cost, p[i], dest, bytes))
         \/ /\ c.plan = Plan("restore", "persistent", RestoreCost(cost, dest, bytes))
            /\ \E i \in 1..Len(p) : p[i] = "persistent"
            /\ cost.restore_latency_ns < cost.transfer_latency_ns
         \/ c.plan = Plan("reconstruct", dest, ReconstructCost(cost, bytes)) /\ r
    <3>1. CASE \E i \in 1..Len(p) : c = transfer(i)
      BY SMTT(30), <3>1
    <3>2. CASE c = restore /\ \E i \in 1..Len(p) : p[i] = "persistent"
      <4>1. c.plan = Plan("restore", "persistent", RestoreCost(cost, dest, bytes))
        BY SMTT(30), <3>2
      <4> QED BY Zenon, <2>9, <3>2, <4>1
    <3>3. CASE c = recompute /\ r
      BY SMTT(30), <3>3
    <3> QED BY Zenon, <1>1, <3>1, <3>2, <3>3
  <2> QED BY Zenon, <2>6, <2>8, <2>10
<1> QED
  BY Zenon, <1>3, <1>4

\* The planner's part of CheapestChosen.
PlannerChoice(cost, bytes, dest, tiers, r, chosen) ==
  LET costs == {TransferCost(cost, t, dest, bytes) : t \in tiers}
               \cup (IF "persistent" \in tiers THEN {RestoreCost(cost, dest, bytes)} ELSE {})
               \cup (IF r THEN {ReconstructCost(cost, bytes)} ELSE {})
  IN  IF dest \in tiers
        THEN chosen = Plan("reuse", dest, 0)
        ELSE /\ chosen.action = "reject" <=> costs = {}
             /\ costs # {} => chosen.cost \in costs /\ \A c \in costs : chosen.cost <= c
             /\ chosen.action = "restore" => cost.restore_latency_ns < cost.transfer_latency_ns

LEMMA PlannerCheapest ==
  ASSUME NEW cost \in CostModel, NEW bytes \in Nat, NEW dest, NEW p \in Seq(STRING),
         NEW r \in BOOLEAN
  PROVE  PlannerChoice(cost, bytes, dest, {p[i] : i \in DOMAIN p}, r,
                       Decide(cost, bytes, dest, p, r))
<1> DEFINE chosen == Decide(cost, bytes, dest, p, r)
           tiers == {p[i] : i \in DOMAIN p}
           costs == {TransferCost(cost, t, dest, bytes) : t \in tiers}
                    \cup (IF "persistent" \in tiers THEN {RestoreCost(cost, dest, bytes)} ELSE {})
                    \cup (IF r THEN {ReconstructCost(cost, bytes)} ELSE {})
           transfer(i) == TransferCost(cost, p[i], dest, bytes)
           restore == RestoreCost(cost, dest, bytes)
           recompute == ReconstructCost(cost, bytes)
           persistent == \E i \in 1..Len(p) : p[i] = "persistent"
<1>1. Len(p) \in Nat /\ DOMAIN p = 1..Len(p)
  BY SMTT(30)
<1>2. CASE dest \in tiers
  BY Zenon, <1>2 DEF Decide, PlannerChoice
<1>3. CASE dest \notin tiers
  <2>1. \A i \in 1..Len(p) : p[i] # dest
    BY SMTT(30), <1>1, <1>3
  <2>2. /\ \A c \in costs : \/ \E i \in 1..Len(p) : c = transfer(i)
                            \/ persistent /\ c = restore
                            \/ r /\ c = recompute
        /\ \A i \in 1..Len(p) : transfer(i) \in costs
        /\ persistent => restore \in costs
        /\ r => recompute \in costs
    BY SMTT(30), <1>1
  <2>3. \/ /\ Len(p) = 0 /\ ~r
           /\ chosen = Plan("reject", dest, Top)
        \/ /\ \/ \E i \in 1..Len(p) : chosen = Plan("transfer", p[i], transfer(i))
              \/ /\ chosen = Plan("restore", "persistent", restore)
                 /\ persistent /\ cost.restore_latency_ns < cost.transfer_latency_ns
              \/ chosen = Plan("reconstruct", dest, recompute) /\ r
           /\ \A i \in 1..Len(p) : chosen.cost <= transfer(i)
           /\ persistent => chosen.cost <= restore
           /\ r => chosen.cost <= recompute
    BY Zenon, <1>1, <2>1, Decided
  <2> HIDE DEF chosen, tiers, costs, transfer, restore, recompute
  <2>4. CASE Len(p) = 0 /\ ~r /\ chosen = Plan("reject", dest, Top)
    <3>1. costs = {}
      BY SMTT(30), <2>2, <2>4
    <3>2. chosen.action = "reject"
      BY SMTT(30), <2>4 DEF Plan
    <3>3. "reject" # "restore"
      OBVIOUS
    <3> QED BY Zenon, <1>3, <3>1, <3>2, <3>3
            DEF PlannerChoice, chosen, tiers, costs, transfer, restore, recompute
  <2>5. CASE /\ \/ \E i \in 1..Len(p) : chosen = Plan("transfer", p[i], transfer(i))
                \/ /\ chosen = Plan("restore", "persistent", restore)
                   /\ persistent /\ cost.restore_latency_ns < cost.transfer_latency_ns
                \/ chosen = Plan("reconstruct", dest, recompute) /\ r
             /\ \A i \in 1..Len(p) : chosen.cost <= transfer(i)
             /\ persistent => chosen.cost <= restore
             /\ r => chosen.cost <= recompute
    <3>1. /\ chosen.cost \in costs /\ chosen.action # "reject"
          /\ chosen.action = "restore" => cost.restore_latency_ns < cost.transfer_latency_ns
      <4>1. CASE \E i \in 1..Len(p) : chosen = Plan("transfer", p[i], transfer(i))
        <5>1. PICK i \in 1..Len(p) : chosen = Plan("transfer", p[i], transfer(i))
          BY Zenon, <4>1
        <5>2. chosen.cost = transfer(i) /\ chosen.action = "transfer"
          BY SMTT(30), <5>1 DEF Plan
        <5>3. "transfer" # "reject" /\ "transfer" # "restore"
          OBVIOUS
        <5> QED BY Zenon, <2>2, <5>2, <5>3
      <4>2. CASE /\ chosen = Plan("restore", "persistent", restore)
                 /\ persistent /\ cost.restore_latency_ns < cost.transfer_latency_ns
        <5>1. chosen.cost = restore /\ chosen.action = "restore" /\ "restore" # "reject"
          BY SMTT(30), <4>2 DEF Plan
        <5> QED BY Zenon, <2>2, <4>2, <5>1
      <4>3. CASE chosen = Plan("reconstruct", dest, recompute) /\ r
        <5>1. chosen.cost = recompute /\ chosen.action = "reconstruct"
          BY SMTT(30), <4>3 DEF Plan
        <5>2. "reconstruct" # "reject" /\ "reconstruct" # "restore"
          OBVIOUS
        <5> QED BY Zenon, <2>2, <4>3, <5>1, <5>2
      <4> QED BY Zenon, <2>5, <4>1, <4>2, <4>3
    <3>2. \A c \in costs : chosen.cost <= c
      BY Zenon, <2>2, <2>5
    <3> QED BY Zenon, <1>3, <3>1, <3>2 DEF PlannerChoice, chosen, tiers, costs, transfer, restore, recompute
  <2> QED BY Zenon, <2>3, <2>4, <2>5
<1> QED
  BY Zenon, <1>2, <1>3

\* The lookup's part of CheapestChosen.
LEMMA LookupSource ==
  ASSUME NEW cost \in CostModel, NEW bytes \in Nat, NEW p \in Seq(STRING \ {NoTier})
  PROVE  LET found == LookupPlan(cost, bytes, p)
             tiers == {p[i] : i \in DOMAIN p}
         IN  /\ found.source = NoTier <=> found.plan.action = "reject"
             /\ found.source # NoTier => {found.source, found.plan.tier} \subseteq tiers
             /\ "host" \in tiers <=> found.plan.action = "reuse"
<1> DEFINE found == LookupPlan(cost, bytes, p)
           tiers == {p[i] : i \in DOMAIN p}
           chosen == Decide(cost, bytes, "host", p, FALSE)
           accelerators == {i \in DOMAIN p : Kind(p[i]) = "accelerator"}
<1>1. Len(p) \in Nat /\ DOMAIN p = 1..Len(p) /\ \A i \in 1..Len(p) : p[i] # NoTier
  BY SMTT(30)
<1>a. NoTier # "host" /\ NoTier # "persistent"
  BY Zenon DEF NoTier
<1>2. found.source = PreferredTier(p) /\ found.plan = chosen
  BY SMTT(30) DEF LookupPlan
<1>3. /\ PreferredTier(p) = NoTier <=> Len(p) = 0
      /\ PreferredTier(p) # NoTier => PreferredTier(p) \in tiers
  <2>1. CASE accelerators # {}
    <3> DEFINE k == CHOOSE i \in accelerators : \A j \in accelerators : i <= j
    <3>1. accelerators \in SUBSET Nat
      BY SMTT(30), <1>1
    <3>2. k \in accelerators
      <4> HIDE DEF accelerators
      <4>1. \E i \in accelerators : \A j \in accelerators : i <= j
        BY Zenon, <2>1, <3>1, LeastNat
      <4> QED BY Zenon, <4>1
    <3>3. PreferredTier(p) = p[k]
      BY SMTT(30), <2>1 DEF PreferredTier
    <3> HIDE DEF k
    <3>4. k \in 1..Len(p)
      BY SMTT(30), <1>1, <3>2
    <3>5. Len(p) # 0 /\ p[k] # NoTier /\ p[k] \in tiers
      BY SMTT(30), <1>1, <3>4
    <3> QED BY Zenon, <3>3, <3>5
  <2>2. CASE accelerators = {}
    <3>1. \A i \in 1..Len(p) : p[i] = "host" \/ p[i] = "persistent"
      BY SMTT(30), <1>1, <2>2 DEF Kind
    <3>2. PreferredTier(p) = IF "host" \in tiers THEN "host"
                             ELSE IF "persistent" \in tiers THEN "persistent" ELSE NoTier
      BY SMTT(30), <2>2 DEF PreferredTier
    <3>3. CASE Len(p) = 0
      BY SMTT(30), <1>1, <1>a, <3>2, <3>3
    <3>4. CASE Len(p) # 0
      <4>1. 1 \in 1..Len(p)
        BY SMTT(30), <1>1, <3>4
      <4>2. "host" \in tiers \/ "persistent" \in tiers
        BY SMTT(30), <1>1, <3>1, <4>1
      <4> QED BY SMTT(30), <1>a, <3>2, <3>4, <4>2
    <3> QED BY Zenon, <3>3, <3>4
  <2> QED BY Zenon, <2>1, <2>2
<1>4. CASE "host" \in tiers
  <2>1. chosen = Plan("reuse", "host", 0)
    BY Zenon, <1>4 DEF Decide
  <2>2. chosen.action = "reuse" /\ chosen.tier = "host"
    <3> HIDE DEF chosen
    <3> QED BY SMTT(30), <2>1 DEF Plan
  <2>3. Len(p) # 0
    BY SMTT(30), <1>1, <1>4
  <2>4. "reuse" # "reject"
    OBVIOUS
  <2> HIDE DEF found, tiers, chosen
  <2>5. /\ found.source = NoTier <=> found.plan.action = "reject"
        /\ found.source # NoTier => {found.source, found.plan.tier} \subseteq tiers
        /\ "host" \in tiers <=> found.plan.action = "reuse"
    BY Zenon, <1>2, <1>3, <1>4, <2>2, <2>3, <2>4
  <2> QED BY Zenon, <2>5 DEF found, tiers
<1>5. CASE "host" \notin tiers
  <2>1. \A i \in 1..Len(p) : p[i] # "host" /\ p[i] \in tiers
    BY SMTT(30), <1>1, <1>5
  <2>2. \/ Len(p) = 0 /\ chosen = Plan("reject", "host", Top)
        \/ \E i \in 1..Len(p) :
             chosen = Plan("transfer", p[i], TransferCost(cost, p[i], "host", bytes))
        \/ /\ chosen = Plan("restore", "persistent", RestoreCost(cost, "host", bytes))
           /\ \E i \in 1..Len(p) : p[i] = "persistent"
    <3>1. ASSUME NEW r \in BOOLEAN, ~r
          PROVE  LET plan == Decide(cost, bytes, "host", p, r)
                 IN  \/ Len(p) = 0 /\ plan = Plan("reject", "host", Top)
                     \/ \E i \in 1..Len(p) :
                          plan = Plan("transfer", p[i], TransferCost(cost, p[i], "host", bytes))
                     \/ /\ plan = Plan("restore", "persistent", RestoreCost(cost, "host", bytes))
                        /\ \E i \in 1..Len(p) : p[i] = "persistent"
      <4> DEFINE plan == Decide(cost, bytes, "host", p, r)
                 transfer(i) == TransferCost(cost, p[i], "host", bytes)
                 restore == RestoreCost(cost, "host", bytes)
                 recompute == ReconstructCost(cost, bytes)
                 persistent == \E i \in 1..Len(p) : p[i] = "persistent"
      <4>1. \/ /\ Len(p) = 0 /\ ~r
               /\ plan = Plan("reject", "host", Top)
            \/ /\ \/ \E i \in 1..Len(p) : plan = Plan("transfer", p[i], transfer(i))
                  \/ /\ plan = Plan("restore", "persistent", restore)
                     /\ persistent /\ cost.restore_latency_ns < cost.transfer_latency_ns
                  \/ plan = Plan("reconstruct", "host", recompute) /\ r
               /\ \A i \in 1..Len(p) : plan.cost <= transfer(i)
               /\ persistent => plan.cost <= restore
               /\ r => plan.cost <= recompute
        BY Zenon, <1>1, <2>1, Decided
      <4> QED BY Zenon, <3>1, <4>1
    <3> QED BY Zenon, <3>1
  <2>3. \/ Len(p) = 0 /\ chosen.action = "reject"
        \/ Len(p) # 0 /\ chosen.action \in {"transfer", "restore"} /\ chosen.tier \in tiers
    <3>1. CASE Len(p) = 0 /\ chosen = Plan("reject", "host", Top)
      <4> HIDE DEF tiers, chosen
      <4> QED BY SMTT(30), <3>1 DEF Plan
    <3>2. ASSUME NEW i \in 1..Len(p),
                 chosen = Plan("transfer", p[i], TransferCost(cost, p[i], "host", bytes))
          PROVE  Len(p) # 0 /\ chosen.action = "transfer" /\ chosen.tier \in tiers
      <4> HIDE DEF tiers, chosen
      <4>1. Len(p) # 0
        BY SMTT(30)
      <4>2. chosen.action = "transfer" /\ chosen.tier = p[i]
        BY SMTT(30), <3>2 DEF Plan
      <4> QED BY Zenon, <2>1, <4>1, <4>2
    <3>3. ASSUME NEW i \in 1..Len(p), p[i] = "persistent",
                 chosen = Plan("restore", "persistent", RestoreCost(cost, "host", bytes))
          PROVE  Len(p) # 0 /\ chosen.action = "restore" /\ chosen.tier \in tiers
      <4> HIDE DEF tiers, chosen
      <4>1. Len(p) # 0
        BY SMTT(30)
      <4>2. chosen.action = "restore" /\ chosen.tier = p[i]
        BY SMTT(30), <3>3 DEF Plan
      <4> QED BY Zenon, <2>1, <4>1, <4>2
    <3> QED BY Zenon, <2>2, <3>1, <3>2, <3>3
  <2>4. \A a \in {"transfer", "restore"} : a # "reject" /\ a # "reuse"
    BY SMTT(30)
  <2>5. "reject" # "reuse"
    OBVIOUS
  <2> HIDE DEF found, tiers, chosen
  <2>6. /\ found.source = NoTier <=> found.plan.action = "reject"
        /\ found.source # NoTier => {found.source, found.plan.tier} \subseteq tiers
        /\ "host" \in tiers <=> found.plan.action = "reuse"
    BY Zenon, <1>2, <1>3, <1>5, <2>3, <2>4, <2>5
  <2> QED BY Zenon, <2>6 DEF found, tiers
<1> QED
  BY Zenon, <1>4, <1>5

-----------------------------------------------------------------------------
(* Eviction *)

\* A sum within the range of an i64 does not wrap around.
LEMMA WrapExact ==
  /\ MaxSigned \in Nat /\ Top \in Nat
  /\ \A n \in Int : WrapSigned(n) \in Int
  /\ \A n \in Int : -MaxSigned <= n /\ n <= MaxSigned => WrapSigned(n) = n
<1> DEFINE M == MaxSigned
           w == Top + 1
<1>1. Top \in Nat /\ M \in Nat /\ 2 * M <= Top
  BY SMTT(30), PolicyAssumption DEF MaxSigned
<1>2. \A n : WrapSigned(n) = IF n % w > M THEN (n % w) - w ELSE n % w
  BY Zenon DEF WrapSigned, Signed
<1> HIDE DEF M
<1>3. \A n \in Int : n % w \in Int
  BY SMTT(30), <1>1
<1>4. \A n \in Int : 0 <= n /\ n <= M => n % w = n
  BY SMTT(30), <1>1
<1>5. \A n \in Int : -M <= n /\ n < 0 => n % w = n + w
  BY SMTT(30), <1>1
<1>6. ASSUME NEW n \in Int PROVE WrapSigned(n) \in Int
  BY SMTT(30), <1>1, <1>2, <1>3
<1>7. ASSUME NEW n \in Int, -M <= n, n <= M PROVE WrapSigned(n) = n
  <2>1. CASE 0 <= n
    <3>1. n % w = n
      BY Zenon, <1>4, <1>7, <2>1
    <3> QED BY SMTT(30), <1>1, <1>2, <1>7, <3>1
  <2>2. CASE n < 0
    <3>1. n % w = n + w
      BY Zenon, <1>5, <1>7, <2>2
    <3>2. \A r \in Int : r = n + w => r > M /\ r - w = n
      BY SMTT(30), <1>1, <1>7
    <3> HIDE DEF w
    <3>3. n % w > M /\ (n % w) - w = n
      BY Zenon, <1>3, <3>1, <3>2
    <3> QED BY Zenon, <1>2, <3>3
  <2> QED BY SMTT(30), <2>1, <2>2
<1> QED
  BY Zenon, <1>1, <1>6, <1>7 DEF M

\* A weighted term is a number, and the product where that fits.
LEMMA WeightedExact ==
  /\ \A n \in Int, w \in 0..Top : Weighted(n, w) \in Int
  /\ \A n, w \in Nat : w <= MaxSigned /\ n * w <= MaxSigned => Weighted(n, w) = n * w
  /\ \A n \in 0..Top : Signed(n) \in Int /\ SizeUnits(n) \in Int
  /\ \A n \in 0..MaxSigned : Signed(n) = n /\ SizeUnits(n) = n \div SizeUnit
<1> DEFINE M == MaxSigned
<1>1. Top \in Nat /\ M \in Nat /\ SizeUnit \in Nat \ {0}
  BY Zenon, WrapExact, PolicyAssumption
<1>2. MinSigned = -M - 1
  BY Zenon DEF MinSigned
<1>3. /\ \A n \in 0..Top : Signed(n) \in Int
      /\ \A n \in Nat : n <= M => Signed(n) = n
  <2>1. \A n : Signed(n) = IF n > M THEN n - (Top + 1) ELSE n
    BY Zenon DEF Signed
  <2> HIDE DEF M
  <2> QED BY SMTT(30), <1>1, <2>1
<1>4. /\ \A n \in Int : SatSigned(n) \in Int
      /\ \A n \in Nat : n <= M => SatSigned(n) = n
  <2>1. \A n : SatSigned(n) = IF n > M THEN M ELSE IF n < -M - 1 THEN -M - 1 ELSE n
    BY Zenon, <1>2 DEF SatSigned
  <2> HIDE DEF M
  <2> QED BY SMTT(30), <1>1, <2>1
<1>5. \A n, w : Weighted(n, w) = SatSigned(n * Signed(w))
  BY Zenon DEF Weighted
<1>6. /\ \A n, w \in Int : n * w \in Int
      /\ \A n, w \in Nat : n * w \in Nat
  BY SMTT(30)
<1>7. ASSUME NEW n \in Int, NEW w \in 0..Top PROVE Weighted(n, w) \in Int
  BY Zenon, <1>3, <1>4, <1>5, <1>6
<1>8. ASSUME NEW n \in Nat, NEW w \in Nat, w <= M, n * w <= M PROVE Weighted(n, w) = n * w
  <2>1. Signed(w) = w
    BY Zenon, <1>3, <1>8
  <2> QED BY Zenon, <1>4, <1>5, <1>6, <1>8, <2>1
<1>9. \A n : SizeUnits(n) = IF Signed(n) < 0 THEN -((-Signed(n)) \div SizeUnit) ELSE Signed(n) \div SizeUnit
  BY Zenon DEF SizeUnits
<1>10. \A n \in 0..Top : SizeUnits(n) \in Int
  <2>1. \A s \in Int : s \div SizeUnit \in Int /\ -(s \div SizeUnit) \in Int /\ -s \in Int
    BY SMTT(30), <1>1
  <2> QED BY Zenon, <1>3, <1>9, <2>1
<1>11. ASSUME NEW n \in 0..M PROVE Signed(n) = n /\ SizeUnits(n) = n \div SizeUnit
  <2>1. n \in Nat /\ n <= M /\ ~(n < 0)
    BY SMTT(30), <1>1
  <2>2. Signed(n) = n
    BY Zenon, <1>3, <2>1
  <2> QED BY Zenon, <1>9, <2>1, <2>2
<1> QED
  BY Zenon, <1>3, <1>7, <1>8, <1>10, <1>11 DEF M

\* The score of an entry as an integer.
ExactScore(policy, e) ==
  e.reuse_count * policy.reuse_weight + e.reconstruction_cost_ns * policy.reconstruct_weight
  - e.age_seconds * policy.age_weight - (e.bytes \div SizeUnit) * policy.size_weight
  + (IF e.durable THEN policy.durable_bonus ELSE 0) + e.priority * policy.priority_weight

\* A score is a number, and where it fits the exact one.
LEMMA Scores ==
  ASSUME NEW policy \in EvictionPolicy, NEW e \in Evictable
  PROVE  /\ KeepScore(policy, e) \in Int
         /\ Fits(policy, e) => KeepScore(policy, e) = ExactScore(policy, e)
<1> DEFINE a == Weighted(Signed(e.reuse_count), policy.reuse_weight)
           b == Weighted(Signed(e.reconstruction_cost_ns), policy.reconstruct_weight)
           c == Weighted(Signed(e.age_seconds), policy.age_weight)
           d == Weighted(SizeUnits(e.bytes), policy.size_weight)
           f == IF e.durable THEN Signed(policy.durable_bonus) ELSE 0
           g == Weighted(e.priority, policy.priority_weight)
<1>1. KeepScore(policy, e) =
        WrapSigned(WrapSigned(WrapSigned(WrapSigned(WrapSigned(a + b) + (-c)) + (-d)) + f) + g)
  BY Zenon DEF KeepScore
<1>2. /\ policy.reuse_weight \in 0..Top /\ policy.reconstruct_weight \in 0..Top
      /\ policy.age_weight \in 0..Top /\ policy.size_weight \in 0..Top
      /\ policy.durable_bonus \in 0..Top /\ policy.priority_weight \in 0..Top
  BY SMTT(30) DEF EvictionPolicy
<1>3. /\ e.bytes \in 0..Top /\ e.reuse_count \in 0..Top /\ e.age_seconds \in 0..Top
      /\ e.reconstruction_cost_ns \in 0..Top /\ e.priority \in 0..Top /\ e.durable \in BOOLEAN
  BY SMTT(30) DEF Evictable
<1>4. Top \in Nat /\ MaxSigned \in Nat /\ \A n \in 0..Top : n \in Int /\ n \in Nat
  <2>1. Top \in Nat
    BY Zenon, WrapExact
  <2> QED BY SMTT(30), <2>1, WrapExact
<1>5. a \in Int /\ b \in Int /\ c \in Int /\ d \in Int /\ f \in Int /\ g \in Int
  <2>1. 0 \in Int
    OBVIOUS
  <2> QED BY Zenon, <1>2, <1>3, <1>4, <2>1, WeightedExact
<1>6. ASSUME Fits(policy, e)
      PROVE  LET A == e.reuse_count * policy.reuse_weight
                 B == e.reconstruction_cost_ns * policy.reconstruct_weight
                 C == e.age_seconds * policy.age_weight
                 D == (e.bytes \div SizeUnit) * policy.size_weight
                 F == IF e.durable THEN policy.durable_bonus ELSE 0
                 G == e.priority * policy.priority_weight
             IN  /\ A \in Nat /\ B \in Nat /\ C \in Nat /\ D \in Nat /\ F \in Nat /\ G \in Nat
                 /\ A + B + C + D + F + G <= MaxSigned
                 /\ a = A /\ b = B /\ c = C /\ d = D /\ f = F /\ g = G
                 /\ ExactScore(policy, e) = A + B - C - D + F + G
  <2> DEFINE A == e.reuse_count * policy.reuse_weight
             B == e.reconstruction_cost_ns * policy.reconstruct_weight
             C == e.age_seconds * policy.age_weight
             D == (e.bytes \div SizeUnit) * policy.size_weight
             F == IF e.durable THEN policy.durable_bonus ELSE 0
             G == e.priority * policy.priority_weight
  <2>1. /\ policy.reuse_weight \in 0..MaxSigned /\ policy.reconstruct_weight \in 0..MaxSigned
        /\ policy.age_weight \in 0..MaxSigned /\ policy.size_weight \in 0..MaxSigned
        /\ policy.durable_bonus \in 0..MaxSigned /\ policy.priority_weight \in 0..MaxSigned
        /\ e.bytes \in 0..MaxSigned /\ e.reuse_count \in 0..MaxSigned
        /\ e.age_seconds \in 0..MaxSigned /\ e.reconstruction_cost_ns \in 0..MaxSigned
    BY Zenon, <1>6 DEF Fits
  <2>2. A + B + C + D + F + G <= MaxSigned
    BY Zenon, <1>6 DEF Fits
  <2>3. \A n \in 0..MaxSigned : n \in Nat /\ n <= MaxSigned
    BY SMTT(30), <1>4
  <2>4. e.bytes \div SizeUnit \in Nat
    BY Zenon, <2>1, <2>3, PolicyAssumption, Quotient
  <2>5. \A m, n \in Nat : m * n \in Nat
    BY SMTT(30)
  <2>6. A \in Nat /\ B \in Nat /\ C \in Nat /\ D \in Nat /\ F \in Nat /\ G \in Nat
    <3>1. 0 \in Nat
      OBVIOUS
    <3> QED BY Zenon, <1>3, <1>4, <2>1, <2>3, <2>4, <2>5, <3>1
  <2>7. ExactScore(policy, e) = A + B - C - D + F + G
    BY Zenon DEF ExactScore
  <2>8. f = F
    BY Zenon, <2>1, WeightedExact
  <2> HIDE DEF A, B, C, D, F, G
  <2>9. A <= MaxSigned /\ B <= MaxSigned /\ C <= MaxSigned /\ D <= MaxSigned /\ G <= MaxSigned
    BY SMTT(30), <1>4, <2>2, <2>6
  <2>10. a = A /\ b = B /\ c = C
    BY Zenon, <2>1, <2>3, <2>9, WeightedExact DEF A, B, C
  <2>11. d = D /\ g = G
    BY Zenon, <1>3, <1>4, <2>1, <2>3, <2>4, <2>9, WeightedExact DEF D, G
  <2> QED BY Zenon, <2>2, <2>6, <2>7, <2>8, <2>10, <2>11 DEF A, B, C, D, F, G
<1> HIDE DEF a, b, c, d, f, g
<1>7. KeepScore(policy, e) \in Int
  <2>1. \A m, n \in Int : m + n \in Int /\ -n \in Int
    BY SMTT(30)
  <2> QED BY Zenon, <1>1, <1>5, <2>1, WrapExact
<1>8. ASSUME Fits(policy, e) PROVE KeepScore(policy, e) = ExactScore(policy, e)
  <2>1. /\ a \in Nat /\ b \in Nat /\ c \in Nat /\ d \in Nat /\ f \in Nat /\ g \in Nat
        /\ a + b + c + d + f + g <= MaxSigned
        /\ ExactScore(policy, e) = a + b - c - d + f + g
    BY Zenon, <1>6, <1>8
  <2> DEFINE M == MaxSigned
             s1 == a + b
             s2 == s1 + (-c)
             s3 == s2 + (-d)
             s4 == s3 + f
             s5 == s4 + g
  <2>2. /\ s1 \in Int /\ -M <= s1 /\ s1 <= M /\ s2 \in Int /\ -M <= s2 /\ s2 <= M
        /\ s3 \in Int /\ -M <= s3 /\ s3 <= M /\ s4 \in Int /\ -M <= s4 /\ s4 <= M
        /\ s5 \in Int /\ -M <= s5 /\ s5 <= M /\ s5 = a + b - c - d + f + g
    <3> HIDE DEF M
    <3>1. M \in Nat /\ a + b + c + d + f + g <= M
      BY Zenon, <1>4, <2>1 DEF M
    <3> QED BY SMTT(30), <2>1, <3>1
  <2> HIDE DEF s1, s2, s3, s4, s5
  <2>3. /\ WrapSigned(s1) = s1 /\ WrapSigned(s2) = s2 /\ WrapSigned(s3) = s3
        /\ WrapSigned(s4) = s4 /\ WrapSigned(s5) = s5
    BY Zenon, <2>2, WrapExact
  <2>4. KeepScore(policy, e) = s5
    BY Zenon, <1>1, <2>3 DEF s1, s2, s3, s4, s5
  <2> QED BY Zenon, <2>1, <2>2, <2>4
<1> QED
  BY Zenon, <1>7, <1>8

\* The pairs of entries of which the first is evicted before the second.
ColderPairs(policy, entries) ==
  {p \in (1..Len(entries)) \X (1..Len(entries)) : Colder(policy, entries[p[1]], entries[p[2]])}

\* The entries of a map have different ids.
Distinct(entries) ==
  \A i, j \in 1..Len(entries) : i # j => entries[i].object_id # entries[j].object_id

\* Eviction is in the order of the scores, then of the ids: every entry has its
\* place, and each place its entry.
LEMMA Places ==
  ASSUME NEW policy \in EvictionPolicy, NEW entries \in Seq(Evictable), Distinct(entries)
  PROVE  /\ \A i \in 1..Len(entries) : PlaceOf(policy, entries, i) \in 1..Len(entries)
         /\ \A i, j \in 1..Len(entries) : Colder(policy, entries[i], entries[j]) =>
              PlaceOf(policy, entries, i) < PlaceOf(policy, entries, j)
         /\ \A i, j \in 1..Len(entries) : i # j =>
              PlaceOf(policy, entries, i) # PlaceOf(policy, entries, j)
         /\ \A k \in 1..Len(entries) : \E i \in 1..Len(entries) : PlaceOf(policy, entries, i) = k
<1> DEFINE n == Len(entries)
           R == ColderPairs(policy, entries)
           score(i) == KeepScore(policy, entries[i])
           id(i) == entries[i].object_id
<1>1. n \in Nat /\ \A i \in 1..n : entries[i] \in Evictable
  BY SMTT(30)
<1>2. \A i \in 1..n : score(i) \in Int
  BY Zenon, <1>1, Scores
<1>3. \A i \in 1..n : id(i) \in Nat
  BY SMTT(30), <1>1 DEF Evictable
<1>4. \A i, j \in 1..n : i # j => id(i) # id(j)
  BY Zenon DEF Distinct
<1>5. \A i, j \in 1..n : <<i, j>> \in R <=> Colder(policy, entries[i], entries[j])
  <2>1. \A i, j \in 1..n : <<i, j>> \in (1..n) \X (1..n) /\ <<i, j>>[1] = i /\ <<i, j>>[2] = j
    BY SMTT(30)
  <2> HIDE DEF n
  <2>2. R = {p \in (1..n) \X (1..n) : Colder(policy, entries[p[1]], entries[p[2]])}
    BY Zenon DEF ColderPairs, n
  <2> HIDE DEF R
  <2> QED BY Zenon, <2>1, <2>2
<1>6. \A i, j : Colder(policy, entries[i], entries[j]) <=>
                  \/ score(i) < score(j)
                  \/ score(i) = score(j) /\ id(i) < id(j)
  BY Zenon DEF Colder
<1>7. \A i : PlaceOf(policy, entries, i)
               = Cardinality({j \in 1..n : Colder(policy, entries[j], entries[i])}) + 1
  BY Zenon DEF PlaceOf
<1> HIDE DEF n, R, score, id
<1>8. Orders(R, n)
  <2>1. \A i \in 1..n : <<i, i>> \notin R
    BY SMTT(30), <1>2, <1>3, <1>5, <1>6
  <2>2. \A i, j, k \in 1..n : <<i, j>> \in R /\ <<j, k>> \in R => <<i, k>> \in R
    BY SMTT(30), <1>2, <1>3, <1>5, <1>6
  <2>3. \A i, j \in 1..n : i # j => <<i, j>> \in R \/ <<j, i>> \in R
    BY SMTT(30), <1>2, <1>3, <1>4, <1>5, <1>6
  <2> QED BY Zenon, <2>1, <2>2, <2>3 DEF Orders
<1>9. ASSUME NEW i \in 1..n PROVE PlaceOf(policy, entries, i) = Rank(R, n, i)
  <2>1. {j \in 1..n : Colder(policy, entries[j], entries[i])} = {j \in 1..n : <<j, i>> \in R}
    BY Zenon, <1>5
  <2> QED BY Zenon, <1>7, <2>1 DEF Rank
<1>10. Ranked(R, n)
  BY Zenon, <1>1, <1>8, Ranks
<1>11. /\ \A i \in 1..n : PlaceOf(policy, entries, i) \in 1..n
       /\ \A k \in 1..n : \E i \in 1..n : PlaceOf(policy, entries, i) = k
  BY Zenon, <1>9, <1>10 DEF Ranked
<1>12. ASSUME NEW i \in 1..n, NEW j \in 1..n
       PROVE  /\ Colder(policy, entries[i], entries[j]) =>
                    PlaceOf(policy, entries, i) < PlaceOf(policy, entries, j)
              /\ i # j => PlaceOf(policy, entries, i) # PlaceOf(policy, entries, j)
  <2>1. /\ Colder(policy, entries[i], entries[j]) => Rank(R, n, i) < Rank(R, n, j)
        /\ i # j => Rank(R, n, i) # Rank(R, n, j)
    BY Zenon, <1>5, <1>10 DEF Ranked
  <2> QED BY Zenon, <1>9, <2>1
<1> QED
  BY Zenon, <1>11, <1>12 DEF n

\* The order holds every entry at its place.
LEMMA Ordered ==
  ASSUME NEW policy \in EvictionPolicy, NEW entries \in Seq(Evictable), Distinct(entries)
  PROVE  /\ EvictionOrder(policy, entries) \in Seq(Evictable)
         /\ Len(EvictionOrder(policy, entries)) = Len(entries)
         /\ \A i \in 1..Len(entries) :
              EvictionOrder(policy, entries)[PlaceOf(policy, entries, i)] = entries[i]
<1> DEFINE n == Len(entries)
           place(i) == PlaceOf(policy, entries, i)
           at(k) == CHOOSE i \in 1..n : place(i) = k
           order == EvictionOrder(policy, entries)
<1>1. n \in Nat /\ \A i \in 1..n : entries[i] \in Evictable
  BY SMTT(30)
<1>2. /\ \A i \in 1..n : place(i) \in 1..n
      /\ \A i, j \in 1..n : i # j => place(i) # place(j)
      /\ \A k \in 1..n : \E i \in 1..n : place(i) = k
  BY Zenon, Places
<1>3. order = [k \in 1..n |-> entries[at(k)]]
  BY Zenon DEF EvictionOrder
<1> HIDE DEF order, place, n
<1>4. \A k \in 1..n : at(k) \in 1..n /\ place(at(k)) = k
  BY Zenon, <1>2
<1> HIDE DEF at
<1>5. order \in [1..n -> Evictable] /\ \A k \in 1..n : order[k] = entries[at(k)]
  BY Zenon, <1>1, <1>3, <1>4
<1>6. order \in Seq(Evictable) /\ Len(order) = n
  BY SMTT(30), <1>1, <1>5
<1>7. ASSUME NEW i \in 1..n PROVE order[place(i)] = entries[i]
  <2>1. place(i) \in 1..n
    BY Zenon, <1>2
  <2>2. at(place(i)) = i
    BY Zenon, <1>2, <1>4, <2>1
  <2> QED BY Zenon, <1>5, <2>1, <2>2
<1> QED
  BY Zenon, <1>6, <1>7 DEF order, place, n

\* The order does not depend on how the entries are listed.
LEMMA OrderIndependent ==
  ASSUME NEW policy \in EvictionPolicy, NEW entries \in Seq(Evictable), Distinct(entries),
         NEW q \in [1..Len(entries) -> 1..Len(entries)],
         \A i, j \in 1..Len(entries) : i # j => q[i] # q[j]
  PROVE  EvictionOrder(policy, [i \in 1..Len(entries) |-> entries[q[i]]])
           = EvictionOrder(policy, entries)
<1> DEFINE n == Len(entries)
           other == [i \in 1..n |-> entries[q[i]]]
           f == EvictionOrder(policy, entries)
           g == EvictionOrder(policy, other)
           place(i) == PlaceOf(policy, entries, i)
           moved(i) == PlaceOf(policy, other, i)
<1>1. n \in Nat /\ \A i \in 1..n : entries[i] \in Evictable
  BY SMTT(30)
<1>2. /\ f \in Seq(Evictable) /\ Len(f) = n
      /\ \A i \in 1..n : f[place(i)] = entries[i]
  BY Zenon, Ordered
<1>3. /\ q \in [1..n -> 1..n] /\ (\A i, j \in 1..n : i # j => q[i] # q[j])
      /\ \A i, j \in 1..n : i # j => entries[i].object_id # entries[j].object_id
  BY Zenon DEF Distinct
<1>4. \A i : place(i) = Cardinality({j \in 1..n : Colder(policy, entries[j], entries[i])}) + 1
  BY Zenon DEF PlaceOf
<1> HIDE DEF n, f, place
<1>5. /\ other \in [1..n -> Evictable]
      /\ \A i \in 1..n : other[i] = entries[q[i]] /\ q[i] \in 1..n
  BY Zenon, <1>1, <1>3
<1> HIDE DEF other
<1>6. other \in Seq(Evictable) /\ Len(other) = n /\ DOMAIN other = 1..n
  BY SMTT(30), <1>1, <1>5
<1>7. Distinct(other)
  <2>1. ASSUME NEW i \in 1..n, NEW j \in 1..n, i # j
        PROVE  other[i].object_id # other[j].object_id
    <3>1. q[i] \in 1..n /\ q[j] \in 1..n /\ q[i] # q[j]
      BY Zenon, <1>3, <1>5, <2>1
    <3>2. entries[q[i]].object_id # entries[q[j]].object_id
      BY Zenon, <1>3, <3>1
    <3>3. other[i] = entries[q[i]] /\ other[j] = entries[q[j]]
      BY Zenon, <1>5
    <3> QED BY Zenon, <3>2, <3>3
  <2> QED BY Zenon, <1>6, <2>1 DEF Distinct
<1>8. /\ g \in Seq(Evictable) /\ Len(g) = n
      /\ \A i \in 1..n : g[moved(i)] = other[i]
      /\ \A k \in 1..n : \E i \in 1..n : moved(i) = k
  <2>1. /\ g \in Seq(Evictable) /\ Len(g) = Len(other)
        /\ \A i \in 1..Len(other) : g[moved(i)] = other[i]
    BY Zenon, <1>6, <1>7, Ordered
  <2>2. \A k \in 1..Len(other) : \E i \in 1..Len(other) : moved(i) = k
    BY Zenon, <1>6, <1>7, Places
  <2> QED BY Zenon, <1>6, <2>1, <2>2
<1>9. ASSUME NEW i \in 1..n PROVE moved(i) = place(q[i])
  <2> DEFINE B == {j \in 1..n : Colder(policy, entries[j], entries[q[i]])}
  <2>1. moved(i) = Cardinality({j \in 1..n : Colder(policy, other[j], other[i])}) + 1
    BY Zenon, <1>6 DEF PlaceOf
  <2>2. {j \in 1..n : Colder(policy, other[j], other[i])} = {j \in 1..n : q[j] \in B}
    BY Zenon, <1>5
  <2>3. Cardinality({j \in 1..n : q[j] \in B}) = Cardinality(B)
    <3>1. B \in SUBSET (1..n)
      BY Zenon
    <3> HIDE DEF B
    <3> QED BY Zenon, <1>1, <1>3, <3>1, SameSize
  <2>4. place(q[i]) = Cardinality(B) + 1
    BY Zenon, <1>4
  <2> HIDE DEF B, moved
  <2> QED BY Zenon, <2>1, <2>2, <2>3, <2>4
<1> HIDE DEF g, moved
<1>10. ASSUME NEW k \in 1..n PROVE g[k] = f[k]
  <2>1. PICK i \in 1..n : moved(i) = k
    BY Zenon, <1>8
  <2>2. g[k] = entries[q[i]] /\ q[i] \in 1..n
    BY Zenon, <1>5, <1>8, <2>1
  <2>3. f[k] = entries[q[i]]
    BY Zenon, <1>2, <1>9, <2>1, <2>2
  <2> QED BY Zenon, <2>2, <2>3
<1>11. g = f
  BY SMTT(30), <1>2, <1>8, <1>10
<1> QED
  BY Zenon, <1>11 DEF f, g, other, n

\* The bytes of a list of entries.
LEMMA BytesList ==
  ASSUME NEW f \in Seq(Evictable)
  PROVE  LET b == [i \in DOMAIN f |-> f[i].bytes]
         IN  /\ Len(b) = Len(f) /\ Len(f) \in Nat
             /\ \A i \in 1..Len(f) : b[i] \in Nat /\ b[i] = f[i].bytes
<1> DEFINE b == [i \in DOMAIN f |-> f[i].bytes]
<1>1. Len(f) \in Nat /\ DOMAIN f = 1..Len(f) /\ \A i \in 1..Len(f) : f[i] \in Evictable
  BY SMTT(30)
<1>2. \A x \in Evictable : x.bytes \in Nat
  BY SMTT(30), PolicyAssumption DEF Evictable
<1>3. b = [i \in 1..Len(f) |-> f[i].bytes]
  BY SMTT(30), <1>1
<1> HIDE DEF b
<1>4. \A i \in 1..Len(f) : b[i] = f[i].bytes /\ b[i] \in Nat
  BY Zenon, <1>1, <1>2, <1>3
<1>5. b \in [1..Len(f) -> Nat]
  BY Zenon, <1>1, <1>2, <1>3
<1>6. Len(b) = Len(f)
  BY SMTT(30), <1>1, <1>5
<1> QED
  BY Zenon, <1>1, <1>4, <1>6 DEF b

\* The plan is the beginning of the order: it ends where enough is freed and not
\* sooner.
LEMMA PlanCut ==
  ASSUME NEW policy \in EvictionPolicy, NEW entries \in Seq(Evictable), Distinct(entries),
         NEW used \in Nat, NEW capacity \in Nat
  PROVE  LET plan == EvictionPlan(policy, entries, used, capacity)
             order == EvictionOrder(policy, entries)
         IN  /\ plan \in Seq(Evictable) /\ Len(plan) \in 0..Len(entries)
             /\ \A i \in 1..Len(plan) : plan[i] = order[i]
             /\ \A k \in 0..(Len(plan) - 1) : used - BytesOf(plan, k) > capacity
             /\ used - BytesOf(plan, Len(plan)) <= capacity \/ Len(plan) = Len(entries)
<1> DEFINE n == Len(entries)
           plan == EvictionPlan(policy, entries, used, capacity)
           order == EvictionOrder(policy, entries)
           need == IF used > capacity THEN used - capacity ELSE 0
           stop == {k \in 0..Len(order) : BytesOf(order, k) >= need}
           m == CHOOSE k \in stop : \A j \in stop : k <= j
<1>1. n \in Nat
  BY SMTT(30)
<1>2. order \in Seq(Evictable) /\ Len(order) = n
  BY Zenon, Ordered
<1>3. plan = IF stop = {} THEN order ELSE SubSeq(order, 1, m)
  BY Zenon DEF EvictionPlan
<1>4. need \in Nat /\ (\A b \in Nat : b >= need => used - b <= capacity)
      /\ \A b \in Nat : ~(b >= need) => used - b > capacity
  BY SMTT(30)
<1> HIDE DEF n, plan, order, need
<1>5. \A f \in Seq(Evictable) : \A k \in 0..Len(f) : BytesOf(f, k) \in Nat
  <2>1. ASSUME NEW f \in Seq(Evictable), NEW k \in 0..Len(f) PROVE BytesOf(f, k) \in Nat
    <3> DEFINE b == [i \in DOMAIN f |-> f[i].bytes]
    <3>1. Len(b) = Len(f) /\ Len(f) \in Nat /\ \A i \in 1..Len(f) : b[i] \in Nat
      BY Zenon, BytesList
    <3>2. BytesOf(f, k) = Totals(b)[k]
      BY Zenon DEF BytesOf
    <3> HIDE DEF b
    <3>3. Totals(b) \in [0..Len(b) -> Nat]
      <4>1. Len(b) \in Nat /\ \A i \in 1..Len(b) : b[i] \in Nat
        BY Zenon, <3>1
      <4> QED BY Zenon, <4>1, TotalsStep
    <3> QED BY Zenon, <3>1, <3>2, <3>3
  <2> QED BY Zenon, <2>1
<1>6. ASSUME NEW f \in Seq(Evictable), NEW g \in Seq(Evictable), Len(f) \in 0..Len(g),
             \A i \in 1..Len(f) : f[i] = g[i], NEW k \in 0..Len(f)
      PROVE  BytesOf(f, k) = BytesOf(g, k)
  <2> DEFINE b == [i \in DOMAIN f |-> f[i].bytes]
             c == [i \in DOMAIN g |-> g[i].bytes]
  <2>1. Len(b) = Len(f) /\ Len(f) \in Nat /\ \A i \in 1..Len(f) : b[i] \in Nat /\ b[i] = f[i].bytes
    BY Zenon, BytesList
  <2>2. Len(c) = Len(g) /\ Len(g) \in Nat /\ \A i \in 1..Len(g) : c[i] \in Nat /\ c[i] = g[i].bytes
    BY Zenon, BytesList
  <2>3. BytesOf(f, k) = Totals(b)[k] /\ BytesOf(g, k) = Totals(c)[k]
    BY Zenon DEF BytesOf
  <2> HIDE DEF b, c
  <2>4. k \in 0..Len(b) /\ k <= Len(c) /\ \A i \in 1..k : i \in 1..Len(f) /\ i \in 1..Len(g)
    BY SMTT(30), <1>6, <2>1, <2>2
  <2>5. \A i \in 1..k : b[i] = c[i]
    BY Zenon, <1>6, <2>1, <2>2, <2>4
  <2>6. Totals(b)[k] = Totals(c)[k]
    <3>1. /\ Len(b) \in Nat /\ \A i \in 1..Len(b) : b[i] \in Nat
          /\ Len(c) \in Nat /\ \A i \in 1..Len(c) : c[i] \in Nat
      BY Zenon, <2>1, <2>2
    <3> QED BY Zenon, <2>4, <2>5, <3>1, TotalsAgree
  <2> QED BY Zenon, <2>3, <2>6
<1>7. CASE stop = {}
  <2>1. plan = order
    BY Zenon, <1>3, <1>7
  <2>2. ASSUME NEW k \in 0..(n - 1) PROVE used - BytesOf(plan, k) > capacity
    <3>1. k \in 0..Len(order)
      BY SMTT(30), <1>1, <1>2
    <3>2. BytesOf(order, k) \in Nat /\ ~(BytesOf(order, k) >= need)
      BY Zenon, <1>2, <1>5, <1>7, <3>1
    <3> QED BY Zenon, <1>4, <2>1, <3>2
  <2>3. n \in 0..n
    BY SMTT(30), <1>1
  <2> QED BY Zenon, <1>2, <2>1, <2>2, <2>3 DEF n, plan, order
<1>8. CASE stop # {}
  <2>1. m \in stop /\ \A j \in stop : m <= j
    <3>1. stop \in SUBSET Nat
      BY SMTT(30), <1>1, <1>2
    <3> HIDE DEF stop
    <3>2. \E k \in stop : \A j \in stop : k <= j
      BY Zenon, <1>8, <3>1, LeastNat
    <3> QED BY Zenon, <3>2
  <2>2. m \in 0..n /\ BytesOf(order, m) >= need
    BY Zenon, <1>2, <2>1
  <2>3. plan = SubSeq(order, 1, m)
    BY Zenon, <1>3, <1>8
  <2>4. ASSUME NEW k \in 0..(m - 1) PROVE k \in 0..n /\ k \notin stop
    <3>1. k \in 0..n /\ k \in Nat /\ ~(m <= k)
      BY SMTT(30), <1>1, <2>2
    <3> QED BY Zenon, <2>1, <3>1
  <2> HIDE DEF m
  <2>5. plan \in Seq(Evictable) /\ Len(plan) = m /\ \A i \in 1..m : plan[i] = order[i]
    BY SMTT(30), <1>1, <1>2, <2>2, <2>3
  <2>6. \A k \in 0..m : BytesOf(plan, k) = BytesOf(order, k)
    <3>1. Len(plan) \in 0..Len(order) /\ \A i \in 1..Len(plan) : plan[i] = order[i]
      BY Zenon, <1>2, <2>2, <2>5
    <3> QED BY Zenon, <1>2, <1>6, <2>5, <3>1
  <2>7. ASSUME NEW k \in 0..(m - 1) PROVE used - BytesOf(plan, k) > capacity
    <3>1. k \in 0..m /\ k \in 0..Len(order)
      BY SMTT(30), <1>1, <1>2, <2>2
    <3>2. BytesOf(order, k) \in Nat /\ ~(BytesOf(order, k) >= need)
      BY Zenon, <1>2, <1>5, <2>4, <3>1
    <3>3. BytesOf(plan, k) = BytesOf(order, k)
      BY Zenon, <2>6, <3>1
    <3> QED BY Zenon, <1>4, <3>2, <3>3
  <2>8. used - BytesOf(plan, m) <= capacity
    <3>1. m \in 0..m /\ m \in 0..Len(order)
      BY SMTT(30), <1>1, <1>2, <2>2
    <3>2. BytesOf(order, m) \in Nat /\ BytesOf(plan, m) = BytesOf(order, m)
      BY Zenon, <1>2, <1>5, <2>6, <3>1
    <3> QED BY Zenon, <1>4, <2>2, <3>2
  <2> QED BY Zenon, <2>2, <2>5, <2>7, <2>8 DEF n, plan, order
<1> QED
  BY Zenon, <1>7, <1>8

\* EvictionMinimal for a plan.
PlanMinimal(policy, e, used, capacity, plan) ==
  LET freed(n) == BytesOf(plan, n)
      orders == {q \in [DOMAIN e -> DOMAIN e] : \A i, j \in DOMAIN q : i # j => q[i] # q[j]}
  IN  /\ \/ used - freed(Len(plan)) <= capacity
         \/ {plan[i] : i \in DOMAIN plan} = {e[i] : i \in DOMAIN e}
      /\ \A n \in 0..(Len(plan) - 1) : used - freed(n) > capacity
      /\ \A q \in orders :
           EvictionPlan(policy, [i \in DOMAIN q |-> e[q[i]]], used, capacity) = plan

\* What eviction_plan returns is minimal.
LEMMA PlansMinimal ==
  ASSUME NEW policy \in EvictionPolicy, NEW e \in Seq(Evictable), Distinct(e),
         NEW used \in Nat, NEW capacity \in Nat
  PROVE  PlanMinimal(policy, e, used, capacity, EvictionPlan(policy, e, used, capacity))
<1> DEFINE n == Len(e)
           plan == EvictionPlan(policy, e, used, capacity)
           order == EvictionOrder(policy, e)
           place(i) == PlaceOf(policy, e, i)
<1>1. /\ plan \in Seq(Evictable) /\ Len(plan) \in 0..n
      /\ \A i \in 1..Len(plan) : plan[i] = order[i]
      /\ \A k \in 0..(Len(plan) - 1) : used - BytesOf(plan, k) > capacity
      /\ used - BytesOf(plan, Len(plan)) <= capacity \/ Len(plan) = n
  BY Zenon, PlanCut
<1>2. \A i \in 1..n : order[place(i)] = e[i]
  BY Zenon, Ordered
<1>3. (\A i \in 1..n : place(i) \in 1..n) /\ \A k \in 1..n : \E i \in 1..n : place(i) = k
  BY Zenon, Places
<1>4. n \in Nat /\ DOMAIN e = 1..n
  BY SMTT(30)
<1>5. \A q \in [1..n -> 1..n] : (\A i, j \in 1..n : i # j => q[i] # q[j]) =>
        EvictionOrder(policy, [i \in 1..n |-> e[q[i]]]) = order
  BY Zenon, OrderIndependent
<1>6. \A f : EvictionOrder(policy, f) = order => EvictionPlan(policy, f, used, capacity) = plan
  <2> SUFFICES ASSUME NEW f, EvictionOrder(policy, f) = order
               PROVE  EvictionPlan(policy, f, used, capacity) = plan
    OBVIOUS
  <2>1. EvictionPlan(policy, f, used, capacity) = EvictionPlan(policy, e, used, capacity)
    BY SMTT(30) DEF EvictionPlan
  <2> QED BY Zenon, <2>1
<1> HIDE DEF n, plan, order, place
<1>7. ASSUME Len(plan) = n PROVE {plan[i] : i \in DOMAIN plan} = {e[i] : i \in DOMAIN e}
  <2>1. DOMAIN plan = 1..n /\ \A i \in 1..n : plan[i] = order[i]
    <3>1. DOMAIN plan = 1..Len(plan)
      BY SMTT(30), <1>1
    <3> QED BY Zenon, <1>1, <1>7, <3>1
  <2>2. \A i \in 1..n : \E k \in 1..n : plan[i] = e[k]
    BY ZenonT(40), <1>2, <1>3, <2>1
  <2>3. \A i \in 1..n : \E k \in 1..n : e[i] = plan[k]
    <3>1. ASSUME NEW i \in 1..n PROVE e[i] = plan[place(i)] /\ place(i) \in 1..n
      <4>1. place(i) \in 1..n /\ order[place(i)] = e[i]
        BY Zenon, <1>2, <1>3
      <4>2. plan[place(i)] = order[place(i)]
        BY Zenon, <2>1, <4>1
      <4> QED BY Zenon, <4>1, <4>2
    <3> QED BY Zenon, <3>1
  <2>4. {plan[i] : i \in 1..n} = {e[i] : i \in 1..n}
    <3> DEFINE S == {plan[i] : i \in 1..n}
               T == {e[i] : i \in 1..n}
    <3>1. \A v : v \in S => v \in T
      BY Zenon, <2>2
    <3>2. \A v : v \in T => v \in S
      BY Zenon, <2>3
    <3>3. S = T
      <4> HIDE DEF S, T
      <4> QED BY Zenon, <3>1, <3>2
    <3> QED BY Zenon, <3>3
  <2> QED BY Zenon, <1>4, <2>1, <2>4
<1>8. ASSUME NEW q \in [DOMAIN e -> DOMAIN e], \A i, j \in DOMAIN q : i # j => q[i] # q[j]
      PROVE  EvictionPlan(policy, [i \in DOMAIN q |-> e[q[i]]], used, capacity) = plan
  <2>1. q \in [1..n -> 1..n] /\ DOMAIN q = 1..n
    BY Zenon, <1>4
  <2>2. \A i, j \in 1..n : i # j => q[i] # q[j]
    BY Zenon, <1>8, <2>1
  <2>3. EvictionPlan(policy, [i \in 1..n |-> e[q[i]]], used, capacity) = plan
    BY Zenon, <1>5, <1>6, <2>1, <2>2
  <2> QED BY Zenon, <2>1, <2>3
<1>9. PlanMinimal(policy, e, used, capacity, plan)
  BY Zenon, <1>1, <1>7, <1>8 DEF PlanMinimal
<1> QED
  BY Zenon, <1>9 DEF plan

\* Entry a was used more often or more recently than entry b, and is not worth less
\* for another reason.
Hotter(a, b) ==
  /\ a.bytes = b.bytes /\ a.priority = b.priority
  /\ a.durable = b.durable
  /\ a.reconstruction_cost_ns >= b.reconstruction_cost_ns
  /\ a.reuse_count >= b.reuse_count
  /\ a.age_seconds <= b.age_seconds
  /\ a.reuse_count > b.reuse_count \/ a.age_seconds < b.age_seconds

\* A hotter entry has the higher score.
LEMMA HotterScores ==
  ASSUME NEW policy \in EvictionPolicy, policy.reuse_weight > 0, policy.age_weight > 0,
         NEW a \in Evictable, NEW b \in Evictable, Fits(policy, a), Fits(policy, b),
         Hotter(a, b)
  PROVE  Colder(policy, b, a)
<1> DEFINE A1 == a.reuse_count * policy.reuse_weight
           B1 == b.reuse_count * policy.reuse_weight
           A2 == a.reconstruction_cost_ns * policy.reconstruct_weight
           B2 == b.reconstruction_cost_ns * policy.reconstruct_weight
           A3 == a.age_seconds * policy.age_weight
           B3 == b.age_seconds * policy.age_weight
           D == (a.bytes \div SizeUnit) * policy.size_weight
           F == IF a.durable THEN policy.durable_bonus ELSE 0
           G == a.priority * policy.priority_weight
<1>1. /\ policy.reuse_weight \in 0..Top /\ policy.reconstruct_weight \in 0..Top
      /\ policy.age_weight \in 0..Top /\ policy.size_weight \in 0..Top
      /\ policy.durable_bonus \in 0..Top /\ policy.priority_weight \in 0..Top
  BY SMTT(30) DEF EvictionPolicy
<1>2. \A x \in Evictable :
        /\ x.bytes \in 0..Top /\ x.reuse_count \in 0..Top /\ x.age_seconds \in 0..Top
        /\ x.reconstruction_cost_ns \in 0..Top /\ x.priority \in 0..Top
  BY SMTT(30) DEF Evictable
<1>3. SizeUnit \in Nat \ {0} /\ 0 \in Nat /\ \A m \in 0..Top : m \in Nat
  BY SMTT(30), PolicyAssumption
<1>4. /\ KeepScore(policy, a) = A1 + A2 - A3 - D + F + G
      /\ KeepScore(policy, b) = B1 + B2 - B3 - D + F + G
  <2>1. KeepScore(policy, a) = ExactScore(policy, a) /\ KeepScore(policy, b) = ExactScore(policy, b)
    BY Zenon, Scores
  <2>2. a.bytes = b.bytes /\ a.priority = b.priority /\ a.durable = b.durable
    BY Zenon DEF Hotter
  <2>3. ExactScore(policy, a) = A1 + A2 - A3 - D + F + G
    BY Zenon DEF ExactScore
  <2>4. D = (b.bytes \div SizeUnit) * policy.size_weight
        /\ F = (IF b.durable THEN policy.durable_bonus ELSE 0)
        /\ G = b.priority * policy.priority_weight
    BY Zenon, <2>2
  <2>5. ExactScore(policy, b) = B1 + B2 - B3 - D + F + G
    <3> HIDE DEF B1, B2, B3, D, F, G
    <3> QED BY Zenon, <2>4 DEF ExactScore, B1, B2, B3
  <2> QED BY Zenon, <2>1, <2>3, <2>5
<1>5. /\ A1 \in Nat /\ B1 \in Nat /\ A2 \in Nat /\ B2 \in Nat /\ A3 \in Nat /\ B3 \in Nat
      /\ D \in Nat /\ F \in Nat /\ G \in Nat
  <2>1. \A x, y \in Nat : x * y \in Nat
    BY SMTT(30)
  <2>2. a.bytes \div SizeUnit \in Nat
    BY Zenon, <1>2, <1>3, Quotient
  <2> QED BY Zenon, <1>1, <1>2, <1>3, <2>1, <2>2
<1>6. B2 <= A2 /\ B1 <= A1 /\ A3 <= B3 /\ (B1 < A1 \/ A3 < B3)
  <2>1. ASSUME NEW x \in Nat, NEW y \in Nat, NEW w \in Nat, x <= y PROVE x * w <= y * w
    BY Zenon, <2>1, Multiples
  <2>2. ASSUME NEW x \in Nat, NEW y \in Nat, NEW w \in Nat, w > 0, x < y PROVE x * w < y * w
    <3>1. x * w + w <= y * w /\ x * w \in Nat /\ y * w \in Nat
      BY Zenon, <2>2, Multiples
    <3> QED BY ONLY SMTT(30), <2>2, <3>1, w \in Nat
  <2>3. /\ b.reconstruction_cost_ns <= a.reconstruction_cost_ns
        /\ b.reuse_count <= a.reuse_count /\ a.age_seconds <= b.age_seconds
        /\ b.reuse_count < a.reuse_count \/ a.age_seconds < b.age_seconds
    BY SMTT(30), <1>2, <1>3 DEF Hotter
  <2> QED BY Zenon, <1>1, <1>2, <1>3, <2>1, <2>2, <2>3
<1> HIDE DEF A1, A2, A3, B1, B2, B3, D, F, G
<1>7. KeepScore(policy, b) < KeepScore(policy, a)
  BY ONLY SMTT(30), <1>4, <1>5, <1>6
<1> QED
  BY Zenon, <1>7 DEF Colder

\* HotEntriesKept for a plan.
HotKept(e, plan) ==
  LET out == {plan[i].object_id : i \in DOMAIN plan}
  IN  \A i, j \in DOMAIN e : Hotter(e[i], e[j]) /\ e[i].object_id \in out => e[j].object_id \in out

\* What eviction_plan returns keeps the hotter entries.
LEMMA HotPlans ==
  ASSUME NEW policy \in EvictionPolicy, policy.reuse_weight > 0, policy.age_weight > 0,
         NEW e \in Seq(Evictable), Distinct(e), \A i \in DOMAIN e : Fits(policy, e[i]),
         NEW used \in Nat, NEW capacity \in Nat
  PROVE  HotKept(e, EvictionPlan(policy, e, used, capacity))
<1> DEFINE n == Len(e)
           plan == EvictionPlan(policy, e, used, capacity)
           order == EvictionOrder(policy, e)
           place(i) == PlaceOf(policy, e, i)
           m == Len(plan)
           out == {plan[i].object_id : i \in DOMAIN plan}
<1>1. plan \in Seq(Evictable) /\ m \in 0..n /\ \A i \in 1..m : plan[i] = order[i]
  BY Zenon, PlanCut
<1>2. \A i \in 1..n : order[place(i)] = e[i]
  BY Zenon, Ordered
<1>3. /\ \A i \in 1..n : place(i) \in 1..n
      /\ \A i, j \in 1..n : Colder(policy, e[i], e[j]) => place(i) < place(j)
      /\ \A k \in 1..n : \E i \in 1..n : place(i) = k
  BY Zenon, Places
<1>4. n \in Nat /\ DOMAIN e = 1..n /\ \A i \in 1..n : e[i] \in Evictable
  BY SMTT(30)
<1>5. \A i, j \in 1..n : i # j => e[i].object_id # e[j].object_id
  BY Zenon DEF Distinct
<1>6. \A i \in 1..n : Fits(policy, e[i])
  BY Zenon, <1>4
<1>7. out = {plan[i].object_id : i \in 1..m}
  <2>1. DOMAIN plan = 1..m
    BY SMTT(30), <1>1
  <2> QED BY Zenon, <2>1
<1> HIDE DEF n, plan, order, place, m, out
<1>8. ASSUME NEW i \in 1..n, NEW j \in 1..n, Hotter(e[i], e[j]), e[i].object_id \in out
      PROVE  e[j].object_id \in out
  <2>1. Colder(policy, e[j], e[i])
    BY Zenon, <1>4, <1>6, <1>8, HotterScores
  <2>2. place(j) < place(i)
    BY Zenon, <1>3, <2>1
  <2>3. PICK k \in 1..m : plan[k].object_id = e[i].object_id
    BY Zenon, <1>7, <1>8
  <2>4. k \in 1..n
    BY SMTT(30), <1>1, <1>4
  <2>5. PICK h \in 1..n : place(h) = k
    BY Zenon, <1>3, <2>4
  <2>6. plan[k] = e[h]
    BY Zenon, <1>1, <1>2, <2>3, <2>5
  <2>7. h = i
    BY Zenon, <1>5, <2>3, <2>6
  <2>8. place(j) \in 1..m
    <3>1. place(i) = k /\ place(j) \in 1..n
      BY Zenon, <1>3, <2>5, <2>7
    <3> QED BY SMTT(30), <1>1, <1>4, <2>2, <3>1
  <2>9. plan[place(j)] = e[j]
    BY Zenon, <1>1, <1>2, <2>8
  <2> QED BY Zenon, <1>7, <2>8, <2>9
<1>9. \A i, j \in DOMAIN e : Hotter(e[i], e[j]) /\ e[i].object_id \in out => e[j].object_id \in out
  BY Zenon, <1>4, <1>8
<1> QED
  BY Zenon, <1>9 DEF HotKept, out, plan

-----------------------------------------------------------------------------
(* Checked products and strides *)

\* The running products of d where a product above max, and all after it, is none.
CheckedRun(c, d, max, none) ==
  c = [n \in 0..Len(d) |->
         IF n = 0 THEN 1
         ELSE IF c[n - 1] = none \/ d[n] = none \/ c[n - 1] * d[n] > max
                THEN none ELSE c[n - 1] * d[n]]

\* There are such running products.
LEMMA CheckedExists ==
  ASSUME NEW d, Len(d) \in Nat, \A i \in 1..Len(d) : d[i] \in Nat,
         NEW max, NEW none, none \notin Nat
  PROVE  \E c : CheckedRun(c, d, max, none)
<1> DEFINE L == Len(d)
           S == Nat \cup {none}
           mul(a, b) == IF a = none \/ b = none \/ a * b > max THEN none ELSE a * b
           step == [z \in (1..L) \X S |-> mul(z[2], d[z[1]])]
<1>1. \A m \in S, b \in Nat : mul(m, b) \in S
  <2>1. \A a, b \in Nat : a * b \in Nat
    BY SMTT(30)
  <2> QED BY Zenon, <2>1
<1>2. \A n \in 1..L, m \in S : step[<<n, m>>] = mul(m, d[n])
  <2> HIDE DEF mul, S
  <2> QED BY SMTT(30)
<1> HIDE DEF step, mul
<1>3. \A n \in 1..L, m \in S : step[<<n, m>>] \in S
  BY ZenonT(40), <1>1, <1>2
<1>4. PICK p : Follows(L, S, 1, step, p)
  <2>1. 1 \in S /\ L \in Nat
    BY SMTT(30)
  <2> HIDE DEF S, L
  <2>2. Stays(L, S, 1, step)
    BY Zenon, <1>3, <2>1 DEF Stays
  <2>3. \E g : Follows(L, S, 1, step, g)
    BY ONLY Zenon, <2>1, <2>2, Recursion
  <2> QED BY Zenon, <2>3
<1>5. p \in [0..L -> S] /\ p[0] = 1 /\ \A n \in 1..L : p[n] = step[<<n, p[n - 1]>>]
  BY Zenon, <1>4 DEF Follows
<1>6. \A n \in 1..L : p[n - 1] \in S
  <2> HIDE DEF S
  <2> QED BY SMTT(30), <1>5
<1>7. \A n \in 1..L : p[n] = mul(p[n - 1], d[n])
  <2> HIDE DEF S
  <2> QED BY Zenon, <1>2, <1>5, <1>6
<1>8. p = [n \in 0..L |-> IF n = 0 THEN 1 ELSE mul(p[n - 1], d[n])]
  <2> HIDE DEF S
  <2> QED BY SMTT(30), <1>5, <1>7
<1> QED
  BY Zenon, <1>8 DEF CheckedRun, mul

\* A checked product is the product, or none; when the last one is a product, all are.
ExactRun(c, d, none) ==
  /\ \A n \in 0..Len(d) : c[n] = none \/ c[n] = Products(d)[n]
  /\ c[Len(d)] # none => \A n \in 0..Len(d) : c[n] = Products(d)[n]

\* Checked products are exact.
LEMMA CheckedExact ==
  ASSUME NEW d, Len(d) \in Nat, \A i \in 1..Len(d) : d[i] \in Nat,
         NEW max, NEW none, none \notin Nat, NEW c, CheckedRun(c, d, max, none)
  PROVE  ExactRun(c, d, none)
<1> DEFINE L == Len(d)
           p == Products(d)
           T == {n \in 0..L : c[n] = none \/ c[n] = p[n]}
           U == {n \in 0..L : c[L - n] # none}
           mul(n) == IF c[n - 1] = none \/ d[n] = none \/ c[n - 1] * d[n] > max
                       THEN none ELSE c[n - 1] * d[n]
<1>1. /\ c[0] = 1
      /\ \A n \in 1..L : c[n] = none \/ (c[n] = c[n - 1] * d[n] /\ c[n - 1] # none)
  <2>1. c = [n \in 0..L |-> IF n = 0 THEN 1 ELSE mul(n)]
    BY Zenon DEF CheckedRun
  <2>2. ASSUME NEW n PROVE mul(n) = none \/ (mul(n) = c[n - 1] * d[n] /\ c[n - 1] # none)
    <3>1. CASE c[n - 1] = none \/ d[n] = none \/ c[n - 1] * d[n] > max
      <4>1. mul(n) = none
        BY Zenon, <3>1
      <4> HIDE DEF mul
      <4> QED BY Zenon, <4>1
    <3>2. CASE ~(c[n - 1] = none \/ d[n] = none \/ c[n - 1] * d[n] > max)
      <4>1. mul(n) = c[n - 1] * d[n]
        BY Zenon, <3>2
      <4> HIDE DEF mul
      <4> QED BY Zenon, <3>2, <4>1
    <3> HIDE DEF mul
    <3> QED BY Zenon, <3>1, <3>2
  <2> HIDE DEF mul
  <2>3. c[0] = 1 /\ \A n \in 1..L : c[n] = mul(n)
    BY SMTT(30), <2>1
  <2> QED BY Zenon, <2>2, <2>3
<1>2. p \in [0..L -> Nat] /\ p[0] = 1 /\ \A n \in 1..L : p[n] = p[n - 1] * d[n]
  BY Zenon, ProductsStep
<1> HIDE DEF p, L
<1>3. L \in Nat
  BY Zenon DEF L
<1>4. T = 0..L
  <2>1. 0 \in T
    BY SMTT(30), <1>1, <1>2, <1>3
  <2>2. ASSUME NEW n \in 1..L, n - 1 \in T PROVE n \in T
    <3>1. c[n - 1] = none \/ c[n - 1] = p[n - 1]
      BY Zenon, <2>2
    <3>2. c[n] = none \/ (c[n] = c[n - 1] * d[n] /\ c[n - 1] # none)
      BY Zenon, <1>1
    <3>3. c[n] = none \/ c[n] = p[n]
      BY Zenon, <1>2, <3>1, <3>2
    <3>4. n \in 0..L
      BY SMTT(30), <1>3
    <3> QED BY Zenon, <3>3, <3>4
  <2>3. T \in SUBSET (0..L)
    BY Zenon
  <2> HIDE DEF T
  <2> QED BY Zenon, <1>3, <2>1, <2>2, <2>3, UpTo
<1>5. \A n \in 0..L : c[n] = none \/ c[n] = p[n]
  BY Zenon, <1>4
<1>6. ASSUME c[L] # none PROVE \A n \in 0..L : c[n] # none
  <2>1. 0 \in U
    <3>1. L - 0 = L /\ 0 \in 0..L
      BY SMTT(30), <1>3
    <3> QED BY Zenon, <1>6, <3>1
  <2>2. ASSUME NEW n \in 1..L, n - 1 \in U PROVE n \in U
    <3>1. L - (n - 1) \in 1..L /\ L - (n - 1) - 1 = L - n /\ n \in 0..L
      BY SMTT(30), <1>3
    <3>2. c[L - (n - 1)] # none
      BY Zenon, <2>2
    <3>3. c[L - (n - 1) - 1] # none
      BY Zenon, <1>1, <3>1, <3>2
    <3> QED BY Zenon, <3>1, <3>3
  <2>3. U = 0..L
    <3>1. U \in SUBSET (0..L)
      BY Zenon
    <3> HIDE DEF U
    <3> QED BY Zenon, <1>3, <2>1, <2>2, <3>1, UpTo
  <2>4. ASSUME NEW n \in 0..L PROVE c[n] # none
    <3>1. L - n \in 0..L /\ L - (L - n) = n
      BY SMTT(30), <1>3
    <3>2. L - n \in U
      BY Zenon, <2>3, <3>1
    <3>3. c[L - (L - n)] # none
      BY Zenon, <3>2
    <3> QED BY Zenon, <3>1, <3>3
  <2> QED BY Zenon, <2>4
<1> QED
  BY Zenon, <1>5, <1>6 DEF ExactRun, L, p

\* The indices of a tensor whose dimensions are at most max, and the offset of one.
Indices(d, max) ==
  {x \in [1..Len(d) -> 0..(max - 1)] : \A i \in 1..Len(d) : x[i] < d[i]}

OffsetOf(d, s, x) == Totals([i \in 1..Len(d) |-> x[i] * s[i]])[Len(d)]

\* Every element has its own offset, and every offset below their number is used.
Dense(d, s, max) ==
  {OffsetOf(d, s, x) : x \in Indices(d, max)} = 0..(Products(d)[Len(d)] - 1)

\* An index is a list of digits.
LEMMA IndicesDigits ==
  ASSUME NEW d, NEW max \in Nat, Len(d) \in Nat, \A i \in 1..Len(d) : d[i] \in 0..max
  PROVE  Indices(d, max) = Digits(d)
<1> DEFINE L == Len(d)
<1>1. ASSUME NEW x \in Indices(d, max) PROVE x \in Digits(d)
  BY SMTT(30) DEF Indices, Digits
<1>2. ASSUME NEW x \in Digits(d) PROVE x \in Indices(d, max)
  <2>1. \A i \in 1..L : x[i] \in 0..(max - 1)
    BY SMTT(30) DEF Digits
  <2> QED BY SMTT(30), <2>1 DEF Digits, Indices
<1> QED
  BY Zenon, <1>1, <1>2

\* Strides that are the products of the dimensions before are dense.
LEMMA DenseStrides ==
  ASSUME NEW d, NEW max \in Nat, Len(d) \in Nat, \A i \in 1..Len(d) : d[i] \in 0..max,
         Products(d)[Len(d)] > 0, NEW s, \A i \in 1..Len(d) : s[i] = Products(d)[i - 1]
  PROVE  Dense(d, s, max)
<1>1. \A i \in 1..Len(d) : d[i] \in Nat
  BY SMTT(30)
<1>2. ASSUME NEW x PROVE OffsetOf(d, s, x) = Value(d, x)
  <2>1. [i \in 1..Len(d) |-> x[i] * s[i]] = Terms(d, x)
    BY Zenon DEF Terms
  <2> QED BY Zenon, <2>1 DEF OffsetOf, Value
<1>3. {Value(d, x) : x \in Digits(d)} = 0..(Products(d)[Len(d)] - 1)
  BY Zenon, <1>1, MixedRadix
<1>4. Indices(d, max) = Digits(d)
  BY Zenon, IndicesDigits
<1>5. {OffsetOf(d, s, x) : x \in Digits(d)} = {Value(d, x) : x \in Digits(d)}
  BY Zenon, <1>2
<1> QED
  BY Zenon, <1>3, <1>4, <1>5 DEF Dense

\* So are strides that are the products of the dimensions after.
LEMMA DenseReversed ==
  ASSUME NEW d, NEW max \in Nat, Len(d) \in Nat, \A i \in 1..Len(d) : d[i] \in 0..max,
         Products(d)[Len(d)] > 0,
         NEW r, Len(r) = Len(d), \A i \in 1..Len(d) : r[i] = d[Len(d) - i + 1],
         NEW s, \A i \in 1..Len(d) : s[i] = Products(r)[Len(d) - i]
  PROVE  Dense(d, s, max)
<1> DEFINE L == Len(d)
           back(x) == [i \in 1..L |-> x[L - i + 1]]
<1>1. L \in Nat /\ \A i \in 1..L : L - i + 1 \in 1..L /\ L - (L - i + 1) + 1 = i
                                   /\ L - (L - i + 1) = i - 1
  BY SMTT(30)
<1>2. (\A i \in 1..L : d[i] \in Nat) /\ \A i \in 1..L : r[i] \in Nat
  <2>1. \A i \in 1..L : d[i] \in Nat
    BY SMTT(30)
  <2> QED BY Zenon, <1>1, <2>1
<1>3. Products(r)[Len(r)] = Products(d)[L]
  BY Zenon, <1>2, ProductsReversed
<1>4. {Value(r, y) : y \in Digits(r)} = 0..(Products(d)[L] - 1)
  BY Zenon, <1>2, <1>3, MixedRadix
<1>5. \A x : x \in Digits(d) <=> x \in [1..L -> Nat] /\ \A i \in 1..L : x[i] < d[i]
  BY Zenon DEF Digits
<1>6. \A x : x \in Digits(r) <=> x \in [1..L -> Nat] /\ \A i \in 1..L : x[i] < r[i]
  BY Zenon DEF Digits
<1>7. ASSUME NEW x \in Digits(d) PROVE back(x) \in Digits(r) /\ Value(r, back(x)) = OffsetOf(d, s, x)
  <2> DEFINE t == [i \in 1..L |-> x[i] * s[i]]
             u == Terms(r, back(x))
  <2>1. \A i \in 1..L : x[i] \in Nat /\ x[i] < d[i]
    BY Zenon, <1>5
  <2>2. \A i \in 1..L : back(x)[i] = x[L - i + 1]
    BY Zenon
  <2>3. back(x) \in [1..L -> Nat]
    BY Zenon, <1>1, <2>1
  <2>4. back(x) \in Digits(r)
    <3> HIDE DEF back
    <3>1. \A i \in 1..L : back(x)[i] < r[i]
      BY Zenon, <1>1, <2>1, <2>2
    <3> QED BY Zenon, <1>6, <2>3, <3>1
  <2>5. \A i \in 1..L : u[i] = t[L - i + 1]
    <3>1. \A i \in 1..L : u[i] = back(x)[i] * Products(r)[i - 1]
      BY Zenon DEF Terms
    <3>2. \A i \in 1..L : t[L - i + 1] = x[L - i + 1] * s[L - i + 1]
      BY Zenon, <1>1
    <3>3. \A i \in 1..L : s[L - i + 1] = Products(r)[i - 1]
      BY Zenon, <1>1
    <3> HIDE DEF t, u, back
    <3>4. ASSUME NEW i \in 1..L PROVE u[i] = t[L - i + 1]
      <4>1. u[i] = x[L - i + 1] * s[L - i + 1]
        BY Zenon, <2>2, <3>1, <3>3
      <4> QED BY Zenon, <3>2, <4>1
    <3> QED BY Zenon, <3>4
  <2>6. Len(t) = L /\ Len(u) = L
    BY SMTT(30), <1>1 DEF Terms
  <2>7. \A i \in 1..L : t[i] \in Nat
    <3>1. \A i \in 1..L : s[i] \in Nat
      <4>1. Products(r) \in [0..L -> Nat]
        BY Zenon, <1>2, ProductsStep
      <4>2. \A i \in 1..L : L - i \in 0..L
        BY SMTT(30), <1>1
      <4> QED BY Zenon, <4>1, <4>2
    <3>2. \A a, b \in Nat : a * b \in Nat
      BY SMTT(30)
    <3> QED BY Zenon, <2>1, <3>1, <3>2
  <2>8. Totals(u)[L] = Totals(t)[L]
    <3> HIDE DEF t, u, L
    <3>1. /\ Len(t) \in Nat /\ Len(u) = Len(t) /\ (\A i \in 1..Len(t) : t[i] \in Nat)
          /\ \A i \in 1..Len(t) : u[i] = t[Len(t) - i + 1]
      BY Zenon, <1>1, <2>5, <2>6, <2>7
    <3>2. Totals(u)[Len(t)] = Totals(t)[Len(t)]
      BY ONLY Zenon, <3>1, TotalsReversed
    <3> QED BY Zenon, <2>6, <3>2
  <2> QED BY Zenon, <2>4, <2>8 DEF Value, OffsetOf
<1>8. ASSUME NEW y \in Digits(r) PROVE \E x \in Digits(d) : back(x) = y
  <2>1. y \in [1..L -> Nat] /\ \A i \in 1..L : y[i] < r[i]
    BY Zenon, <1>6
  <2>2. back(y) \in [1..L -> Nat] /\ \A i \in 1..L : back(y)[i] = y[L - i + 1]
    BY Zenon, <1>1, <2>1
  <2>3. \A i \in 1..L : back(y)[i] < d[i]
    <3>1. \A i \in 1..L : r[L - i + 1] = d[i]
      BY Zenon, <1>1
    <3> HIDE DEF back
    <3> QED BY Zenon, <1>1, <2>1, <2>2, <3>1
  <2>4. back(back(y)) = y
    <3>1. \A i \in 1..L : back(y)[L - i + 1] = y[i]
      <4> HIDE DEF back
      <4> QED BY Zenon, <1>1, <2>2
    <3>2. back(back(y)) = [i \in 1..L |-> back(y)[L - i + 1]]
      BY Zenon
    <3>3. y = [i \in 1..L |-> y[i]]
      BY Zenon, <2>1
    <3> HIDE DEF back
    <3> QED BY Zenon, <3>1, <3>2, <3>3
  <2> HIDE DEF back
  <2> QED BY Zenon, <1>5, <2>2, <2>3, <2>4
<1> HIDE DEF back
<1>9. {OffsetOf(d, s, x) : x \in Digits(d)} = {Value(r, y) : y \in Digits(r)}
  <2> DEFINE A == {OffsetOf(d, s, x) : x \in Digits(d)}
             B == {Value(r, y) : y \in Digits(r)}
  <2>1. \A v : v \in A => v \in B
    BY Zenon, <1>7
  <2>2. \A v : v \in B => v \in A
    BY Zenon, <1>7, <1>8
  <2>3. A = B
    <3> HIDE DEF A, B
    <3> QED BY Zenon, <2>1, <2>2
  <2> QED BY Zenon, <2>3
<1>10. Indices(d, max) = Digits(d)
  BY Zenon, IndicesDigits
<1> QED
  BY Zenon, <1>4, <1>9, <1>10 DEF Dense
=============================================================================
