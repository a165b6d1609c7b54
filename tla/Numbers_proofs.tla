----------------------------- MODULE Numbers_proofs -----------------------------
(***************************************************************************)
(* Lemmas about the arithmetic of Numbers: the order of fractions, sums of *)
(* any length and integral values.  Fractions are not reduced, so that     *)
(* most laws hold up to Same.                                              *)
(***************************************************************************)
EXTENDS Numbers, WellFoundedInduction, TLAPS

(***************************************************************************)
(* Induction, without an operator for the hypothesis.                      *)
(***************************************************************************)

\* A set of natural numbers has a least element.
LEMMA LeastElement ==
  ASSUME NEW S \in SUBSET Nat, S # {}
  PROVE  \E x \in S : \A y \in S : x <= y
<1>1. \E x \in S : \A y \in S : ~(<<y, x>> \in OpToRel(<, Nat))
  BY NatLessThanWellFounded, WFMin
<1>2. OpToRel(<, Nat) = {p \in Nat \X Nat : p[1] < p[2]}
  BY Zenon DEF OpToRel
<1>3. PICK x \in S : \A y \in S : <<y, x>> \notin {p \in Nat \X Nat : p[1] < p[2]}
  BY <1>1, <1>2, Zenon
<1>4. ASSUME NEW y \in S PROVE x <= y
  <2>1. x \in Nat /\ y \in Nat
    OBVIOUS
  <2>2. ASSUME NEW p \in Nat \X Nat, p = <<y, x>> PROVE ~(p[1] < p[2])
    BY <1>3, <1>4, <2>2
  <2>3. ~(<<y, x>>[1] < <<y, x>>[2])
    <3>1. <<y, x>> \in Nat \X Nat
      BY <2>1
    <3> QED
      BY <2>2, <3>1, Zenon
  <2> QED
    BY <2>1, <2>3
<1> QED
  BY <1>4

\* Induction for a set of natural numbers.
LEMMA Inductive ==
  ASSUME NEW S, 0 \in S, \A n \in Nat : n \in S => n + 1 \in S
  PROVE  \A n \in Nat : n \in S
<1> DEFINE T == {n \in Nat : n \notin S}
<1> SUFFICES ASSUME T # {} PROVE FALSE
  OBVIOUS
<1>1. PICK x \in T : \A y \in T : x <= y
  <2>1. T \in SUBSET Nat
    OBVIOUS
  <2> HIDE DEF T
  <2> QED
    BY <2>1, LeastElement
<1>2. x \in Nat /\ x # 0
  BY <1>1
<1>3. x - 1 \in Nat /\ x - 1 \notin T /\ (x - 1) + 1 = x
  BY <1>1, <1>2
<1>4. x - 1 \in S
  BY <1>3
<1> QED
  BY <1>1, <1>3, <1>4

(***************************************************************************)
(* Sums.                                                                   *)
(***************************************************************************)

\* What the recursive function in Total is.
IsPartial(p, n, f) == p = [m \in 0..n |-> IF m = 0 THEN Whole(0) ELSE Plus(p[m - 1], f[m])]

LEMMA PartialExists ==
  ASSUME NEW f
  PROVE  \A n \in Nat : \E p : IsPartial(p, n, f)
<1> DEFINE S == {n \in Nat : \E p : IsPartial(p, n, f)}
<1>1. 0 \in S
  <2>1. IsPartial([m \in 0..0 |-> Whole(0)], 0, f)
    BY DEF IsPartial
  <2> QED
    BY <2>1
<1>2. ASSUME NEW n \in Nat, n \in S PROVE n + 1 \in S
  <2>1. PICK p : IsPartial(p, n, f)
    BY <1>2
  <2> DEFINE q == [m \in 0..(n + 1) |-> IF m = n + 1 THEN Plus(p[n], f[n + 1]) ELSE p[m]]
  <2>2. ASSUME NEW m \in 0..(n + 1)
        PROVE  q[m] = IF m = 0 THEN Whole(0) ELSE Plus(q[m - 1], f[m])
    <3>1. CASE m = n + 1
      <4>1. n \in 0..(n + 1) /\ m - 1 = n /\ m # 0 /\ n # n + 1
        BY <3>1
      <4>2. q[n] = p[n] /\ q[m] = Plus(p[n], f[n + 1])
        BY <3>1, <4>1
      <4> QED
        BY <3>1, <4>1, <4>2
    <3>2. CASE m # n + 1
      <4>1. m \in 0..n
        BY <3>2
      <4>2. q[m] = p[m] /\ (m > 0 => q[m - 1] = p[m - 1])
        BY <4>1
      <4>3. p[m] = IF m = 0 THEN Whole(0) ELSE Plus(p[m - 1], f[m])
        BY <2>1, <4>1 DEF IsPartial
      <4> QED
        BY <4>1, <4>2, <4>3
    <3> QED
      BY <3>1, <3>2
  <2>3. q = [m \in 0..(n + 1) |-> q[m]]
    OBVIOUS
  <2> HIDE DEF q
  <2>4. IsPartial(q, n + 1, f)
    BY <2>2, <2>3 DEF IsPartial
  <2> QED
    BY <2>4
<1> HIDE DEF S
<1>3. \A n \in Nat : n \in S
  BY <1>1, <1>2, Inductive
<1> QED
  BY <1>3 DEF S

LEMMA PartialChosen ==
  ASSUME NEW n \in Nat, NEW f
  PROVE  \E p : IsPartial(p, n, f) /\ Total(n, f) = p[n]
<1> DEFINE c == CHOOSE p : IsPartial(p, n, f)
<1>1. IsPartial(c, n, f)
  BY PartialExists
<1>2. Total(n, f) = c[n]
  BY DEF Total, IsPartial
<1> QED
  BY <1>1, <1>2

\* A longer sum begins as a shorter one.
LEMMA PartialUnique ==
  ASSUME NEW n \in Nat, NEW f, NEW g, NEW p, NEW q, NEW l \in Nat, n <= l,
         IsPartial(p, n, f), IsPartial(q, l, g), \A m \in 1..n : f[m] = g[m]
  PROVE  \A m \in 0..n : p[m] = q[m]
<1> DEFINE S == {m \in Nat : m <= n => p[m] = q[m]}
<1>1. 0 \in S
  BY DEF IsPartial
<1>2. ASSUME NEW m \in Nat, m \in S PROVE m + 1 \in S
  <2> SUFFICES ASSUME m + 1 <= n PROVE p[m + 1] = q[m + 1]
    OBVIOUS
  <2>1. p[m] = q[m]
    BY <1>2
  <2>2. m + 1 \in 0..n /\ m + 1 \in 0..l /\ m + 1 \in 1..n /\ m + 1 # 0 /\ (m + 1) - 1 = m
    OBVIOUS
  <2>3. p[m + 1] = Plus(p[m], f[m + 1]) /\ q[m + 1] = Plus(q[m], g[m + 1])
    BY <2>2 DEF IsPartial
  <2> QED
    BY <2>1, <2>2, <2>3
<1> HIDE DEF S
<1>3. \A m \in Nat : m \in S
  BY <1>1, <1>2, Inductive
<1> QED
  BY <1>3 DEF S

\* What Total is, term by term.
LEMMA TotalNone ==
  ASSUME NEW f
  PROVE  Total(0, f) = Whole(0)
BY PartialChosen DEF IsPartial

LEMMA TotalMore ==
  ASSUME NEW n \in Nat, NEW f
  PROVE  Total(n + 1, f) = Plus(Total(n, f), f[n + 1])
<1>1. n + 1 \in Nat /\ n <= n + 1 /\ n \in 0..n
  OBVIOUS
<1>2. PICK p : IsPartial(p, n, f) /\ Total(n, f) = p[n]
  BY PartialChosen
<1>3. PICK q : IsPartial(q, n + 1, f) /\ Total(n + 1, f) = q[n + 1]
  BY <1>1, PartialChosen
<1>4. p[n] = q[n]
  BY <1>1, <1>2, <1>3, PartialUnique
<1>5. q[n + 1] = Plus(q[n], f[n + 1])
  BY <1>3 DEF IsPartial
<1> QED
  BY <1>2, <1>3, <1>4, <1>5

(***************************************************************************)
(* Fractions.                                                              *)
(***************************************************************************)

LEMMA RationalType ==
  ASSUME NEW x \in Rational, NEW y \in Rational
  PROVE  /\ x[1] \in Int /\ x[2] \in Nat /\ x[2] > 0 /\ x = <<x[1], x[2]>>
         /\ Negate(x) \in Rational
         /\ Plus(x, y) \in Rational /\ Times(x, y) \in Rational
<1>1. x[1] \in Int /\ x[2] \in Nat /\ x[2] > 0 /\ x = <<x[1], x[2]>>
  BY DEF Rational
<1>2. y[1] \in Int /\ y[2] \in Nat /\ y[2] > 0
  BY DEF Rational
<1>3. x[2] * y[2] \in Nat /\ x[2] * y[2] > 0
  BY <1>1, <1>2
<1>4. x[1] * y[2] + y[1] * x[2] \in Int /\ x[1] * y[1] \in Int
  BY <1>1, <1>2
<1>5. Plus(x, y) \in Rational /\ Times(x, y) \in Rational
  BY <1>3, <1>4 DEF Plus, Times, Rational
<1>6. Negate(x) \in Rational
  BY <1>1 DEF Negate, Rational
<1> QED
  BY <1>1, <1>5, <1>6

LEMMA WholeType ==
  ASSUME NEW z \in Int
  PROVE  Whole(z) \in Rational
BY DEF Whole, Rational

\* The value of a number of a certificate is a fraction.
LEMMA ValueType ==
  ASSUME NEW n \in Number, n.denominator # 0
  PROVE  /\ Value(n) \in Rational /\ IntOf(n.numerator) \in Int
         /\ is_zero(n) => IsZero(Value(n))
<1>1. IntOf(n.numerator) \in Int /\ n.denominator \in Int
  BY DEF Number, Numeral, IntOf
<1>2. ASSUME is_zero(n) PROVE IntOf(n.numerator) = 0
  <2>1. n.numerator = [minus |-> FALSE, digits |-> 0, plain |-> TRUE]
    BY <1>2 DEF is_zero
  <2> QED
    BY <2>1 DEF IntOf
<1> QED
  BY <1>1, <1>2 DEF Value, Rational, IsZero

\* A factor that is positive keeps the order of integers.
LEMMA PositiveFactor ==
  ASSUME NEW a \in Int, NEW b \in Int, NEW c \in Nat, c > 0
  PROVE  /\ a <= b <=> a * c <= b * c
         /\ a * c \in Int
OBVIOUS

\* Leq is a total preorder, and Same its equivalence.
LEMMA LeqTotal ==
  ASSUME NEW x \in Rational, NEW y \in Rational
  PROVE  /\ Leq(x, y) \/ Leq(y, x)
         /\ Leq(x, x)
         /\ Same(x, y) <=> Leq(x, y) /\ Leq(y, x)
         /\ Same(x, x)
<1>1. x[1] * y[2] \in Int /\ y[1] * x[2] \in Int /\ x[1] * x[2] \in Int
  BY DEF Rational
<1> QED
  BY <1>1 DEF Leq, Same

LEMMA LeqTransitive ==
  ASSUME NEW x \in Rational, NEW y \in Rational, NEW z \in Rational, Leq(x, y), Leq(y, z)
  PROVE  Leq(x, z)
<1> DEFINE a == x[1]  b == x[2]  c == y[1]  d == y[2]  e == z[1]  f == z[2]
<1>1. /\ a \in Int /\ c \in Int /\ e \in Int
      /\ b \in Nat /\ d \in Nat /\ f \in Nat /\ b > 0 /\ d > 0 /\ f > 0
  BY DEF Rational
<1>2. a * d <= c * b /\ c * f <= e * d
  BY DEF Leq
<1> HIDE DEF a, b, c, d, e, f
<1>3. (a * d) * f <= (c * b) * f /\ (c * f) * b <= (e * d) * b
  <2>1. a * d \in Int /\ c * b \in Int /\ c * f \in Int /\ e * d \in Int
    BY <1>1
  <2> QED
    BY <1>1, <1>2, <2>1, PositiveFactor
<1>4. (a * f) * d <= (e * b) * d
  BY <1>1, <1>3
<1>5. a * f <= e * b
  <2>1. a * f \in Int /\ e * b \in Int
    BY <1>1
  <2> QED
    BY <1>1, <1>4, <2>1, PositiveFactor
<1> QED
  BY <1>5 DEF Leq, a, b, c, d, e, f

LEMMA PlusMonotone ==
  ASSUME NEW x \in Rational, NEW y \in Rational, NEW u \in Rational, NEW v \in Rational,
         Leq(x, y), Leq(u, v)
  PROVE  Leq(Plus(x, u), Plus(y, v))
<1> DEFINE a == x[1]  b == x[2]  c == y[1]  d == y[2]
           e == u[1]  f == u[2]  g == v[1]  h == v[2]
<1>1. /\ a \in Int /\ c \in Int /\ e \in Int /\ g \in Int
      /\ b \in Nat /\ d \in Nat /\ f \in Nat /\ h \in Nat /\ b > 0 /\ d > 0 /\ f > 0 /\ h > 0
  BY DEF Rational
<1>2. a * d <= c * b /\ e * h <= g * f
  BY DEF Leq
<1>3. Leq(Plus(x, u), Plus(y, v)) <=> (a * f + e * b) * (d * h) <= (c * h + g * d) * (b * f)
  BY DEF Leq, Plus
<1> HIDE DEF a, b, c, d, e, f, g, h
<1>4. (a * d) * (f * h) <= (c * b) * (f * h) /\ (e * h) * (b * d) <= (g * f) * (b * d)
  <2>1. /\ a * d \in Int /\ c * b \in Int /\ e * h \in Int /\ g * f \in Int
        /\ f * h \in Nat /\ b * d \in Nat /\ f * h > 0 /\ b * d > 0
    BY <1>1
  <2> QED
    BY <1>2, <2>1, PositiveFactor
<1>5. /\ (a * f + e * b) * (d * h) = (a * d) * (f * h) + (e * h) * (b * d)
      /\ (c * h + g * d) * (b * f) = (c * b) * (f * h) + (g * f) * (b * d)
  BY <1>1
<1>6. /\ (a * d) * (f * h) \in Int /\ (c * b) * (f * h) \in Int
      /\ (e * h) * (b * d) \in Int /\ (g * f) * (b * d) \in Int
  BY <1>1
<1> QED
  BY <1>3, <1>4, <1>5, <1>6

\* A factor keeps the order if it is not negative, and turns it if it is not positive.
LEMMA TimesMonotone ==
  ASSUME NEW c \in Rational, NEW x \in Rational, NEW y \in Rational, Leq(x, y)
  PROVE  /\ c[1] >= 0 => Leq(Times(c, x), Times(c, y))
         /\ c[1] <= 0 => Leq(Times(c, y), Times(c, x))
<1> DEFINE p == c[1]  q == c[2]  a == x[1] * y[2]  b == y[1] * x[2]
<1>1. p \in Int /\ q \in Nat /\ q > 0 /\ a \in Int /\ b \in Int
  BY DEF Rational
<1>2. a <= b
  BY DEF Leq
<1>3. /\ Leq(Times(c, x), Times(c, y)) <=> a * (p * q) <= b * (p * q)
      /\ Leq(Times(c, y), Times(c, x)) <=> b * (p * q) <= a * (p * q)
  <2>1. /\ x[1] \in Int /\ x[2] \in Int /\ y[1] \in Int /\ y[2] \in Int
    BY DEF Rational
  <2>2. /\ (p * x[1]) * (q * y[2]) = (x[1] * y[2]) * (p * q)
        /\ (p * y[1]) * (q * x[2]) = (y[1] * x[2]) * (p * q)
    <3> HIDE DEF p, q
    <3> QED
      BY <1>1, <2>1
  <2> QED
    BY <2>2 DEF Leq, Times
<1> HIDE DEF p, q, a, b
<1>4. CASE p > 0
  <2>1. p * q \in Nat /\ p * q > 0
    BY <1>1, <1>4
  <2> QED
    BY <1>1, <1>2, <1>3, <1>4, <2>1, PositiveFactor DEF p
<1>5. CASE p = 0
  <2>1. p * q = 0 /\ a * (p * q) = 0 /\ b * (p * q) = 0
    BY <1>1, <1>5
  <2> QED
    BY <1>3, <2>1
<1>6. CASE p < 0
  <2>1. (-p) * q \in Nat /\ (-p) * q > 0
    BY <1>1, <1>6
  <2>2. a * ((-p) * q) <= b * ((-p) * q)
    BY <1>1, <1>2, <2>1, PositiveFactor
  <2>3. a * ((-p) * q) = -(a * (p * q)) /\ b * ((-p) * q) = -(b * (p * q))
    BY <1>1
  <2>4. a * (p * q) \in Int /\ b * (p * q) \in Int
    BY <1>1
  <2>5. b * (p * q) <= a * (p * q)
    BY <2>2, <2>3, <2>4
  <2> QED
    BY <1>1, <1>3, <1>6, <2>5 DEF p
<1> QED
  BY <1>1, <1>4, <1>5, <1>6

\* Laws that hold of the pairs.
LEMMA PlusOfPlus ==
  ASSUME NEW x \in Rational, NEW y \in Rational, NEW u \in Rational, NEW v \in Rational
  PROVE  Plus(Plus(x, y), Plus(u, v)) = Plus(Plus(x, u), Plus(y, v))
<1>1. /\ x[1] \in Int /\ y[1] \in Int /\ u[1] \in Int /\ v[1] \in Int
      /\ x[2] \in Int /\ y[2] \in Int /\ u[2] \in Int /\ v[2] \in Int
  BY DEF Rational
<1>2. (x[2] * y[2]) * (u[2] * v[2]) = (x[2] * u[2]) * (y[2] * v[2])
  BY <1>1
<1>3. (x[1] * y[2] + y[1] * x[2]) * (u[2] * v[2]) + (u[1] * v[2] + v[1] * u[2]) * (x[2] * y[2])
        = (x[1] * u[2] + u[1] * x[2]) * (y[2] * v[2]) + (y[1] * v[2] + v[1] * y[2]) * (x[2] * u[2])
  BY <1>1
<1> QED
  BY <1>2, <1>3 DEF Plus

LEMMA TimesOfTimes ==
  ASSUME NEW x \in Rational, NEW y \in Rational, NEW z \in Rational
  PROVE  Times(Times(x, y), z) = Times(x, Times(y, z))
<1>1. /\ x[1] \in Int /\ y[1] \in Int /\ z[1] \in Int
      /\ x[2] \in Int /\ y[2] \in Int /\ z[2] \in Int
  BY DEF Rational
<1>2. (x[1] * y[1]) * z[1] = x[1] * (y[1] * z[1]) /\ (x[2] * y[2]) * z[2] = x[2] * (y[2] * z[2])
  BY <1>1
<1> QED
  BY <1>2 DEF Times

LEMMA TimesCommutes ==
  ASSUME NEW x \in Rational, NEW y \in Rational
  PROVE  Times(x, y) = Times(y, x)
<1>1. x[1] \in Int /\ y[1] \in Int /\ x[2] \in Int /\ y[2] \in Int
  BY DEF Rational
<1> QED
  BY <1>1 DEF Times

\* Distributivity holds up to Same.
LEMMA TimesOfPlus ==
  ASSUME NEW c \in Rational, NEW x \in Rational, NEW y \in Rational
  PROVE  Same(Times(c, Plus(x, y)), Plus(Times(c, x), Times(c, y)))
<1> DEFINE p == c[1]  q == c[2]  a == x[1]  b == x[2]  d == y[1]  e == y[2]
<1>1. p \in Int /\ q \in Int /\ a \in Int /\ b \in Int /\ d \in Int /\ e \in Int
  BY DEF Rational
<1>2. Same(Times(c, Plus(x, y)), Plus(Times(c, x), Times(c, y)))
        <=> (p * (a * e + d * b)) * ((q * b) * (q * e))
              = ((p * a) * (q * e) + (p * d) * (q * b)) * (q * (b * e))
  BY DEF Same, Times, Plus
<1> HIDE DEF p, q, a, b, d, e
<1>3. (p * (a * e + d * b)) * ((q * b) * (q * e))
        = ((p * a) * (q * e) + (p * d) * (q * b)) * (q * (b * e))
  BY <1>1
<1> QED
  BY <1>2, <1>3

(***************************************************************************)
(* Laws of sums.                                                           *)
(***************************************************************************)

LEMMA TotalType ==
  ASSUME NEW n \in Nat, NEW f, \A m \in 1..n : f[m] \in Rational
  PROVE  Total(n, f) \in Rational
<1> DEFINE S == {m \in Nat : m <= n => Total(m, f) \in Rational}
<1>1. 0 \in S
  <2>1. Total(0, f) = Whole(0)
    BY TotalNone
  <2> QED
    BY <2>1 DEF Whole, Rational
<1>2. ASSUME NEW m \in Nat, m \in S PROVE m + 1 \in S
  <2> SUFFICES ASSUME m + 1 <= n PROVE Total(m + 1, f) \in Rational
    OBVIOUS
  <2>1. Total(m, f) \in Rational /\ f[m + 1] \in Rational
    BY <1>2
  <2>2. Total(m + 1, f) = Plus(Total(m, f), f[m + 1])
    BY TotalMore
  <2> QED
    BY <2>1, <2>2, RationalType
<1> HIDE DEF S
<1>3. \A m \in Nat : m \in S
  BY <1>1, <1>2, Inductive
<1> QED
  BY <1>3 DEF S

LEMMA TotalMonotone ==
  ASSUME NEW n \in Nat, NEW f, NEW g,
         \A m \in 1..n : f[m] \in Rational /\ g[m] \in Rational /\ Leq(f[m], g[m])
  PROVE  Leq(Total(n, f), Total(n, g))
<1> DEFINE S == {m \in Nat : m <= n => Leq(Total(m, f), Total(m, g))}
<1>1. 0 \in S
  <2>1. Total(0, f) = Whole(0) /\ Total(0, g) = Whole(0)
    BY TotalNone
  <2> QED
    BY <2>1 DEF Whole, Leq
<1>2. ASSUME NEW m \in Nat, m \in S PROVE m + 1 \in S
  <2> SUFFICES ASSUME m + 1 <= n PROVE Leq(Total(m + 1, f), Total(m + 1, g))
    OBVIOUS
  <2>1. Leq(Total(m, f), Total(m, g))
    BY <1>2
  <2>2. Total(m, f) \in Rational /\ Total(m, g) \in Rational
    <3>1. \A k \in 1..m : f[k] \in Rational /\ g[k] \in Rational
      OBVIOUS
    <3> QED
      BY <3>1, TotalType
  <2>3. /\ Total(m + 1, f) = Plus(Total(m, f), f[m + 1])
        /\ Total(m + 1, g) = Plus(Total(m, g), g[m + 1])
    BY TotalMore
  <2>4. f[m + 1] \in Rational /\ g[m + 1] \in Rational /\ Leq(f[m + 1], g[m + 1])
    OBVIOUS
  <2> QED
    BY <2>1, <2>2, <2>3, <2>4, PlusMonotone
<1> HIDE DEF S
<1>3. \A m \in Nat : m \in S
  BY <1>1, <1>2, Inductive
<1> QED
  BY <1>3 DEF S

\* Sums of terms that are the same are the same.
LEMMA TotalCongruent ==
  ASSUME NEW n \in Nat, NEW f, NEW g,
         \A m \in 1..n : f[m] \in Rational /\ g[m] \in Rational /\ Same(f[m], g[m])
  PROVE  Same(Total(n, f), Total(n, g))
<1>1. \A m \in 1..n : Leq(f[m], g[m]) /\ Leq(g[m], f[m])
  BY LeqTotal
<1>2. Leq(Total(n, f), Total(n, g)) /\ Leq(Total(n, g), Total(n, f))
  BY <1>1, TotalMonotone
<1>3. Total(n, f) \in Rational /\ Total(n, g) \in Rational
  BY TotalType
<1> QED
  BY <1>2, <1>3, LeqTotal

\* The sum of a sum.
LEMMA TotalOfPlus ==
  ASSUME NEW n \in Nat, NEW f, NEW g, NEW h,
         \A m \in 1..n : f[m] \in Rational /\ g[m] \in Rational /\ h[m] = Plus(f[m], g[m])
  PROVE  Total(n, h) = Plus(Total(n, f), Total(n, g))
<1> DEFINE S == {m \in Nat : m <= n => Total(m, h) = Plus(Total(m, f), Total(m, g))}
<1>1. 0 \in S
  <2>1. Total(0, f) = Whole(0) /\ Total(0, g) = Whole(0) /\ Total(0, h) = Whole(0)
    BY TotalNone
  <2> QED
    BY <2>1 DEF Whole, Plus
<1>2. ASSUME NEW m \in Nat, m \in S PROVE m + 1 \in S
  <2> SUFFICES ASSUME m + 1 <= n PROVE Total(m + 1, h) = Plus(Total(m + 1, f), Total(m + 1, g))
    OBVIOUS
  <2>1. Total(m, h) = Plus(Total(m, f), Total(m, g))
    BY <1>2
  <2>2. Total(m, f) \in Rational /\ Total(m, g) \in Rational
    <3>1. \A k \in 1..m : f[k] \in Rational /\ g[k] \in Rational
      OBVIOUS
    <3> QED
      BY <3>1, TotalType
  <2>3. /\ Total(m + 1, f) = Plus(Total(m, f), f[m + 1])
        /\ Total(m + 1, g) = Plus(Total(m, g), g[m + 1])
        /\ Total(m + 1, h) = Plus(Total(m, h), h[m + 1])
    BY TotalMore
  <2>4. f[m + 1] \in Rational /\ g[m + 1] \in Rational /\ h[m + 1] = Plus(f[m + 1], g[m + 1])
    OBVIOUS
  <2> QED
    BY <2>1, <2>2, <2>3, <2>4, PlusOfPlus
<1> HIDE DEF S
<1>3. \A m \in Nat : m \in S
  BY <1>1, <1>2, Inductive
<1> QED
  BY <1>3 DEF S

\* A factor of all terms is one of the sum.
LEMMA TotalOfTimes ==
  ASSUME NEW n \in Nat, NEW c \in Rational, NEW f, NEW g,
         \A m \in 1..n : f[m] \in Rational /\ g[m] = Times(c, f[m])
  PROVE  Same(Total(n, g), Times(c, Total(n, f)))
<1> DEFINE S == {m \in Nat : m <= n => Same(Total(m, g), Times(c, Total(m, f)))}
<1>1. 0 \in S
  <2>1. Total(0, f) = Whole(0) /\ Total(0, g) = Whole(0)
    BY TotalNone
  <2>2. c[1] \in Int /\ c[2] \in Int
    BY DEF Rational
  <2> QED
    BY <2>1, <2>2 DEF Whole, Times, Same
<1>2. ASSUME NEW m \in Nat, m \in S PROVE m + 1 \in S
  <2> SUFFICES ASSUME m + 1 <= n PROVE Same(Total(m + 1, g), Times(c, Total(m + 1, f)))
    OBVIOUS
  <2> DEFINE x == Total(m, f)  y == f[m + 1]  z == Total(m, g)
  <2>1. Same(z, Times(c, x))
    BY <1>2
  <2>2. x \in Rational /\ y \in Rational /\ z \in Rational /\ Times(c, y) \in Rational
    <3>1. \A k \in 1..(m + 1) : f[k] \in Rational /\ g[k] \in Rational
      BY RationalType
    <3>2. y \in Rational
      OBVIOUS
    <3>3. x \in Rational /\ z \in Rational
      BY <3>1, TotalType
    <3> QED
      BY <3>2, <3>3, RationalType
  <2>3. /\ Total(m + 1, f) = Plus(x, y)
        /\ Total(m + 1, g) = Plus(z, g[m + 1])
        /\ g[m + 1] = Times(c, y)
    BY TotalMore
  <2> HIDE DEF x, y, z
  <2>4. /\ Times(c, x) \in Rational /\ Plus(z, Times(c, y)) \in Rational
        /\ Plus(Times(c, x), Times(c, y)) \in Rational
        /\ Times(c, Plus(x, y)) \in Rational
    BY <2>2, RationalType
  <2>5. /\ Leq(Plus(z, Times(c, y)), Plus(Times(c, x), Times(c, y)))
        /\ Leq(Plus(Times(c, x), Times(c, y)), Plus(z, Times(c, y)))
    BY <2>1, <2>2, <2>4, LeqTotal, PlusMonotone
  <2>6. /\ Leq(Plus(Times(c, x), Times(c, y)), Times(c, Plus(x, y)))
        /\ Leq(Times(c, Plus(x, y)), Plus(Times(c, x), Times(c, y)))
    BY <2>2, <2>4, TimesOfPlus, LeqTotal
  <2>7. /\ Leq(Plus(z, Times(c, y)), Times(c, Plus(x, y)))
        /\ Leq(Times(c, Plus(x, y)), Plus(z, Times(c, y)))
    BY <2>4, <2>5, <2>6, LeqTransitive
  <2> QED
    BY <2>3, <2>4, <2>7, LeqTotal
<1> HIDE DEF S
<1>3. \A m \in Nat : m \in S
  BY <1>1, <1>2, Inductive
<1> QED
  BY <1>3 DEF S

\* A sum of zeros.
LEMMA TotalOfZeros ==
  ASSUME NEW n \in Nat, NEW f, \A m \in 1..n : f[m] \in Rational /\ IsZero(f[m])
  PROVE  IsZero(Total(n, f))
<1> DEFINE S == {m \in Nat : m <= n => IsZero(Total(m, f))}
<1>1. 0 \in S
  <2>1. Total(0, f) = Whole(0)
    BY TotalNone
  <2> QED
    BY <2>1 DEF Whole, IsZero
<1>2. ASSUME NEW m \in Nat, m \in S PROVE m + 1 \in S
  <2> SUFFICES ASSUME m + 1 <= n PROVE IsZero(Total(m + 1, f))
    OBVIOUS
  <2>1. IsZero(Total(m, f)) /\ IsZero(f[m + 1]) /\ f[m + 1] \in Rational
    BY <1>2
  <2>2. Total(m, f) \in Rational
    BY TotalType
  <2>3. Total(m + 1, f) = Plus(Total(m, f), f[m + 1])
    BY TotalMore
  <2>4. Total(m, f)[2] \in Int /\ f[m + 1][2] \in Int
    BY <2>1, <2>2, RationalType
  <2> QED
    BY <2>1, <2>3, <2>4 DEF Plus, IsZero
<1> HIDE DEF S
<1>3. \A m \in Nat : m \in S
  BY <1>1, <1>2, Inductive
<1> QED
  BY <1>3 DEF S

\* The rows of a matrix and then the columns, or the columns and then the rows.
LEMMA TotalOfTotals ==
  ASSUME NEW n \in Nat, NEW l \in Nat, NEW a,
         \A i \in 1..n : \A j \in 1..l : a[i][j] \in Rational
  PROVE  Same(Total(n, [i \in 1..n |-> Total(l, a[i])]),
              Total(l, [j \in 1..l |-> Total(n, [i \in 1..n |-> a[i][j]])]))
<1> DEFINE rows == [i \in 1..n |-> Total(l, a[i])]
           column(j) == [i \in 1..n |-> a[i][j]]
           columns(k) == [j \in 1..l |-> Total(k, column(j))]
           S == {k \in Nat : k <= n => Same(Total(k, rows), Total(l, columns(k)))}
<1>0. \A i \in 1..n : rows[i] = Total(l, a[i]) /\ rows[i] \in Rational
  BY TotalType
<1>a. \A j \in 1..l : \A i \in 1..n : column(j)[i] = a[i][j] /\ column(j)[i] \in Rational
  OBVIOUS
<1>b. ASSUME NEW k \in Nat, k <= n PROVE \A j \in 1..l : Total(k, column(j)) \in Rational
  <2> SUFFICES ASSUME NEW j \in 1..l PROVE Total(k, column(j)) \in Rational
    OBVIOUS
  <2>1. \A i \in 1..k : column(j)[i] \in Rational
    BY <1>a, <1>b
  <2> HIDE DEF column
  <2> QED
    BY <2>1, TotalType
<1> HIDE DEF rows, column
<1>c. \A k : \A j \in 1..l : columns(k)[j] = Total(k, column(j))
  OBVIOUS
<1> HIDE DEF columns
<1>1. 0 \in S
  <2>1. Total(0, rows) = Whole(0) /\ \A j \in 1..l : Total(0, column(j)) = Whole(0)
    BY TotalNone
  <2>2. \A j \in 1..l : columns(0)[j] \in Rational /\ IsZero(columns(0)[j])
    BY <1>c, <2>1 DEF Whole, Rational, IsZero
  <2>3. IsZero(Total(l, columns(0))) /\ Total(l, columns(0)) \in Rational
    BY <2>2, TotalOfZeros, TotalType
  <2>4. Total(l, columns(0))[2] \in Int
    BY <2>3, RationalType
  <2> QED
    BY <2>1, <2>3, <2>4 DEF Whole, IsZero, Same
<1>2. ASSUME NEW k \in Nat, k \in S PROVE k + 1 \in S
  <2> SUFFICES ASSUME k + 1 <= n PROVE Same(Total(k + 1, rows), Total(l, columns(k + 1)))
    OBVIOUS
  <2>0. k + 1 \in 1..n /\ k + 1 \in Nat /\ k <= n
    OBVIOUS
  <2> DEFINE x == Total(k, rows)  y == Total(l, columns(k))  z == Total(l, a[k + 1])
  <2>1. Same(x, y)
    BY <1>2, <2>0
  <2>2. x \in Rational /\ y \in Rational /\ z \in Rational
    <3>1. x \in Rational
      <4>1. \A i \in 1..k : rows[i] \in Rational
        BY <1>0, <2>0
      <4> QED
        BY <4>1, TotalType
    <3>2. y \in Rational
      <4>1. \A j \in 1..l : columns(k)[j] \in Rational
        BY <1>b, <1>c, <2>0
      <4> QED
        BY <4>1, TotalType
    <3> QED
      BY <3>1, <3>2, <1>0, <2>0
  <2>3. Total(k + 1, rows) = Plus(x, z)
    BY <1>0, <2>0, TotalMore
  <2>4. Total(l, columns(k + 1)) = Plus(y, z)
    <3>1. ASSUME NEW j \in 1..l
          PROVE  /\ columns(k)[j] \in Rational /\ a[k + 1][j] \in Rational
                 /\ columns(k + 1)[j] = Plus(columns(k)[j], a[k + 1][j])
      <4>1. Total(k + 1, column(j)) = Plus(Total(k, column(j)), column(j)[k + 1])
        BY TotalMore
      <4>2. column(j)[k + 1] = a[k + 1][j] /\ a[k + 1][j] \in Rational
        BY <1>a, <2>0
      <4> QED
        BY <1>b, <1>c, <2>0, <4>1, <4>2
    <3> QED
      BY <3>1, TotalOfPlus
  <2> HIDE DEF x, y, z
  <2>5. Leq(Plus(x, z), Plus(y, z)) /\ Leq(Plus(y, z), Plus(x, z))
    BY <2>1, <2>2, LeqTotal, PlusMonotone
  <2>6. Plus(x, z) \in Rational /\ Plus(y, z) \in Rational
    BY <2>2, RationalType
  <2> QED
    BY <2>3, <2>4, <2>5, <2>6, LeqTotal
<1> HIDE DEF S
<1>3. n \in S
  BY <1>1, <1>2, Inductive
<1>4. Same(Total(n, rows), Total(l, columns(n)))
  BY <1>3 DEF S
<1> QED
  BY <1>4 DEF rows, columns, column

(***************************************************************************)
(* Integral values.                                                        *)
(***************************************************************************)

LEMMA IntWitness ==
  ASSUME NEW x \in Rational
  PROVE  IsInt(x) <=> \E k \in Int : x[1] = k * x[2]
<1> DEFINE a == x[1]  b == x[2]
<1>1. a \in Int /\ b \in Nat /\ b > 0
  BY RationalType
<1> HIDE DEF a, b
<1>2. ASSUME a % b = 0 PROVE \E k \in Int : a = k * b
  <2>1. a \div b \in Int /\ a = b * (a \div b)
    BY <1>1, <1>2
  <2> QED
    BY <1>1, <2>1
<1>3. ASSUME NEW k \in Int, a = k * b PROVE a % b = 0
  <2>1. (k * b) % b = 0
    BY <1>1
  <2> QED
    BY <1>3, <2>1
<1> QED
  BY <1>2, <1>3 DEF IsInt, a, b

LEMMA IntOfSame ==
  ASSUME NEW x \in Rational, NEW y \in Rational, Same(x, y), IsInt(x)
  PROVE  IsInt(y)
<1> DEFINE a == x[1]  b == x[2]  c == y[1]  d == y[2]
<1>1. a \in Int /\ b \in Nat /\ b > 0 /\ c \in Int /\ d \in Nat /\ d > 0 /\ a * d = c * b
  BY RationalType DEF Same
<1>2. PICK k \in Int : a = k * b
  BY IntWitness
<1> HIDE DEF a, b, c, d
<1>3. (k * d) * b = c * b /\ k * d \in Int
  BY <1>1, <1>2
<1>4. c = k * d
  BY <1>1, <1>3, PositiveFactor
<1> QED
  BY <1>4, IntWitness DEF c, d

LEMMA IntOfPlus ==
  ASSUME NEW x \in Rational, NEW y \in Rational, IsInt(x), IsInt(y)
  PROVE  IsInt(Plus(x, y)) /\ IsInt(Times(x, y))
<1>1. PICK k \in Int : x[1] = k * x[2]
  BY IntWitness
<1>2. PICK l \in Int : y[1] = l * y[2]
  BY IntWitness
<1>3. x[2] \in Int /\ y[2] \in Int
  BY RationalType
<1>4. /\ Plus(x, y)[1] = (k + l) * Plus(x, y)[2]
      /\ Times(x, y)[1] = (k * l) * Times(x, y)[2]
  BY <1>1, <1>2, <1>3 DEF Plus, Times
<1>5. k + l \in Int /\ k * l \in Int
  OBVIOUS
<1>6. Plus(x, y) \in Rational /\ Times(x, y) \in Rational
  BY RationalType
<1> QED
  BY <1>4, <1>5, <1>6, IntWitness

LEMMA IntOfTotal ==
  ASSUME NEW n \in Nat, NEW f, \A m \in 1..n : f[m] \in Rational /\ IsInt(f[m])
  PROVE  IsInt(Total(n, f))
<1> DEFINE S == {m \in Nat : m <= n => IsInt(Total(m, f))}
<1>1. 0 \in S
  <2>1. Total(0, f) = Whole(0)
    BY TotalNone
  <2> QED
    BY <2>1 DEF Whole, IsInt
<1>2. ASSUME NEW m \in Nat, m \in S PROVE m + 1 \in S
  <2> SUFFICES ASSUME m + 1 <= n PROVE IsInt(Total(m + 1, f))
    OBVIOUS
  <2>1. IsInt(Total(m, f)) /\ IsInt(f[m + 1]) /\ f[m + 1] \in Rational
    BY <1>2
  <2>2. Total(m, f) \in Rational
    BY TotalType
  <2>3. Total(m + 1, f) = Plus(Total(m, f), f[m + 1])
    BY TotalMore
  <2> QED
    BY <2>1, <2>2, <2>3, IntOfPlus
<1> HIDE DEF S
<1>3. \A m \in Nat : m \in S
  BY <1>1, <1>2, Inductive
<1> QED
  BY <1>3 DEF S

\* Rounding the bound of an integral value loses nothing.
LEMMA IntBelowFloor ==
  ASSUME NEW x \in Rational, NEW y \in Rational, IsInt(x), Leq(x, y)
  PROVE  Leq(x, Floor(y)) /\ Floor(y) \in Rational
<1> DEFINE a == x[1]  b == x[2]  c == y[1]  d == y[2]  q == c \div d
<1>1. a \in Int /\ b \in Nat /\ b > 0 /\ c \in Int /\ d \in Nat /\ d > 0 /\ a * d <= c * b
  BY RationalType DEF Leq
<1>2. PICK k \in Int : a = k * b
  BY IntWitness
<1>3. Leq(x, Floor(y)) <=> a * 1 <= q * b
  BY DEF Leq, Floor, Whole
<1> HIDE DEF a, b, c, d
<1>4. q \in Int /\ c < d * q + d
  BY <1>1
<1> HIDE DEF q
<1>5. (k * d) * b <= c * b /\ k * d \in Int
  BY <1>1, <1>2
<1>6. k * d <= c
  BY <1>1, <1>5, PositiveFactor
<1>7. k * d < (q + 1) * d
  BY <1>1, <1>4, <1>6
<1>8. k <= q
  <2> SUFFICES ASSUME q + 1 <= k PROVE FALSE
    BY <1>4
  <2>1. q + 1 \in Int
    BY <1>4
  <2>2. (q + 1) * d <= k * d
    BY <1>1, <2>1, PositiveFactor
  <2> QED
    BY <1>1, <1>4, <1>5, <1>7, <2>1, <2>2
<1>9. k * b <= q * b
  BY <1>1, <1>4, <1>8, PositiveFactor
<1>10. Floor(y) \in Rational
  BY <1>4, WholeType DEF Floor, q, c, d
<1>11. a * 1 <= q * b
  BY <1>1, <1>2, <1>9
<1> QED
  BY <1>3, <1>10, <1>11

LEMMA NegateTurns ==
  ASSUME NEW x \in Rational, NEW y \in Rational
  PROVE  /\ Leq(x, y) <=> Leq(Negate(y), Negate(x))
         /\ IsInt(x) => IsInt(Negate(x))
         /\ Negate(Negate(x)) = x
<1>1. x[1] \in Int /\ x[2] \in Nat /\ x[2] > 0 /\ y[1] \in Int /\ y[2] \in Nat /\ x = <<x[1], x[2]>>
  BY RationalType
<1>2. x[1] * y[2] \in Int /\ y[1] * x[2] \in Int
  BY <1>1
<1>3. (-x[1]) * y[2] = -(x[1] * y[2]) /\ (-y[1]) * x[2] = -(y[1] * x[2])
  BY <1>1
<1>4. Leq(x, y) <=> Leq(Negate(y), Negate(x))
  BY <1>2, <1>3 DEF Leq, Negate
<1>5. ASSUME IsInt(x) PROVE IsInt(Negate(x))
  <2>1. PICK k \in Int : x[1] = k * x[2]
    BY <1>5, IntWitness
  <2>2. -k \in Int /\ Negate(x)[1] = (-k) * Negate(x)[2]
    BY <1>1, <2>1 DEF Negate
  <2>3. Negate(x) \in Rational
    BY RationalType
  <2> QED
    BY <2>2, <2>3, IntWitness
<1>6. Negate(Negate(x)) = x
  BY <1>1 DEF Negate
<1> QED
  BY <1>4, <1>5, <1>6

LEMMA IntAboveCeil ==
  ASSUME NEW x \in Rational, NEW y \in Rational, IsInt(x), Leq(y, x)
  PROVE  Leq(print_ceil(y), x) /\ print_ceil(y) \in Rational
<1> DEFINE u == Negate(x)  v == Negate(y)
<1>1. u \in Rational /\ v \in Rational /\ IsInt(u) /\ Leq(u, v) /\ Negate(u) = x
  BY RationalType, NegateTurns
<1>2. Leq(u, Floor(v)) /\ Floor(v) \in Rational
  BY <1>1, IntBelowFloor
<1>3. Negate(Floor(v)) \in Rational /\ Leq(Negate(Floor(v)), Negate(u))
  BY <1>1, <1>2, RationalType, NegateTurns
<1> QED
  BY <1>1, <1>3 DEF print_ceil

\* Integral values that are not the same are 1 apart.
LEMMA IntApart ==
  ASSUME NEW x \in Rational, NEW y \in Rational, IsInt(x), IsInt(y), ~Leq(y, x)
  PROVE  Leq(Plus(x, Whole(1)), y)
<1> DEFINE a == x[1]  b == x[2]  c == y[1]  d == y[2]
<1>1. a \in Int /\ b \in Nat /\ b > 0 /\ c \in Int /\ d \in Nat /\ d > 0 /\ ~(c * b <= a * d)
  BY RationalType DEF Leq
<1>2. PICK k \in Int : a = k * b
  BY IntWitness
<1>3. PICK l \in Int : c = l * d
  BY IntWitness
<1>4. Leq(Plus(x, Whole(1)), y) <=> (a * 1 + 1 * b) * d <= c * (b * 1)
  BY DEF Leq, Plus, Whole
<1> HIDE DEF a, b, c, d
<1> DEFINE e == b * d
<1>5. e \in Nat /\ e > 0
  BY <1>1
<1>6. c * b = l * e /\ a * d = k * e /\ (a * 1 + 1 * b) * d = (k + 1) * e /\ c * (b * 1) = l * e
  BY <1>1, <1>2, <1>3
<1> HIDE DEF e
<1>7. ~(l <= k)
  BY <1>1, <1>5, <1>6, PositiveFactor
<1>8. k + 1 \in Int /\ k + 1 <= l
  BY <1>7
<1>9. (k + 1) * e <= l * e
  BY <1>5, <1>8, PositiveFactor
<1> QED
  BY <1>4, <1>6, <1>9

\* Zeros.
LEMMA ZeroTimes ==
  ASSUME NEW x \in Rational, NEW y \in Rational, IsZero(x)
  PROVE  /\ IsZero(Times(x, y)) /\ IsZero(Times(y, x))
         /\ IsInt(x) /\ Same(x, Whole(0))
<1>1. x[1] = 0 /\ x[2] \in Nat /\ x[2] > 0 /\ y[1] \in Int
  BY RationalType DEF IsZero
<1>2. x[1] = 0 * x[2] /\ 0 * y[1] = 0 /\ y[1] * 0 = 0
  BY <1>1
<1> QED
  BY <1>1, <1>2, IntWitness DEF IsZero, Times, Same, Whole
(***************************************************************************)
(* The least and the greatest of several fractions.                        *)
(***************************************************************************)

LEMMA LeastOfFractions ==
  ASSUME NEW k \in Nat, k # 0, NEW f, \A m \in 1..k : f[m] \in Rational
  PROVE  \E b \in 1..k : \A m \in 1..k : Leq(f[b], f[m])
<1> DEFINE S == {n \in Nat : n \in 1..k => \E b \in 1..n : \A m \in 1..n : Leq(f[b], f[m])}
<1>1. 0 \in S
  OBVIOUS
<1>2. ASSUME NEW n \in Nat, n \in S PROVE n + 1 \in S
  <2> SUFFICES ASSUME n + 1 \in 1..k
               PROVE  \E b \in 1..(n + 1) : \A m \in 1..(n + 1) : Leq(f[b], f[m])
    OBVIOUS
  <2>1. f[n + 1] \in Rational /\ Leq(f[n + 1], f[n + 1])
    BY LeqTotal
  <2>2. CASE n = 0
    <3>1. \A m \in 1..(n + 1) : m = n + 1
      BY <2>2
    <3> QED
      BY <2>1, <3>1
  <2>3. CASE n # 0
    <3>1. PICK b \in 1..n : \A m \in 1..n : Leq(f[b], f[m])
      BY <1>2, <2>3
    <3>2. b \in 1..k /\ \A m \in 1..n : m \in 1..k
      BY <3>1
    <3>3. \A m \in 1..(n + 1) : m \in 1..n \/ m = n + 1
      OBVIOUS
    <3>4. CASE Leq(f[b], f[n + 1])
      <4>1. \A m \in 1..(n + 1) : Leq(f[b], f[m])
        BY <3>1, <3>3, <3>4
      <4> QED
        BY <3>1, <4>1
    <3>5. CASE Leq(f[n + 1], f[b])
      <4>1. \A m \in 1..(n + 1) : Leq(f[n + 1], f[m])
        BY <2>1, <3>1, <3>2, <3>3, <3>5, LeqTransitive
      <4> QED
        BY <4>1
    <3> QED
      BY <2>1, <3>2, <3>4, <3>5, LeqTotal
  <2> QED
    BY <2>2, <2>3
<1> HIDE DEF S
<1>3. k \in S
  BY <1>1, <1>2, Inductive
<1> QED
  BY <1>3 DEF S

LEMMA GreatestOfFractions ==
  ASSUME NEW k \in Nat, k # 0, NEW f, \A m \in 1..k : f[m] \in Rational
  PROVE  \E b \in 1..k : \A m \in 1..k : Leq(f[m], f[b])
<1> DEFINE g == [m \in 1..k |-> Negate(f[m])]
<1>1. \A m \in 1..k : g[m] = Negate(f[m]) /\ g[m] \in Rational
  BY RationalType
<1> HIDE DEF g
<1>2. PICK b \in 1..k : \A m \in 1..k : Leq(g[b], g[m])
  BY <1>1, LeastOfFractions
<1>3. ASSUME NEW m \in 1..k PROVE Leq(f[m], f[b])
  BY <1>1, <1>2, NegateTurns
<1> QED
  BY <1>3

\* Same is an equivalence, and a factor keeps it.
LEMMA SameOfSame ==
  ASSUME NEW x \in Rational, NEW y \in Rational, NEW z \in Rational, Same(x, y)
  PROVE  /\ Same(y, x)
         /\ Same(y, z) => Same(x, z)
<1>1. Same(y, x)
  BY LeqTotal
<1>2. ASSUME Same(y, z) PROVE Same(x, z)
  <2>1. Leq(x, y) /\ Leq(y, x) /\ Leq(y, z) /\ Leq(z, y)
    BY <1>2, LeqTotal
  <2>2. Leq(x, z) /\ Leq(z, x)
    BY <2>1, LeqTransitive
  <2> QED
    BY <2>2, LeqTotal
<1> QED
  BY <1>1, <1>2

LEMMA TimesOfSame ==
  ASSUME NEW x \in Rational, NEW y \in Rational, NEW c \in Rational, Same(x, y)
  PROVE  Same(Times(c, x), Times(c, y)) /\ Same(Times(x, c), Times(y, c))
<1>1. Leq(x, y) /\ Leq(y, x) /\ c[1] \in Int
  BY LeqTotal, RationalType
<1>2. /\ c[1] >= 0 => Leq(Times(c, x), Times(c, y)) /\ Leq(Times(c, y), Times(c, x))
      /\ c[1] <= 0 => Leq(Times(c, x), Times(c, y)) /\ Leq(Times(c, y), Times(c, x))
  BY <1>1, TimesMonotone
<1>3. Times(c, x) \in Rational /\ Times(c, y) \in Rational
  BY RationalType
<1>4. Same(Times(c, x), Times(c, y))
  BY <1>1, <1>2, <1>3, LeqTotal
<1> QED
  BY <1>4, TimesCommutes

\* 1 on one side or the other.
LEMMA OneAside ==
  ASSUME NEW x \in Rational, NEW y \in Rational, Leq(Plus(x, Whole(1)), y)
  PROVE  Leq(x, Plus(y, Whole(-1)))
<1> DEFINE a == x[1]  b == x[2]  c == y[1]  d == y[2]
<1>1. a \in Int /\ b \in Int /\ c \in Int /\ d \in Int
  BY RationalType
<1>2. (a * 1 + 1 * b) * d <= c * (b * 1)
  BY DEF Leq, Plus, Whole
<1>3. Leq(x, Plus(y, Whole(-1))) <=> a * (d * 1) <= (c * 1 + (-1) * d) * b
  BY DEF Leq, Plus, Whole
<1> HIDE DEF a, b, c, d
<1>4. /\ (a * 1 + 1 * b) * d = a * d + b * d /\ a * (d * 1) = a * d
      /\ c * (b * 1) = c * b /\ (c * 1 + (-1) * d) * b = c * b - b * d
      /\ a * d \in Int /\ b * d \in Int /\ c * b \in Int
  BY <1>1
<1> QED
  BY <1>2, <1>3, <1>4
=============================================================================
