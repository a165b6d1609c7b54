--------------------------- MODULE Certificate_proofs ---------------------------
(***************************************************************************)
(* Theorems about Certificate for every problem and every list of          *)
(* derivations: its state is well typed; the signs print_eq, print_geq and *)
(* print_leq find in the text of a multiplier are sound; no derivation     *)
(* concludes more than it proves, at any point at all; and a certificate   *)
(* that is accepted proves its claim.                                      *)
(*                                                                         *)
(* All but the first suppose that no denominator of a multiplier is zero   *)
(* or negative; the last two also suppose that no number at all is divided *)
(* by zero.  Neither is checked by the code: run signs shows what it       *)
(* accepts otherwise, and so it does with ZeroDerivations (MCCertificate). *)
(*                                                                         *)
(* A step of the solver is a statement about a point x.  A side (module    *)
(* Certificate) holds at x, or does not; combining, rounding, dominating   *)
(* and splitting take sides that hold at x to sides that hold at x.        *)
(***************************************************************************)
EXTENDS Certificate, Numbers_proofs

(***************************************************************************)
(* Types.                                                                  *)
(***************************************************************************)

\* A line that does not throw cites earlier constraints only.
LEMMA CitedEarlier ==
  ASSUME NEW d \in Derivations, NEW k \in Int,
         d.reason.type \in {"lin", "rnd", "uns"}, ~D!CitesLater(d.reason, k),
         NEW n \in DOMAIN d.reason.indexes
  PROVE  d.reason.indexes[n] \in 0..(k - 1)
<1>1. d.reason.indexes[n] \in Nat
  BY DerivationAssumption
<1>2. d.reason.indexes[n] \in D!Cited(d.reason)
  BY DEF D!Cited
<1>. QED
  BY <1>1, <1>2 DEF D!CitesLater

\* The assumptions of a constraint are derivations.
LEMMA AssumptionsType ==
  ASSUME TypeOK, NEW n \in D!Index
  PROVE  D!AssumptionsOf(n) \subseteq D!Derived
BY DEF TypeOK, D!AssumptionsOf

LEMMA DependenciesType ==
  ASSUME TypeOK, NEW d \in Derivations, NEW k \in D!Index, k >= NumProblem,
         ~D!CitesLater(d.reason, k)
  PROVE  D!DependenciesOf(d.reason, k) \subseteq D!Derived
<1> DEFINE r == d.reason
<1>1. CASE r.type = "asm"
  BY <1>1 DEF D!DependenciesOf, D!Derived
<1>2. ASSUME r.type \in {"lin", "rnd", "uns"}, NEW n \in D!Cited(r)
      PROVE  D!AssumptionsOf(n) \subseteq D!Derived
  <2>1. n \in 0..(k - 1)
    BY <1>2, CitedEarlier DEF D!Cited, D!Index
  <2>2. n \in D!Index
    BY <2>1, SizeAssumption DEF D!Index
  <2>. QED
    BY <2>2, AssumptionsType
<1>3. CASE r.type \in {"lin", "rnd"}
  BY <1>2, <1>3 DEF D!DependenciesOf
<1>4. CASE r.type = "uns"
  <2>1. Len(r.indexes) = 4 /\ r.indexes \in Seq(Nat)
    BY <1>4, DerivationAssumption
  <2>2. D!get_i1(r) \in D!Cited(r) /\ D!get_i2(r) \in D!Cited(r)
    BY <2>1 DEF D!get_i1, D!get_i2, D!Cited
  <2>3. /\ D!AssumptionsOf(D!get_i1(r)) \subseteq D!Derived
        /\ D!AssumptionsOf(D!get_i2(r)) \subseteq D!Derived
    BY <1>2, <1>4, <2>2
  <2>. QED
    BY <1>4, <2>3 DEF D!DependenciesOf, D!UnsDependencies
<1>5. CASE r.type = "sol"
  BY <1>5 DEF D!DependenciesOf
<1>. QED
  BY <1>1, <1>3, <1>4, <1>5, DerivationAssumption

LEMMA InitType == Init => TypeOK
BY ProblemAssumption, SizeAssumption DEF Init, TypeOK

LEMMA NextType == TypeOK /\ [Next]_vars => TypeOK'
<1> SUFFICES ASSUME TypeOK, [Next]_vars PROVE TypeOK'
  OBVIOUS
<1>1. ASSUME NEW d \in Derivations, Derive(d.reason, d.constraint)
      PROVE  TypeOK'
  <2> DEFINE k == Len(constraints)
  <2>1. /\ k \in Nat /\ k >= NumProblem /\ k \in D!Index /\ constraints \in Seq(Constraint)
    BY <1>1, SizeAssumption DEF TypeOK, Derive
  <2>2. D!DependenciesOf(d.reason, k) \subseteq D!Derived
    BY <1>1, <2>1, DependenciesType DEF Derive
  <2>3. dependencies' \in [D!Index -> SUBSET D!Derived]
    BY <1>1, <2>1, <2>2 DEF TypeOK, Derive
  <2>4. /\ constraints' \in Seq(Constraint)
        /\ Len(constraints') = k + 1
    BY <1>1, <2>1, DerivationAssumption DEF Derive
  <2>5. k < NumProblem + MaxDerived
    BY <2>1, SizeAssumption DEF D!Index
  <2>6. UNCHANGED <<problem, verdict>>
    BY <1>1 DEF Derive
  <2>7. Len(constraints') \in NumProblem..(NumProblem + MaxDerived)
    BY <2>1, <2>4, <2>5, SizeAssumption
  <2>. QED
    BY <2>3, <2>4, <2>6, <2>7 DEF TypeOK, D!Index, D!Derived
<1>2. ASSUME NEW d \in Derivations, Refuse(d.reason, d.constraint)
      PROVE  TypeOK'
  BY <1>2 DEF TypeOK, Refuse, D!Index, D!Derived
<1>3. ASSUME NEW d \in Derivations, Throw(d.reason)
      PROVE  TypeOK'
  BY <1>3 DEF TypeOK, Throw, D!Index, D!Derived
<1>4. CASE Conclude
  BY <1>4 DEF TypeOK, Conclude, D!Index, D!Derived
<1>5. CASE UNCHANGED vars
  BY <1>5 DEF TypeOK, vars, D!Index, D!Derived
<1>. QED
  BY <1>1, <1>2, <1>3, <1>4, <1>5 DEF Next, Terminating

\* A certificate keeps its shape however it is read.
THEOREM TypeCorrect == Spec => []TypeOK
BY InitType, NextType, PTL DEF Spec

(***************************************************************************)
(* Signs.                                                                  *)
(***************************************************************************)

\* No denominator of a multiplier is zero or negative, but for a multiplier that
\* is zero by its text, which is not written.
PositiveDenominators ==
  \A d \in Derivations : \A n \in DOMAIN d.reason.multipliers :
    is_zero(d.reason.multipliers[n]) \/ d.reason.multipliers[n].denominator > 0

\* The sign of a product of a number whose denominator is positive and a
\* direction is no other than what is read off the numerator, and is read off it
\* if the number is not zero.
LEMMA SignOfProduct ==
  ASSUME NEW m \in Number, m.denominator > 0, NEW q, NEW s \in {-1, 1}
  PROVE  LET product == Times(print_number(q, m), Whole(s))
         IN  /\ s = (IF IsSigned(m) THEN -1 ELSE 1) => Compare(1, product, Whole(0))
             /\ s = (IF IsSigned(m) THEN 1 ELSE -1) => Compare(-1, product, Whole(0))
             /\ IntOf(m.numerator) # 0 =>
                  /\ Compare(1, product, Whole(0)) => s = (IF IsSigned(m) THEN -1 ELSE 1)
                  /\ Compare(-1, product, Whole(0)) => s = (IF IsSigned(m) THEN 1 ELSE -1)
                  /\ ~Compare(0, product, Whole(0))
<1>1. PICK p, d : p = IntOf(m.numerator) /\ d = m.denominator
  OBVIOUS
<1>2. /\ p \in Int /\ d \in Int /\ d > 0
      /\ IsSigned(m) => p <= 0
      /\ ~IsSigned(m) => p >= 0
  BY <1>1 DEF Number, Numeral, IntOf, IsSigned
<1>3. print_number(q, m) = <<p, d>>
  BY <1>1, <1>2 DEF print_number, Value
<1>4. CASE s = 1
  BY <1>1, <1>2, <1>3, <1>4 DEF Times, Whole, Compare, Leq, Same
<1>5. CASE s = -1
  BY <1>1, <1>2, <1>3, <1>5 DEF Times, Whole, Compare, Leq, Same
<1>. QED
  BY <1>4, <1>5

\* What is true of all the terms of a combination whatever the build.
LEMMA SignsOfReason ==
  ASSUME PositiveDenominators, TypeOK, NEW q,
         NEW d \in Derivations, d.reason.type \in {"lin", "rnd"},
         ~D!CitesLater(d.reason, Len(constraints))
  PROVE  /\ print_eq(d.reason) => print_conjunction_eq_leq_geq(q, d.reason, 0)
         /\ print_geq(d.reason) => print_conjunction_eq_leq_geq(q, d.reason, 1)
         /\ print_leq(d.reason) => print_conjunction_eq_leq_geq(q, d.reason, -1)
         /\ ZerosArePlain(d.reason) =>
              /\ print_conjunction_eq_leq_geq(q, d.reason, 0) => print_eq(d.reason)
              /\ print_conjunction_eq_leq_geq(q, d.reason, 1) => print_geq(d.reason)
              /\ print_conjunction_eq_leq_geq(q, d.reason, -1) => print_leq(d.reason)
<1> DEFINE r == d.reason
           m(n) == r.multipliers[n]
           s(n) == constraint(r.indexes[n]).direction
           product(n) == Times(print_number(q, m(n)), Whole(s(n)))
<1>1. ASSUME NEW n \in Unsettled(r)
      PROVE  /\ s(n) = (IF IsSigned(m(n)) THEN -1 ELSE 1) => Compare(1, product(n), Whole(0))
             /\ s(n) = (IF IsSigned(m(n)) THEN 1 ELSE -1) => Compare(-1, product(n), Whole(0))
             /\ ZerosArePlain(r) =>
                  /\ Compare(1, product(n), Whole(0)) => s(n) = (IF IsSigned(m(n)) THEN -1 ELSE 1)
                  /\ Compare(-1, product(n), Whole(0)) => s(n) = (IF IsSigned(m(n)) THEN 1 ELSE -1)
                  /\ ~Compare(0, product(n), Whole(0))
  <2>1. n \in DOMAIN r.indexes /\ ~is_zero(m(n)) /\ s(n) # 0
    BY <1>1 DEF Unsettled
  <2>2. n \in DOMAIN r.multipliers
    BY <2>1, DerivationAssumption
  <2>3. m(n) \in Number /\ m(n).denominator > 0
    BY <2>1, <2>2, DerivationAssumption DEF PositiveDenominators
  <2>4. ZerosArePlain(r) => IntOf(m(n).numerator) # 0
    BY <2>1, <2>2 DEF ZerosArePlain
  <2>5. r.indexes[n] \in 0..(Len(constraints) - 1)
    BY <2>1, CitedEarlier, SizeAssumption DEF TypeOK
  <2>6. constraint(r.indexes[n]) \in Constraint
    BY <2>5 DEF constraint, TypeOK
  <2>7. s(n) \in {-1, 1}
    BY <2>1, <2>6 DEF Constraint
  <2>. HIDE DEF r, s, m
  <2>. QED
    BY <2>3, <2>4, <2>7, SignOfProduct
<1>2. /\ print_geq(r) => print_conjunction_eq_leq_geq(q, r, 1)
      /\ ZerosArePlain(r) /\ print_conjunction_eq_leq_geq(q, r, 1) => print_geq(r)
  BY <1>1 DEF print_geq, print_conjunction_eq_leq_geq
<1>3. /\ print_leq(r) => print_conjunction_eq_leq_geq(q, r, -1)
      /\ ZerosArePlain(r) /\ print_conjunction_eq_leq_geq(q, r, -1) => print_leq(r)
  BY <1>1 DEF print_leq, print_conjunction_eq_leq_geq
<1>4. /\ print_eq(r) => print_conjunction_eq_leq_geq(q, r, 0)
      /\ ZerosArePlain(r) /\ print_conjunction_eq_leq_geq(q, r, 0) => print_eq(r)
  BY <1>1 DEF print_eq, print_conjunction_eq_leq_geq
<1>. QED
  BY <1>2, <1>3, <1>4

\* What print_eq, print_geq and print_leq find in the text of the multipliers is
\* what the solver would find in their values, with every text of a zero, in every
\* certificate in which no denominator of a multiplier is zero or negative.  The
\* run signs shows what the hypothesis is for.
THEOREM SignsAreSound ==
  ASSUME PositiveDenominators
  PROVE  Spec => []SignsSound
<1>1. TypeOK => SignsSound
  <2> SUFFICES ASSUME TypeOK, NEW r \in Reasons, NEW q \in Quotients, r.type \in {"lin", "rnd"},
                      ~D!CitesLater(r, Len(constraints))
               PROVE  /\ print_eq(r) => print_conjunction_eq_leq_geq(q, r, 0)
                      /\ print_geq(r) => print_conjunction_eq_leq_geq(q, r, 1)
                      /\ print_leq(r) => print_conjunction_eq_leq_geq(q, r, -1)
                      /\ ZerosArePlain(r) =>
                           /\ print_conjunction_eq_leq_geq(q, r, 0) => print_eq(r)
                           /\ print_conjunction_eq_leq_geq(q, r, 1) => print_geq(r)
                           /\ print_conjunction_eq_leq_geq(q, r, -1) => print_leq(r)
    BY DEF SignsSound
  <2>1. PICK d \in Derivations : r = d.reason
    BY DEF Reasons
  <2>. QED
    BY <2>1, SignsOfReason
<1>. QED
  BY <1>1, TypeCorrect, PTL

(***************************************************************************)
(* Vectors, and sides as statements about a point.                         *)
(***************************************************************************)
Vector == [Variables -> Rational]

\* What a side says of x.
SideHolds(s, x) ==
  /\ s.eq => Same(Dot(s.a, x), s.b)
  /\ s.geq => Leq(s.b, Dot(s.a, x))
  /\ s.leq => Leq(Dot(s.a, x), s.b)

IsSide(s) == s.a \in Vector /\ s.b \in Rational

\* Numbers and constraints in which nothing is divided by zero.
ExactNumber == {n \in Number : n.denominator # 0}
ExactConstraint ==
  [coefficients : [Variables -> ExactNumber], direction : {-1, 0, 1}, target : ExactNumber]

\* The solver has one way to read an exact number.
LEMMA ExactType ==
  ASSUME NEW n \in ExactNumber
  PROVE  /\ n \in Number /\ Value(n) \in Rational
         /\ is_zero(n) => IsZero(Value(n))
         /\ \A q : print_number(q, n) = Value(n)
<1>1. n \in Number /\ n.denominator # 0
  BY DEF ExactNumber
<1> QED
  BY <1>1, ValueType DEF print_number

LEMMA ValuesType ==
  ASSUME NEW v \in [Variables -> ExactNumber]
  PROVE  /\ Values(v) \in Vector /\ \A j \in Variables : Values(v)[j] = Value(v[j])
         /\ \A q : print_numbers(q, v) = Values(v)
BY ExactType DEF Values, Vector, print_numbers

\* A product, and the solver's reading of it: a zero by its text is a zero.
LEMMA TermIsProduct ==
  ASSUME NEW q, NEW m, NEW v \in Rational,
         is_zero(m) => IsZero(v), ~is_zero(m) => print_number(q, m) = v,
         NEW n \in ExactNumber
  PROVE  /\ Term(q, m, n) \in Rational /\ Times(v, Value(n)) \in Rational
         /\ Same(Term(q, m, n), Times(v, Value(n)))
<1>1. /\ Value(n) \in Rational /\ Times(v, Value(n)) \in Rational
      /\ Whole(0) \in Rational
  BY ExactType, RationalType, WholeType
<1>2. CASE is_zero(m) \/ is_zero(n)
  <2>1. IsZero(v) \/ IsZero(Value(n))
    BY <1>2, ExactType
  <2>2. IsZero(Times(v, Value(n)))
    BY <1>1, <2>1, ZeroTimes
  <2>3. Term(q, m, n) = Whole(0)
    BY <1>2 DEF Term
  <2>4. Times(v, Value(n))[2] \in Int
    BY <1>1, RationalType
  <2> QED
    BY <1>1, <2>2, <2>3, <2>4 DEF Same, IsZero, Whole
<1>3. CASE ~(is_zero(m) \/ is_zero(n))
  <2>1. Term(q, m, n) = Times(v, Value(n))
    BY <1>3, ExactType DEF Term
  <2> QED
    BY <1>1, <2>1, LeqTotal
<1> QED
  BY <1>2, <1>3

LEMMA DotIsTotal ==
  ASSUME NEW a \in Vector, NEW x \in Vector
  PROVE  /\ Dot(a, x) = Total(NumVariables, [j \in Variables |-> Times(a[j], x[j])])
         /\ \A j \in Variables : Times(a[j], x[j]) \in Rational
         /\ Dot(a, x) \in Rational
<1>1. NumVariables \in Nat /\ Variables = 1..NumVariables /\ DOMAIN a = Variables
  BY SizeAssumption DEF Variables, Vector
<1>2. Len(a) = NumVariables
  <2>1. a \in [1..NumVariables -> Rational]
    BY <1>1 DEF Vector
  <2> QED
    BY <1>1, <2>1
<1>3. \A j \in Variables : Times(a[j], x[j]) \in Rational
  BY RationalType DEF Vector
<1>4. Dot(a, x) = Total(NumVariables, [j \in Variables |-> Times(a[j], x[j])])
  BY <1>1, <1>2 DEF Dot
<1> DEFINE f == [j \in Variables |-> Times(a[j], x[j])]
<1>5. \A m \in 1..NumVariables : f[m] \in Rational
  BY <1>1, <1>3
<1> HIDE DEF f
<1>6. Total(NumVariables, f) \in Rational
  BY <1>1, <1>5, TotalType
<1> QED
  BY <1>3, <1>4, <1>6 DEF f

\* Coefficients that are the same or zero, or integral at an integral point.
LEMMA DotOfSame ==
  ASSUME NEW a \in Vector, NEW b \in Vector, NEW x \in Vector, \A j \in Variables : Same(a[j], b[j])
  PROVE  Same(Dot(a, x), Dot(b, x))
<1> DEFINE f == [j \in Variables |-> Times(a[j], x[j])]
           g == [j \in Variables |-> Times(b[j], x[j])]
<1>1. \A j \in Variables : f[j] \in Rational /\ g[j] \in Rational /\ Same(f[j], g[j])
  <2> SUFFICES ASSUME NEW j \in Variables
               PROVE  f[j] \in Rational /\ g[j] \in Rational /\ Same(f[j], g[j])
    OBVIOUS
  <2>1. a[j] \in Rational /\ b[j] \in Rational /\ x[j] \in Rational /\ Same(a[j], b[j])
    BY DEF Vector
  <2> QED
    BY <2>1, TimesOfSame, RationalType
<1>2. Dot(a, x) = Total(NumVariables, f) /\ Dot(b, x) = Total(NumVariables, g)
  BY DotIsTotal
<1>3. NumVariables \in Nat /\ Variables = 1..NumVariables
  BY SizeAssumption DEF Variables
<1> HIDE DEF f, g
<1> QED
  BY <1>1, <1>2, <1>3, TotalCongruent

LEMMA DotOfZeros ==
  ASSUME NEW a \in Vector, NEW x \in Vector, \A j \in Variables : IsZero(a[j])
  PROVE  IsZero(Dot(a, x))
<1> DEFINE f == [j \in Variables |-> Times(a[j], x[j])]
<1>1. \A j \in Variables : f[j] \in Rational /\ IsZero(f[j])
  <2> SUFFICES ASSUME NEW j \in Variables PROVE f[j] \in Rational /\ IsZero(f[j])
    OBVIOUS
  <2>1. a[j] \in Rational /\ x[j] \in Rational /\ IsZero(a[j])
    BY DEF Vector
  <2> QED
    BY <2>1, ZeroTimes, RationalType
<1>2. Dot(a, x) = Total(NumVariables, f)
  BY DotIsTotal
<1>3. NumVariables \in Nat /\ Variables = 1..NumVariables
  BY SizeAssumption DEF Variables
<1> HIDE DEF f
<1> QED
  BY <1>1, <1>2, <1>3, TotalOfZeros

LEMMA DotOfIntegers ==
  ASSUME NEW a \in Vector, NEW x \in Vector,
         \A j \in IntegralVariables : IsInt(a[j]) /\ IsInt(x[j]),
         \A j \in NonIntegralVariables : IsZero(a[j])
  PROVE  IsInt(Dot(a, x))
<1> DEFINE f == [j \in Variables |-> Times(a[j], x[j])]
<1>1. \A j \in Variables : f[j] \in Rational /\ IsInt(f[j])
  <2> SUFFICES ASSUME NEW j \in Variables PROVE f[j] \in Rational /\ IsInt(f[j])
    OBVIOUS
  <2>1. a[j] \in Rational /\ x[j] \in Rational /\ f[j] = Times(a[j], x[j]) /\ f[j] \in Rational
    BY RationalType DEF Vector
  <2>2. CASE j \in IntegralVariables
    BY <2>1, <2>2, IntOfPlus
  <2>3. CASE j \in NonIntegralVariables
    <3>1. IsZero(f[j])
      BY <2>1, <2>3, ZeroTimes
    <3> QED
      BY <2>1, <3>1, ZeroTimes
  <2> QED
    BY <2>1, <2>2, <2>3 DEF NonIntegralVariables
<1>2. Dot(a, x) = Total(NumVariables, f)
  BY DotIsTotal
<1>3. NumVariables \in Nat /\ Variables = 1..NumVariables
  BY SizeAssumption DEF Variables
<1> HIDE DEF f
<1> QED
  BY <1>1, <1>2, <1>3, IntOfTotal

\* A sum of products, and the solver's reading of it.
LEMMA SumIsDot ==
  ASSUME NEW q, NEW a \in [Variables -> ExactNumber], NEW b \in [Variables -> ExactNumber]
  PROVE  /\ SumOfProducts(q, a, b) \in Rational /\ Dot(Values(a), Values(b)) \in Rational
         /\ Same(SumOfProducts(q, a, b), Dot(Values(a), Values(b)))
<1> DEFINE v == Values(a)
           w == Values(b)
           f == [j \in Variables |-> Term(q, a[j], b[j])]
           g == [j \in Variables |-> Times(v[j], w[j])]
<1>1. /\ NumVariables \in Nat /\ Variables = 1..NumVariables
      /\ v \in Vector /\ w \in Vector
  BY SizeAssumption, ValuesType DEF Variables
<1>2. \A j \in Variables : f[j] \in Rational /\ g[j] \in Rational /\ Same(f[j], g[j])
  <2> SUFFICES ASSUME NEW j \in Variables
               PROVE  f[j] \in Rational /\ g[j] \in Rational /\ Same(f[j], g[j])
    OBVIOUS
  <2>1. a[j] \in ExactNumber /\ b[j] \in ExactNumber
    OBVIOUS
  <2>2. /\ Value(a[j]) \in Rational /\ (is_zero(a[j]) => IsZero(Value(a[j])))
        /\ print_number(q, a[j]) = Value(a[j])
    BY <2>1, ExactType
  <2>3. v[j] = Value(a[j]) /\ w[j] = Value(b[j])
    BY ValuesType
  <2> QED
    BY <2>1, <2>2, <2>3, TermIsProduct
<1>3. Len(a) = NumVariables /\ DOMAIN a = Variables
  BY <1>1
<1>4. SumOfProducts(q, a, b) = Total(NumVariables, f)
  BY <1>3 DEF SumOfProducts
<1>5. Dot(v, w) = Total(NumVariables, g) /\ Dot(v, w) \in Rational
  BY <1>1, DotIsTotal
<1> HIDE DEF f, g
<1>6. Total(NumVariables, f) \in Rational /\ Same(Total(NumVariables, f), Total(NumVariables, g))
  BY <1>1, <1>2, TotalType, TotalCongruent
<1> QED
  BY <1>4, <1>5, <1>6

\* What print_respect_bound says of exact numbers.
LEMMA RespectBound ==
  ASSUME NEW q, NEW a \in [Variables -> ExactNumber], NEW b \in [Variables -> ExactNumber],
         NEW direction \in {-1, 1}, NEW target \in ExactNumber,
         print_respect_bound(q, a, b, direction, target)
  PROVE  Compare(direction, Dot(Values(a), Values(b)), Value(target))
<1> DEFINE p == SumOfProducts(q, a, b)
           d == Dot(Values(a), Values(b))
           t == Value(target)
<1>1. p \in Rational /\ d \in Rational /\ t \in Rational /\ Same(p, d)
  BY SumIsDot, ExactType
<1>2. Leq(p, d) /\ Leq(d, p)
  BY <1>1, LeqTotal
<1>3. Compare(direction, p, t)
  BY ExactType DEF print_respect_bound
<1> HIDE DEF p, d, t
<1>4. ASSUME direction = 1 PROVE Compare(direction, d, t)
  <2>1. Leq(t, p)
    BY <1>3, <1>4 DEF Compare
  <2>2. Leq(t, d)
    BY <1>1, <1>2, <2>1, LeqTransitive
  <2> QED
    BY <1>4, <2>2 DEF Compare
<1>5. ASSUME direction = -1 PROVE Compare(direction, d, t)
  <2>1. Leq(p, t)
    BY <1>3, <1>5 DEF Compare
  <2>2. Leq(d, t)
    BY <1>1, <1>2, <2>1, LeqTransitive
  <2> QED
    BY <1>5, <2>2 DEF Compare
<1> QED
  BY <1>4, <1>5 DEF d, t

\* Sides that are the same hold at the same points.
LEMMA SideCongruent ==
  ASSUME NEW s, IsSide(s), NEW t, IsSide(t), NEW x \in Vector, SideHolds(s, x),
         \A j \in Variables : Same(t.a[j], s.a[j]), Same(t.b, s.b),
         t.eq => s.eq, t.geq => s.geq, t.leq => s.leq
  PROVE  SideHolds(t, x)
<1> DEFINE d == Dot(s.a, x)
           e == Dot(t.a, x)
<1>1. d \in Rational /\ e \in Rational /\ s.b \in Rational /\ t.b \in Rational
  BY DotIsTotal DEF IsSide
<1>2. Same(e, d)
  BY DotOfSame DEF IsSide
<1> HIDE DEF d, e
<1>3. Leq(d, e) /\ Leq(e, d) /\ Leq(s.b, t.b) /\ Leq(t.b, s.b)
  BY <1>1, <1>2, LeqTotal
<1>4. ASSUME t.geq \/ t.eq PROVE Leq(t.b, e)
  <2>1. Leq(s.b, d)
    BY <1>1, <1>4, LeqTotal DEF SideHolds, d
  <2>2. Leq(t.b, d)
    BY <1>1, <1>3, <2>1, LeqTransitive
  <2> QED
    BY <1>1, <1>3, <2>2, LeqTransitive
<1>5. ASSUME t.leq \/ t.eq PROVE Leq(e, t.b)
  <2>1. Leq(d, s.b)
    BY <1>1, <1>5, LeqTotal DEF SideHolds, d
  <2>2. Leq(e, s.b)
    BY <1>1, <1>3, <2>1, LeqTransitive
  <2> QED
    BY <1>1, <1>3, <2>2, LeqTransitive
<1>6. t.eq => Same(e, t.b)
  BY <1>1, <1>4, <1>5, LeqTotal
<1> QED
  BY <1>4, <1>5, <1>6 DEF SideHolds, e

\* The side of a constraint says what the constraint says.
LEMMA SideOfConstraint ==
  ASSUME NEW q, NEW c \in ExactConstraint, NEW x \in Vector
  PROVE  /\ IsSide(SideOf(q, c))
         /\ SideHolds(SideOf(q, c), x) <=> Holds(c, x)
         /\ SideOf(q, c) = Side(Values(c.coefficients), c.direction, Value(c.target))
<1>0. SideOf(q, c) = Side(Values(c.coefficients), c.direction, Value(c.target))
  BY ValuesType, ExactType DEF ExactConstraint, SideOf
<1>1. /\ Values(c.coefficients) \in Vector /\ Value(c.target) \in Rational
      /\ c.direction \in {-1, 0, 1}
  BY ValuesType, ExactType DEF ExactConstraint
<1>2. Dot(Values(c.coefficients), x) \in Rational
  BY <1>1, DotIsTotal
<1> DEFINE d == Dot(Values(c.coefficients), x)
           t == Value(c.target)
           v == Values(c.coefficients)
           s == Side(v, c.direction, t)
<1>3. /\ s.a = v /\ s.b = t
      /\ s.eq <=> c.direction = 0
      /\ s.geq <=> c.direction >= 0
      /\ s.leq <=> c.direction <= 0
  BY DEF Side
<1>4. IsSide(s)
  BY <1>1, <1>3 DEF IsSide
<1>5. Same(d, t) <=> Leq(d, t) /\ Leq(t, d)
  BY <1>1, <1>2, LeqTotal
<1>6. Holds(c, x) <=> Compare(c.direction, d, t)
  BY DEF Holds
<1>7. SideHolds(s, x) <=> /\ c.direction = 0 => Same(d, t)
                          /\ c.direction >= 0 => Leq(t, d)
                          /\ c.direction <= 0 => Leq(d, t)
  BY <1>3 DEF SideHolds
<1> HIDE DEF d, t, s, v
<1>8. SideHolds(s, x) <=> Holds(c, x)
  BY <1>1, <1>5, <1>6, <1>7 DEF Compare
<1>9. SideOf(q, c) = s
  BY <1>0 DEF s, v, t
<1> QED
  BY <1>4, <1>8, <1>9, <1>0

\* A side whose coefficients are all zero cannot ask for more than zero.
LEMMA NoZeroSide ==
  ASSUME NEW s, IsSide(s), NEW x \in Vector, SideHolds(s, x), AllZero(s)
  PROVE  /\ s.eq => IsZero(s.b)
         /\ s.geq => ~(s.b[1] > 0)
         /\ s.leq => ~(s.b[1] < 0)
<1> DEFINE d == Dot(s.a, x)
<1>1. IsZero(d) /\ d \in Rational /\ s.b \in Rational
  BY DotOfZeros, DotIsTotal DEF IsSide, AllZero
<1>2. d[1] = 0 /\ d[2] \in Nat /\ d[2] > 0 /\ s.b[1] \in Int /\ s.b[2] \in Nat
  BY <1>1, RationalType DEF IsZero
<1>3. /\ s.eq => d[1] * s.b[2] = s.b[1] * d[2]
      /\ s.geq => s.b[1] * d[2] <= d[1] * s.b[2]
      /\ s.leq => d[1] * s.b[2] <= s.b[1] * d[2]
  BY DEF SideHolds, Same, Leq
<1>4. d[1] * s.b[2] = 0
  BY <1>2
<1>5. /\ s.b[1] > 0 => s.b[1] * d[2] > 0
      /\ s.b[1] < 0 => s.b[1] * d[2] < 0
  BY <1>2
<1> QED
  BY <1>2, <1>3, <1>4, <1>5 DEF IsZero

\* Domination: a side that holds makes the side it dominates hold.
LEMMA Domination ==
  ASSUME NEW s, IsSide(s), NEW x \in Vector, SideHolds(s, x),
         NEW a \in Vector, NEW direction \in {-1, 0, 1}, NEW b \in Rational,
         print_DOM(s, Side(a, direction, b))
  PROVE  SideHolds(Side(a, direction, b), x)
<1> DEFINE t == Side(a, direction, b)
           d == Dot(s.a, x)
           e == Dot(a, x)
<1>1. /\ t.a = a /\ t.b = b
      /\ t.eq <=> direction = 0
      /\ t.geq <=> direction >= 0
      /\ t.leq <=> direction <= 0
  BY DEF Side
<1>2. s.a \in Vector /\ s.b \in Rational /\ d \in Rational /\ e \in Rational
  BY DotIsTotal DEF IsSide
<1> HIDE DEF t
<1>3. ~ /\ AllZero(s)
        /\ \/ s.eq /\ ~IsZero(s.b)
           \/ ~s.eq /\ s.geq /\ s.b[1] > 0
           \/ ~s.eq /\ ~s.geq /\ s.leq /\ s.b[1] < 0
  BY NoZeroSide
<1>4. /\ SameCoefficients(s, t)
      /\ \/ t.eq /\ s.eq /\ Same(s.b, t.b)
         \/ ~t.eq /\ t.geq /\ s.geq /\ Leq(t.b, s.b)
         \/ ~t.eq /\ ~t.geq /\ t.leq /\ s.leq /\ Leq(s.b, t.b)
  BY <1>3 DEF print_DOM, t
<1>5. Same(d, e)
  BY <1>1, <1>2, <1>4, DotOfSame DEF SameCoefficients
<1>6. Leq(d, e) /\ Leq(e, d)
  BY <1>2, <1>5, LeqTotal
<1>7. CASE t.eq
  <2>1. Same(d, s.b) /\ Same(s.b, b)
    BY <1>1, <1>4, <1>7 DEF SideHolds
  <2>2. Same(e, d) /\ Same(d, b)
    BY <1>2, <1>5, <2>1, SameOfSame
  <2>3. Same(e, b)
    BY <1>2, <2>2, SameOfSame
  <2>4. Leq(e, b) /\ Leq(b, e)
    BY <1>2, <2>3, LeqTotal
  <2> QED
    BY <1>1, <2>3, <2>4 DEF SideHolds, t
<1>8. CASE ~t.eq /\ t.geq
  <2>1. Leq(b, s.b) /\ Leq(s.b, d)
    BY <1>1, <1>4, <1>8 DEF SideHolds
  <2>2. Leq(b, e)
    <3>1. Leq(b, d)
      BY <1>2, <2>1, LeqTransitive
    <3> QED
      BY <1>2, <1>6, <3>1, LeqTransitive
  <2> QED
    BY <1>1, <1>8, <2>2 DEF SideHolds, t
<1>9. CASE ~t.eq /\ ~t.geq
  <2>1. Leq(s.b, b) /\ Leq(d, s.b)
    BY <1>1, <1>4, <1>9 DEF SideHolds
  <2>2. Leq(e, b)
    <3>1. Leq(d, b)
      BY <1>2, <2>1, LeqTransitive
    <3> QED
      BY <1>2, <1>6, <3>1, LeqTransitive
  <2> QED
    BY <1>1, <1>9, <2>2 DEF SideHolds, t
<1> QED
  BY <1>7, <1>8, <1>9

\* ... and so for constraints.
LEMMA DominationOfConstraint ==
  ASSUME NEW s, IsSide(s), NEW x \in Vector, SideHolds(s, x),
         NEW q, NEW c \in ExactConstraint, print_DOM(s, SideOf(q, c))
  PROVE  Holds(c, x)
<1>1. /\ SideOf(q, c) = Side(Values(c.coefficients), c.direction, Value(c.target))
      /\ SideHolds(SideOf(q, c), x) <=> Holds(c, x)
  BY SideOfConstraint
<1>2. /\ Values(c.coefficients) \in Vector /\ Value(c.target) \in Rational
      /\ c.direction \in {-1, 0, 1}
  BY ValuesType, ExactType DEF ExactConstraint
<1> QED
  BY <1>1, <1>2, Domination

(***************************************************************************)
(* Linear combinations.                                                    *)
(***************************************************************************)

\* What a multiplier counts for: nothing if it is zero by its text.
Factor(m) == IF is_zero(m) THEN Whole(0) ELSE Value(m)

LEMMA FactorType ==
  ASSUME NEW m \in Number, is_zero(m) \/ m.denominator > 0
  PROVE  /\ Factor(m) \in Rational
         /\ is_zero(m) => IsZero(Factor(m))
         /\ ~is_zero(m) => \A q : print_number(q, m) = Factor(m)
         /\ IsSigned(m) => Factor(m)[1] <= 0
         /\ ~IsSigned(m) => Factor(m)[1] >= 0
<1>1. CASE is_zero(m)
  <2>1. Factor(m) = <<0, 1>>
    BY <1>1 DEF Factor, Whole
  <2> QED
    BY <1>1, <2>1 DEF Rational, IsZero
<1>2. CASE ~is_zero(m)
  <2>1. m.denominator > 0 /\ m.denominator \in Int
    BY <1>2 DEF Number
  <2>2. Factor(m) = <<IntOf(m.numerator), m.denominator>>
    BY <1>2, <2>1 DEF Factor, Value
  <2>3. \A q : print_number(q, m) = Value(m)
    BY <2>1 DEF print_number
  <2>4. /\ IntOf(m.numerator) \in Int
        /\ IsSigned(m) => IntOf(m.numerator) <= 0
        /\ ~IsSigned(m) => IntOf(m.numerator) >= 0
    BY DEF Number, Numeral, IntOf, IsSigned
  <2> QED
    BY <1>2, <2>1, <2>2, <2>3, <2>4 DEF Rational, Factor
<1> QED
  BY <1>1, <1>2

\* The reason is a lin or rnd whose constraints hold at x, and whose multipliers
\* have the sign of their numerators.
Combines(r, x) ==
  /\ r.indexes \in Seq(Nat) /\ r.multipliers \in Seq(Number)
  /\ Len(r.multipliers) = Len(r.indexes)
  /\ \A n \in DOMAIN r.indexes :
       /\ is_zero(r.multipliers[n]) \/ r.multipliers[n].denominator > 0
       /\ constraint(r.indexes[n]) \in ExactConstraint
       /\ Holds(constraint(r.indexes[n]), x)

\* A constraint times a multiplier, as the three signs of print_eq, print_geq and
\* print_leq take it.
LEMMA TermHolds ==
  ASSUME NEW x \in Vector, NEW c \in ExactConstraint, Holds(c, x),
         NEW m \in Number, is_zero(m) \/ m.denominator > 0
  PROVE  LET d == Times(Factor(m), Dot(Values(c.coefficients), x))
             b == Times(Factor(m), Value(c.target))
         IN  /\ d \in Rational /\ b \in Rational
             /\ is_zero(m) \/ c.direction = 0 => Same(d, b)
             /\ c.direction = (IF IsSigned(m) THEN -1 ELSE 1) => Leq(b, d)
             /\ c.direction = (IF IsSigned(m) THEN 1 ELSE -1) => Leq(d, b)
<1> DEFINE v == Factor(m)
           t == Value(c.target)
           e == Dot(Values(c.coefficients), x)
<1>1. /\ v \in Rational /\ t \in Rational /\ e \in Rational
      /\ c.direction \in {-1, 0, 1}
  BY ValuesType, ExactType, FactorType, DotIsTotal DEF ExactConstraint
<1>2. /\ v[1] \in Int
      /\ is_zero(m) => IsZero(v)
      /\ IsSigned(m) => v[1] <= 0
      /\ ~IsSigned(m) => v[1] >= 0
  BY <1>1, RationalType, FactorType
<1>3. Compare(c.direction, e, t)
  BY DEF Holds
<1> HIDE DEF v, t, e
<1>4. Times(v, e) \in Rational /\ Times(v, t) \in Rational
  BY <1>1, RationalType
<1>5. ASSUME is_zero(m) PROVE Same(Times(v, e), Times(v, t))
  <2>1. IsZero(v)
    BY <1>2, <1>5
  <2>2. IsZero(Times(v, e)) /\ IsZero(Times(v, t))
    BY <1>1, <2>1, ZeroTimes
  <2>3. Times(v, e)[2] \in Int /\ Times(v, t)[2] \in Int
    BY <1>4, RationalType
  <2> QED
    BY <2>2, <2>3 DEF IsZero, Same
<1>6. ASSUME c.direction = 0 PROVE Same(Times(v, e), Times(v, t))
  <2>1. Same(e, t)
    BY <1>3, <1>6 DEF Compare
  <2> QED
    BY <1>1, <2>1, TimesOfSame
<1>7. c.direction = 1 => Leq(t, e)
  BY <1>3 DEF Compare
<1>8. c.direction = -1 => Leq(e, t)
  BY <1>3 DEF Compare
<1>9. ASSUME c.direction = (IF IsSigned(m) THEN -1 ELSE 1) PROVE Leq(Times(v, t), Times(v, e))
  <2>1. CASE IsSigned(m)
    <3>1. Leq(e, t) /\ v[1] <= 0
      BY <1>2, <1>8, <1>9, <2>1
    <3> QED
      BY <1>1, <3>1, TimesMonotone
  <2>2. CASE ~IsSigned(m)
    <3>1. Leq(t, e) /\ v[1] >= 0
      BY <1>2, <1>7, <1>9, <2>2
    <3> QED
      BY <1>1, <3>1, TimesMonotone
  <2> QED
    BY <2>1, <2>2
<1>10. ASSUME c.direction = (IF IsSigned(m) THEN 1 ELSE -1) PROVE Leq(Times(v, e), Times(v, t))
  <2>1. CASE IsSigned(m)
    <3>1. Leq(t, e) /\ v[1] <= 0
      BY <1>2, <1>7, <1>10, <2>1
    <3> QED
      BY <1>1, <3>1, TimesMonotone
  <2>2. CASE ~IsSigned(m)
    <3>1. Leq(e, t) /\ v[1] >= 0
      BY <1>2, <1>8, <1>10, <2>2
    <3> QED
      BY <1>1, <3>1, TimesMonotone
  <2> QED
    BY <2>1, <2>2
<1> QED
  BY <1>4, <1>5, <1>6, <1>9, <1>10 DEF v, t, e

\* The terms of a combination at x: each constraint's product with x, multiplied.
Terms(r, x) ==
  [n \in DOMAIN r.indexes |->
     Times(Factor(r.multipliers[n]), Dot(Values(constraint(r.indexes[n]).coefficients), x))]

LEMMA TermTypes ==
  ASSUME NEW x \in Vector, NEW r, Combines(r, x)
  PROVE  /\ Len(r.indexes) \in Nat /\ DOMAIN r.indexes = 1..Len(r.indexes)
         /\ \A n \in DOMAIN r.indexes :
              /\ r.multipliers[n] \in Number /\ Factor(r.multipliers[n]) \in Rational
              /\ constraint(r.indexes[n]) \in ExactConstraint
              /\ \A j \in Variables : Value(constraint(r.indexes[n]).coefficients[j]) \in Rational
              /\ Value(constraint(r.indexes[n]).target) \in Rational
<1>1. Len(r.indexes) \in Nat /\ DOMAIN r.indexes = 1..Len(r.indexes)
  BY DEF Combines
<1>2. \A n \in DOMAIN r.indexes : r.multipliers[n] \in Number
  BY <1>1 DEF Combines
<1>3. \A n \in DOMAIN r.indexes : constraint(r.indexes[n]) \in ExactConstraint
  BY DEF Combines
<1>4. \A n \in DOMAIN r.indexes : Factor(r.multipliers[n]) \in Rational
  BY <1>2, FactorType DEF Combines
<1> QED
  BY <1>1, <1>2, <1>3, <1>4, ExactType DEF ExactConstraint

\* The combination of exact constraints.
CombinedCoefficient(r, j) ==
  Total(Len(r.indexes),
        [n \in DOMAIN r.indexes |->
           Times(Factor(r.multipliers[n]), Value(constraint(r.indexes[n]).coefficients[j]))])
CombinedTarget(r) ==
  Total(Len(r.indexes),
        [n \in DOMAIN r.indexes |->
           Times(Factor(r.multipliers[n]), Value(constraint(r.indexes[n]).target))])
ExactCombination(r) ==
  [a |-> [j \in Variables |-> CombinedCoefficient(r, j)], b |-> CombinedTarget(r),
   eq |-> print_eq(r), geq |-> print_geq(r), leq |-> print_leq(r)]

\* The product of the combined coefficients with x is the sum of the terms.
LEMMA CombinationDot ==
  ASSUME NEW x \in Vector, NEW r, Combines(r, x)
  PROVE  /\ IsSide(ExactCombination(r))
         /\ Total(Len(r.indexes), Terms(r, x)) \in Rational
         /\ \A n \in DOMAIN r.indexes : Terms(r, x)[n] \in Rational
         /\ Same(Dot(ExactCombination(r).a, x), Total(Len(r.indexes), Terms(r, x)))
<1> DEFINE k == Len(r.indexes)
           v(n) == Factor(r.multipliers[n])
           w(n) == Values(constraint(r.indexes[n]).coefficients)
           t(n) == Value(constraint(r.indexes[n]).target)
           a == [j \in Variables |-> CombinedCoefficient(r, j)]
           m == [n \in 1..k |-> [j \in Variables |-> Times(Times(v(n), w(n)[j]), x[j])]]
           rows == [n \in 1..k |-> Total(NumVariables, m[n])]
           columns == [j \in Variables |-> Total(k, [n \in 1..k |-> m[n][j]])]
           products == [j \in Variables |-> Times(a[j], x[j])]
<1>1. /\ k \in Nat /\ DOMAIN r.indexes = 1..k
      /\ NumVariables \in Nat /\ Variables = 1..NumVariables
      /\ \A j \in Variables : x[j] \in Rational
  BY TermTypes, SizeAssumption DEF Variables, Vector
<1>2. \A n \in 1..k : v(n) \in Rational /\ w(n) \in Vector /\ t(n) \in Rational
  <2>1. \A n \in 1..k : constraint(r.indexes[n]) \in ExactConstraint
    BY <1>1, TermTypes
  <2>2. \A n \in 1..k : w(n) \in Vector
    BY <2>1, ValuesType DEF ExactConstraint
  <2> QED
    BY <1>1, <2>2, TermTypes
<1>3. \A n \in 1..k : \A j \in Variables : w(n)[j] \in Rational /\ Times(v(n), w(n)[j]) \in Rational
  BY <1>2, RationalType DEF Vector
<1>4. ASSUME NEW j \in Variables
      PROVE  a[j] = Total(k, [n \in 1..k |-> Times(v(n), w(n)[j])])
  <2>1. \A n \in 1..k : w(n)[j] = Value(constraint(r.indexes[n]).coefficients[j])
    <3>1. \A n \in 1..k : constraint(r.indexes[n]).coefficients \in [Variables -> ExactNumber]
      BY <1>1, TermTypes DEF ExactConstraint
    <3> QED
      BY <3>1, ValuesType
  <2>2. a[j] = Total(k, [n \in 1..k |->
                           Times(v(n), Value(constraint(r.indexes[n]).coefficients[j]))])
    BY <1>1 DEF CombinedCoefficient
  <2>3. [n \in 1..k |-> Times(v(n), Value(constraint(r.indexes[n]).coefficients[j]))]
          = [n \in 1..k |-> Times(v(n), w(n)[j])]
    BY <2>1
  <2> QED
    BY <2>2, <2>3
<1>5. CombinedTarget(r) = Total(k, [n \in 1..k |-> Times(v(n), t(n))])
  BY <1>1 DEF CombinedTarget
<1>6. ExactCombination(r).a = a /\ ExactCombination(r).b = CombinedTarget(r)
  BY DEF ExactCombination
<1>7. Terms(r, x) = [n \in 1..k |-> Times(v(n), Dot(w(n), x))]
  BY <1>1 DEF Terms
<1> HIDE DEF v, w, t, k, a
<1>8. \A n \in 1..k : Times(v(n), t(n)) \in Rational
  BY <1>2, RationalType
<1>9. CombinedTarget(r) \in Rational
  <2> DEFINE f == [n \in 1..k |-> Times(v(n), t(n))]
  <2>1. \A n \in 1..k : f[n] \in Rational
    BY <1>8
  <2> HIDE DEF f
  <2>2. Total(k, f) \in Rational
    BY <1>1, <2>1, TotalType
  <2> QED
    BY <1>5, <2>2 DEF f
<1>10. ASSUME NEW j \in Variables PROVE a[j] \in Rational
  <2> DEFINE f == [n \in 1..k |-> Times(v(n), w(n)[j])]
  <2>1. \A n \in 1..k : f[n] \in Rational
    BY <1>3
  <2> HIDE DEF f
  <2>2. Total(k, f) \in Rational
    BY <1>1, <2>1, TotalType
  <2> QED
    BY <1>4, <2>2 DEF f
<1>11. a \in Vector
  <2>1. a = [j \in Variables |-> a[j]]
    BY DEF a
  <2> QED
    BY <1>10, <2>1 DEF Vector
<1>12. \A n \in 1..k : \A j \in Variables : m[n][j] \in Rational
  BY <1>1, <1>3, RationalType
<1>13. Same(Total(k, rows), Total(NumVariables, columns))
  <2> HIDE DEF m
  <2>1. Same(Total(k, [n \in 1..k |-> Total(NumVariables, m[n])]),
             Total(NumVariables, [j \in 1..NumVariables |-> Total(k, [n \in 1..k |-> m[n][j]])]))
    BY <1>1, <1>12, TotalOfTotals
  <2> QED
    BY <1>1, <2>1
<1>14. ASSUME NEW n \in 1..k
       PROVE  /\ rows[n] \in Rational /\ Terms(r, x)[n] \in Rational
              /\ Same(rows[n], Terms(r, x)[n])
  <2> DEFINE f == [j \in Variables |-> Times(w(n)[j], x[j])]
             g == m[n]
  <2>1. v(n) \in Rational /\ w(n) \in Vector
    BY <1>2
  <2>2. Dot(w(n), x) = Total(NumVariables, f) /\ Dot(w(n), x) \in Rational
    BY <2>1, DotIsTotal
  <2>3. ASSUME NEW j \in Variables
        PROVE  f[j] \in Rational /\ g[j] = Times(v(n), f[j]) /\ g[j] \in Rational
    <3>1. g[j] = Times(Times(v(n), w(n)[j]), x[j]) /\ f[j] = Times(w(n)[j], x[j])
      OBVIOUS
    <3>2. x[j] \in Rational /\ w(n)[j] \in Rational /\ g[j] \in Rational
      BY <1>1, <1>3, <1>12
    <3>3. Times(Times(v(n), w(n)[j]), x[j]) = Times(v(n), Times(w(n)[j], x[j]))
      BY <2>1, <3>2, TimesOfTimes
    <3>4. Times(w(n)[j], x[j]) \in Rational
      BY <3>2, RationalType
    <3> HIDE DEF f, g
    <3> QED
      BY <3>1, <3>2, <3>3, <3>4
  <2> HIDE DEF f, g
  <2>4. Same(Total(NumVariables, g), Times(v(n), Total(NumVariables, f)))
    BY <1>1, <2>1, <2>3, TotalOfTimes
  <2>5. Total(NumVariables, g) \in Rational
    BY <1>1, <2>3, TotalType
  <2>6. Times(v(n), Dot(w(n), x)) \in Rational
    BY <2>1, <2>2, RationalType
  <2>7. rows[n] = Total(NumVariables, g) /\ Terms(r, x)[n] = Times(v(n), Dot(w(n), x))
    BY <1>7 DEF g
  <2> QED
    BY <2>2, <2>4, <2>5, <2>6, <2>7
<1>15. ASSUME NEW j \in Variables
       PROVE  /\ products[j] \in Rational /\ columns[j] \in Rational
              /\ Same(columns[j], products[j])
  <2> DEFINE f == [n \in 1..k |-> Times(v(n), w(n)[j])]
             g == [n \in 1..k |-> m[n][j]]
  <2>1. x[j] \in Rational /\ a[j] \in Rational /\ a[j] = Total(k, f)
    BY <1>1, <1>4, <1>10
  <2>2. \A n \in 1..k : f[n] \in Rational /\ g[n] = Times(x[j], f[n]) /\ g[n] \in Rational
    BY <1>3, <1>12, <2>1, TimesCommutes
  <2>3. products[j] = Times(a[j], x[j]) /\ columns[j] = Total(k, g)
    OBVIOUS
  <2> HIDE DEF f, g
  <2>4. Same(Total(k, g), Times(x[j], Total(k, f)))
    BY <1>1, <2>1, <2>2, TotalOfTimes
  <2>5. Total(k, g) \in Rational /\ Times(a[j], x[j]) \in Rational
    BY <1>1, <2>1, <2>2, TotalType, RationalType
  <2>6. Times(x[j], a[j]) = Times(a[j], x[j])
    BY <2>1, TimesCommutes
  <2> HIDE DEF products, columns
  <2> QED
    BY <2>1, <2>3, <2>4, <2>5, <2>6
<1>16. Dot(a, x) = Total(NumVariables, products) /\ Dot(a, x) \in Rational
  BY <1>11, DotIsTotal
<1> HIDE DEF m, rows, columns, products
<1>17. /\ Total(k, rows) \in Rational /\ Total(k, Terms(r, x)) \in Rational
       /\ Same(Total(k, rows), Total(k, Terms(r, x)))
  BY <1>1, <1>14, TotalType, TotalCongruent
<1>18. /\ Total(NumVariables, columns) \in Rational
       /\ Same(Total(NumVariables, columns), Total(NumVariables, products))
  BY <1>1, <1>15, TotalType, TotalCongruent
<1>19. Same(Dot(a, x), Total(k, Terms(r, x)))
  <2>1. Same(Dot(a, x), Total(NumVariables, columns))
    BY <1>16, <1>18, SameOfSame
  <2>2. Same(Total(NumVariables, columns), Total(k, rows))
    BY <1>13, <1>17, <1>18, SameOfSame
  <2>3. Same(Dot(a, x), Total(k, rows))
    BY <1>16, <1>17, <1>18, <2>1, <2>2, SameOfSame
  <2> QED
    BY <1>16, <1>17, <2>3, SameOfSame
<1>20. IsSide(ExactCombination(r))
  BY <1>6, <1>9, <1>11 DEF IsSide
<1> QED
  BY <1>1, <1>6, <1>14, <1>17, <1>19, <1>20 DEF k

\* A combination of constraints that hold at x holds at x.
LEMMA ExactCombinationHolds ==
  ASSUME NEW x \in Vector, NEW r, Combines(r, x)
  PROVE  IsSide(ExactCombination(r)) /\ SideHolds(ExactCombination(r), x)
<1> DEFINE k == Len(r.indexes)
           f == Terms(r, x)
           g == [n \in DOMAIN r.indexes |->
                   Times(Factor(r.multipliers[n]), Value(constraint(r.indexes[n]).target))]
           s == ExactCombination(r)
<1>1. k \in Nat /\ DOMAIN r.indexes = 1..k
  BY TermTypes
<1>2. /\ IsSide(s) /\ Total(k, f) \in Rational /\ Same(Dot(s.a, x), Total(k, f))
      /\ Dot(s.a, x) \in Rational
  BY CombinationDot, DotIsTotal DEF IsSide
<1>3. /\ s.b = Total(k, g) /\ s.b \in Rational
      /\ s.eq <=> print_eq(r)
      /\ s.geq <=> print_geq(r)
      /\ s.leq <=> print_leq(r)
  BY <1>2 DEF ExactCombination, CombinedTarget, IsSide
<1>4. ASSUME NEW n \in 1..k
      PROVE  LET m == r.multipliers[n]
                 direction == constraint(r.indexes[n]).direction
             IN  /\ f[n] \in Rational /\ g[n] \in Rational
                 /\ is_zero(m) \/ direction = 0 => Same(f[n], g[n])
                 /\ direction = (IF IsSigned(m) THEN -1 ELSE 1) => Leq(g[n], f[n])
                 /\ direction = (IF IsSigned(m) THEN 1 ELSE -1) => Leq(f[n], g[n])
  <2> DEFINE m == r.multipliers[n]
             c == constraint(r.indexes[n])
  <2>1. m \in Number /\ c \in ExactConstraint /\ Holds(c, x) /\ (is_zero(m) \/ m.denominator > 0)
    BY <1>1, TermTypes DEF Combines
  <2>2. /\ f[n] = Times(Factor(m), Dot(Values(c.coefficients), x))
        /\ g[n] = Times(Factor(m), Value(c.target))
    BY <1>1 DEF Terms
  <2> HIDE DEF m, c, f, g
  <2>3. /\ f[n] \in Rational /\ g[n] \in Rational
        /\ is_zero(m) \/ c.direction = 0 => Same(f[n], g[n])
        /\ c.direction = (IF IsSigned(m) THEN -1 ELSE 1) => Leq(g[n], f[n])
        /\ c.direction = (IF IsSigned(m) THEN 1 ELSE -1) => Leq(f[n], g[n])
    BY <2>1, <2>2, TermHolds
  <2> QED
    BY <2>3 DEF m, c
<1> HIDE DEF f, g, s
<1>5. \A n \in 1..k : n \notin Unsettled(r) => Same(f[n], g[n])
  BY <1>1, <1>4 DEF Unsettled
<1>6. \A n \in 1..k : f[n] \in Rational /\ g[n] \in Rational
  BY <1>4
<1>7. \A n \in 1..k : Same(f[n], g[n]) => Leq(f[n], g[n]) /\ Leq(g[n], f[n])
  BY <1>6, LeqTotal
<1>8. ASSUME print_eq(r) PROVE Same(Dot(s.a, x), s.b)
  <2>1. \A n \in 1..k : Same(f[n], g[n])
    BY <1>5, <1>8 DEF print_eq
  <2>2. Same(Total(k, f), Total(k, g))
    BY <1>1, <1>6, <2>1, TotalCongruent
  <2> QED
    BY <1>2, <1>3, <2>2, SameOfSame
<1>9. ASSUME print_geq(r) PROVE Leq(s.b, Dot(s.a, x))
  <2>1. \A n \in 1..k : Leq(g[n], f[n])
    BY <1>4, <1>5, <1>7, <1>9 DEF print_geq
  <2>2. Leq(Total(k, g), Total(k, f))
    BY <1>1, <1>6, <2>1, TotalMonotone
  <2>3. Leq(Total(k, f), Dot(s.a, x))
    BY <1>2, LeqTotal
  <2> QED
    BY <1>2, <1>3, <2>2, <2>3, LeqTransitive
<1>10. ASSUME print_leq(r) PROVE Leq(Dot(s.a, x), s.b)
  <2>1. \A n \in 1..k : Leq(f[n], g[n])
    BY <1>4, <1>5, <1>7, <1>10 DEF print_leq
  <2>2. Leq(Total(k, f), Total(k, g))
    BY <1>1, <1>6, <2>1, TotalMonotone
  <2>3. Leq(Dot(s.a, x), Total(k, f))
    BY <1>2, LeqTotal
  <2> QED
    BY <1>2, <1>3, <2>2, <2>3, LeqTransitive
<1> QED
  BY <1>2, <1>3, <1>8, <1>9, <1>10 DEF SideHolds, s

\* A sum over the constraints of a combination, of a coefficient or the target.
LEMMA TotalOfTerms ==
  ASSUME NEW x \in Vector, NEW r, Combines(r, x), NEW q,
         NEW w, \A n \in DOMAIN r.indexes : w[n] \in ExactNumber
  PROVE  LET written == Total(Len(r.indexes),
                              [n \in DOMAIN r.indexes |-> Term(q, r.multipliers[n], w[n])])
             exact == Total(Len(r.indexes),
                            [n \in DOMAIN r.indexes |->
                               Times(Factor(r.multipliers[n]), Value(w[n]))])
         IN  written \in Rational /\ exact \in Rational /\ Same(written, exact)
<1> DEFINE k == Len(r.indexes)
           f == [n \in DOMAIN r.indexes |-> Term(q, r.multipliers[n], w[n])]
           g == [n \in DOMAIN r.indexes |-> Times(Factor(r.multipliers[n]), Value(w[n]))]
<1>1. k \in Nat /\ DOMAIN r.indexes = 1..k
  BY TermTypes
<1>2. ASSUME NEW n \in 1..k
      PROVE  f[n] \in Rational /\ g[n] \in Rational /\ Same(f[n], g[n])
  <2>1. /\ r.multipliers[n] \in Number /\ w[n] \in ExactNumber
        /\ is_zero(r.multipliers[n]) \/ r.multipliers[n].denominator > 0
    BY <1>1, TermTypes DEF Combines
  <2>2. /\ f[n] = Term(q, r.multipliers[n], w[n])
        /\ g[n] = Times(Factor(r.multipliers[n]), Value(w[n]))
    BY <1>1
  <2> HIDE DEF f, g
  <2>3. /\ Factor(r.multipliers[n]) \in Rational
        /\ is_zero(r.multipliers[n]) => IsZero(Factor(r.multipliers[n]))
        /\ ~is_zero(r.multipliers[n]) => print_number(q, r.multipliers[n]) = Factor(r.multipliers[n])
    BY <2>1, FactorType
  <2> QED
    BY <2>1, <2>2, <2>3, TermIsProduct
<1> HIDE DEF f, g, k
<1>3. Total(k, f) \in Rational /\ Total(k, g) \in Rational /\ Same(Total(k, f), Total(k, g))
  BY <1>1, <1>2, TotalType, TotalCongruent
<1> QED
  BY <1>3 DEF f, g, k

\* ... and so does what the solver reads of it, whatever it takes a quotient by
\* zero for.
LEMMA CombinationHolds ==
  ASSUME NEW x \in Vector, NEW r, Combines(r, x), NEW q
  PROVE  IsSide(Combination(q, r)) /\ SideHolds(Combination(q, r), x)
<1> DEFINE s == Combination(q, r)
           t == ExactCombination(r)
<1>1. IsSide(t) /\ SideHolds(t, x)
  BY ExactCombinationHolds
<1>2. ASSUME NEW j \in Variables
      PROVE  s.a[j] \in Rational /\ Same(s.a[j], t.a[j])
  <2> DEFINE w == [n \in DOMAIN r.indexes |-> constraint(r.indexes[n]).coefficients[j]]
  <2>1. \A n \in DOMAIN r.indexes : w[n] \in ExactNumber
    BY TermTypes DEF ExactConstraint
  <2>2. /\ s.a[j] = Total(Len(r.indexes),
                          [n \in DOMAIN r.indexes |-> Term(q, r.multipliers[n], w[n])])
        /\ t.a[j] = Total(Len(r.indexes),
                          [n \in DOMAIN r.indexes |->
                             Times(Factor(r.multipliers[n]), Value(w[n]))])
    BY DEF Combination, print_LIN_RND_aj, ExactCombination, CombinedCoefficient
  <2> HIDE DEF w, s, t
  <2> QED
    BY <2>1, <2>2, TotalOfTerms
<1>3. s.b \in Rational /\ Same(s.b, t.b)
  <2> DEFINE w == [n \in DOMAIN r.indexes |-> constraint(r.indexes[n]).target]
  <2>1. \A n \in DOMAIN r.indexes : w[n] \in ExactNumber
    BY TermTypes DEF ExactConstraint
  <2>2. /\ s.b = Total(Len(r.indexes),
                       [n \in DOMAIN r.indexes |-> Term(q, r.multipliers[n], w[n])])
        /\ t.b = Total(Len(r.indexes),
                       [n \in DOMAIN r.indexes |->
                          Times(Factor(r.multipliers[n]), Value(w[n]))])
    BY DEF Combination, print_LIN_RND_b, ExactCombination, CombinedTarget
  <2> HIDE DEF w, s, t
  <2> QED
    BY <2>1, <2>2, TotalOfTerms
<1>4. s.a = [j \in Variables |-> s.a[j]] /\ s.eq = t.eq /\ s.geq = t.geq /\ s.leq = t.leq
  BY DEF Combination, ExactCombination
<1> HIDE DEF s, t
<1>5. IsSide(s)
  BY <1>2, <1>3, <1>4 DEF IsSide, Vector
<1>6. SideHolds(s, x)
  BY <1>1, <1>2, <1>3, <1>4, <1>5, SideCongruent
<1> QED
  BY <1>5, <1>6 DEF s

(***************************************************************************)
(* Rounding, disjunction and solutions.                                    *)
(***************************************************************************)
IntegralAt(x) == \A j \in IntegralVariables : IsInt(x[j])

\* A side with integral coefficients is rounded at a point of the problem.
LEMMA Rounding ==
  ASSUME NEW x \in Vector, IntegralAt(x), NEW s, IsSide(s), SideHolds(s, x),
         NEW q, NEW c \in ExactConstraint, c.direction # 0,
         print_RND(s), print_rnd_individual_part2(q, s, c)
  PROVE  Holds(c, x)
<1> DEFINE a == Values(c.coefficients)
           t == Value(c.target)
           d == Dot(s.a, x)
           e == Dot(a, x)
<1>1. /\ a \in Vector /\ t \in Rational /\ c.direction \in {-1, 1}
      /\ s.a \in Vector /\ s.b \in Rational /\ d \in Rational /\ e \in Rational
  BY ValuesType, ExactType, DotIsTotal DEF ExactConstraint, IsSide
<1>2. SideOf(q, c).a = a /\ print_number(q, c.target) = t
  BY ValuesType, ExactType DEF ExactConstraint, SideOf, Side
<1>3. IsInt(d)
  BY <1>1, DotOfIntegers DEF print_RND, IntegralAt
<1>4. ~ /\ AllZero(s)
        /\ \/ s.geq /\ s.b[1] > 0
           \/ ~s.geq /\ s.leq /\ s.b[1] < 0
  BY NoZeroSide
<1>5. /\ SameCoefficients(s, SideOf(q, c))
      /\ IF c.direction = 1 THEN s.geq /\ Leq(t, print_ceil(s.b))
                            ELSE s.leq /\ Leq(Floor(s.b), t)
  BY <1>2, <1>4 DEF print_rnd_individual_part2
<1>6. Same(d, e)
  BY <1>1, <1>2, <1>5, DotOfSame DEF SameCoefficients
<1>7. Leq(d, e) /\ Leq(e, d)
  BY <1>1, <1>6, LeqTotal
<1>8. (s.geq => Leq(s.b, d)) /\ (s.leq => Leq(d, s.b))
  BY DEF SideHolds
<1>9. Holds(c, x) <=> Compare(c.direction, e, t)
  BY DEF Holds
<1> HIDE DEF a, t, d, e
<1>10. CASE c.direction = 1
  <2>1. Leq(print_ceil(s.b), d) /\ print_ceil(s.b) \in Rational
    BY <1>1, <1>3, <1>5, <1>8, <1>10, IntAboveCeil
  <2>2. Leq(t, d)
    BY <1>1, <1>5, <1>10, <2>1, LeqTransitive
  <2>3. Leq(t, e)
    BY <1>1, <1>7, <2>2, LeqTransitive
  <2> QED
    BY <1>9, <1>10, <2>3 DEF Compare
<1>11. CASE c.direction = -1
  <2>1. Leq(d, Floor(s.b)) /\ Floor(s.b) \in Rational
    BY <1>1, <1>3, <1>5, <1>8, <1>11, IntBelowFloor
  <2>2. Leq(d, t)
    BY <1>1, <1>5, <1>11, <2>1, LeqTransitive
  <2>3. Leq(e, t)
    BY <1>1, <1>7, <2>2, LeqTransitive
  <2> QED
    BY <1>9, <1>11, <2>3 DEF Compare
<1> QED
  BY <1>1, <1>10, <1>11

\* A point of the problem is on one side of a disjunction.
LEMMA Disjunction ==
  ASSUME NEW x \in Vector, IntegralAt(x), NEW q,
         NEW ci \in ExactConstraint, NEW cj \in ExactConstraint, print_DIS(q, ci, cj)
  PROVE  Holds(ci, x) \/ Holds(cj, x)
<1> DEFINE a == Values(ci.coefficients)
           b == Value(ci.target)
           e == Values(cj.coefficients)
           f == Value(cj.target)
           d == Dot(a, x)
           g == Dot(e, x)
<1>1. /\ a \in Vector /\ b \in Rational /\ e \in Vector /\ f \in Rational
      /\ d \in Rational /\ g \in Rational
      /\ ci.direction \in {-1, 0, 1} /\ cj.direction \in {-1, 0, 1}
  BY ValuesType, ExactType, DotIsTotal DEF ExactConstraint
<1>2. /\ SideOf(q, ci).a = a /\ SideOf(q, ci).b = b /\ SideOf(q, cj).a = e /\ SideOf(q, cj).b = f
  BY ValuesType, ExactType DEF ExactConstraint, SideOf, Side
<1>3. /\ \A j \in Variables : Same(a[j], e[j])
      /\ \A j \in IntegralVariables : IsInt(a[j])
      /\ \A j \in NonIntegralVariables : IsZero(a[j])
      /\ IsInt(b) /\ IsInt(f)
      /\ ci.direction # 0 /\ ci.direction + cj.direction = 0
      /\ Same(b, Plus(f, Whole(IF ci.direction = 1 THEN 1 ELSE -1)))
  BY <1>2 DEF print_DIS, SameCoefficients
<1>4. IsInt(d)
  BY <1>1, <1>3, DotOfIntegers DEF IntegralAt
<1>5. Same(d, g)
  BY <1>1, <1>3, DotOfSame
<1>6. IsInt(g) /\ Leq(d, g) /\ Leq(g, d)
  BY <1>1, <1>4, <1>5, IntOfSame, LeqTotal
<1>7. /\ Holds(ci, x) <=> Compare(ci.direction, d, b)
      /\ Holds(cj, x) <=> Compare(cj.direction, g, f)
  BY DEF Holds
<1> HIDE DEF a, b, e, f, d, g
<1>8. Whole(1) \in Rational /\ Whole(-1) \in Rational
  BY WholeType
<1>9. Plus(f, Whole(1)) \in Rational /\ Plus(f, Whole(-1)) \in Rational
  BY <1>1, <1>8, RationalType
<1>10. CASE ci.direction = 1
  <2> SUFFICES ASSUME ~Leq(g, f) PROVE Leq(b, d)
    <3>1. cj.direction = -1
      BY <1>1, <1>3, <1>10
    <3> QED
      BY <1>7, <1>10, <3>1 DEF Compare
  <2>1. Leq(Plus(f, Whole(1)), g)
    BY <1>1, <1>3, <1>6, IntApart
  <2>2. Leq(b, Plus(f, Whole(1)))
    BY <1>1, <1>3, <1>9, <1>10, LeqTotal
  <2>3. Leq(b, g)
    BY <1>1, <1>9, <2>1, <2>2, LeqTransitive
  <2> QED
    BY <1>1, <1>6, <2>3, LeqTransitive
<1>11. CASE ci.direction = -1
  <2> SUFFICES ASSUME ~Leq(f, g) PROVE Leq(d, b)
    <3>1. cj.direction = 1
      BY <1>1, <1>3, <1>11
    <3> QED
      BY <1>7, <1>11, <3>1 DEF Compare
  <2>1. Leq(Plus(g, Whole(1)), f)
    BY <1>1, <1>3, <1>6, IntApart
  <2>2. Leq(g, Plus(f, Whole(-1)))
    BY <1>1, <2>1, OneAside
  <2>3. Leq(Plus(f, Whole(-1)), b)
    BY <1>1, <1>3, <1>9, <1>11, LeqTotal
  <2>4. Leq(g, b)
    BY <1>1, <1>9, <2>2, <2>3, LeqTransitive
  <2> QED
    BY <1>1, <1>6, <2>4, LeqTransitive
<1> QED
  BY <1>1, <1>3, <1>10, <1>11

\* No number of the certificate is divided by zero, but for multipliers, which are
\* not written if they are zero by their text.
NonzeroDenominators ==
  /\ \A p \in Problems :
       /\ p.constraints \in Seq(ExactConstraint)
       /\ p.solutions \in Seq([Variables -> ExactNumber])
       /\ p.objective \in [Variables -> ExactNumber]
       /\ {p.lower, p.upper} \subseteq ExactNumber
  /\ \A d \in Derivations : d.constraint \in ExactConstraint

\* A certificate's objective and solutions.
LEMMA SolutionTypes ==
  ASSUME NonzeroDenominators, TypeOK
  PROVE  /\ problem.objective \in [Variables -> ExactNumber]
         /\ Values(problem.objective) \in Vector
         /\ \A s \in Solutions : s \in [Variables -> ExactNumber] /\ Values(s) \in Vector
         /\ problem.lower \in ExactNumber /\ problem.upper \in ExactNumber
         /\ Value(problem.lower) \in Rational /\ Value(problem.upper) \in Rational
<1>1. problem \in Problems
  BY DEF TypeOK
<1>2. /\ problem.solutions \in Seq([Variables -> ExactNumber])
      /\ problem.objective \in [Variables -> ExactNumber]
      /\ problem.lower \in ExactNumber /\ problem.upper \in ExactNumber
  BY <1>1 DEF NonzeroDenominators
<1>3. \A s \in Solutions : s \in [Variables -> ExactNumber]
  BY <1>2 DEF Solutions
<1> QED
  BY <1>2, <1>3, ValuesType, ExactType

\* What a solution dominates holds where the objective is no worse.
LEMMA SolutionDomination ==
  ASSUME NonzeroDenominators, TypeOK, NEW x \in Vector, NEW q, NEW c \in ExactConstraint,
         NEW s \in Solutions, AsGoodAs(x, Values(s)), print_sol_individual_dom(q, s, c)
  PROVE  Holds(c, x)
<1> DEFINE o == Values(problem.objective)
           b == SumOfProducts(q, problem.objective, s)
           d == Dot(o, Values(s))
           direction == IF problem.minimization THEN -1 ELSE 1
           side == Side(o, direction, b)
<1>1. /\ o \in Vector /\ Values(s) \in Vector /\ d \in Rational /\ b \in Rational
      /\ Leq(b, d) /\ Leq(d, b)
  <2>1. b \in Rational /\ d \in Rational /\ Same(b, d)
    BY SolutionTypes, SumIsDot
  <2> HIDE DEF b, d
  <2> QED
    BY <2>1, SolutionTypes, LeqTotal
<1>2. print_DOM(side, SideOf(q, c))
  BY SolutionTypes, ValuesType DEF print_sol_individual_dom
<1>3. Dot(o, x) \in Rational
  BY <1>1, DotIsTotal
<1> HIDE DEF b
<1>4. /\ side.a = o /\ side.b = b
      /\ side.eq <=> direction = 0
      /\ side.geq <=> direction >= 0
      /\ side.leq <=> direction <= 0
  BY DEF Side
<1>5. IsSide(side)
  BY <1>1, <1>4 DEF IsSide
<1>6. SideHolds(side, x)
  <2>1. CASE problem.minimization
    <3>1. Leq(Dot(o, x), d)
      BY <2>1 DEF AsGoodAs, Objective
    <3>2. Leq(Dot(o, x), b)
      <4> HIDE DEF d, o
      <4> QED
        BY <1>1, <1>3, <3>1, LeqTransitive
    <3>3. ~side.eq /\ ~side.geq
      BY <1>4, <2>1
    <3> HIDE DEF side
    <3> QED
      BY <1>4, <3>2, <3>3 DEF SideHolds
  <2>2. CASE ~problem.minimization
    <3>1. Leq(d, Dot(o, x))
      BY <2>2 DEF AsGoodAs, Objective
    <3>2. Leq(b, Dot(o, x))
      <4> HIDE DEF d, o
      <4> QED
        BY <1>1, <1>3, <3>1, LeqTransitive
    <3>3. ~side.eq /\ ~side.leq
      BY <1>4, <2>2
    <3> HIDE DEF side
    <3> QED
      BY <1>4, <3>2, <3>3 DEF SideHolds
  <2> QED
    BY <2>1, <2>2
<1> HIDE DEF side
<1> QED
  BY <1>2, <1>5, <1>6, DominationOfConstraint

(***************************************************************************)
(* Derivations.                                                            *)
(***************************************************************************)

\* The feasible points that are no worse than the solutions given.
Better(x) == Satisfies(x) /\ \A s \in Solutions : AsGoodAs(x, Values(s))

\* Constraint n holds at x if its assumptions do.
Entails(n, x) ==
  (\A j \in D!AssumptionsOf(n) : Holds(constraint(j), x)) => Holds(constraint(n), x)

ReasonsInv == reasons \in [D!Index -> [type : {"none", "asm"}, indexes : {<< >>}]]

\* The assumptions of a derivation are derivations by asm, none of them later.
AssumptionsInv ==
  \A n \in NumProblem..last_constraint_index :
    \A j \in dependencies[n] : j \in NumProblem..n /\ reasons[j].type = "asm"

SoundInv ==
  \A x \in Vector : Better(x) => \A n \in 0..last_constraint_index : Entails(n, x)

\* A verdict of sat was given by the files .SOL and .DER-solcheck too.
AcceptInv ==
  verdict = "sat" => \E q, p \in Quotients : print_sol(q) /\ print_solcheck(p)

\* Nothing is divided by zero.
ExactInv == constraints \in Seq(ExactConstraint)

CertificateInv ==
  /\ TypeOK
  /\ ExactInv
  /\ ReasonsInv
  /\ AssumptionsInv
  /\ SoundInv
  /\ AcceptInv

\* The assumptions of a derivation are those of earlier constraints, or itself.
LEMMA DependenciesEarlier ==
  ASSUME TypeOK, AssumptionsInv, NEW d \in Derivations, NEW k \in Nat, k = Len(constraints),
         ~D!CitesLater(d.reason, k), NEW j \in D!DependenciesOf(d.reason, k)
  PROVE  \/ d.reason.type = "asm" /\ j = k
         \/ d.reason.type # "asm" /\ j \in NumProblem..(k - 1) /\ reasons[j].type = "asm"
<1> DEFINE r == d.reason
<1>1. ASSUME NEW n \in 0..(k - 1), j \in D!AssumptionsOf(n)
      PROVE  j \in NumProblem..(k - 1) /\ reasons[j].type = "asm"
  <2>1. n >= NumProblem /\ j \in dependencies[n]
    BY <1>1, SizeAssumption DEF D!AssumptionsOf
  <2>2. j \in NumProblem..n /\ reasons[j].type = "asm"
    BY <1>1, <2>1, SizeAssumption DEF AssumptionsInv, last_constraint_index
  <2>3. j \in NumProblem..(k - 1)
    BY <1>1, <2>2, SizeAssumption
  <2> QED
    BY <2>2, <2>3
<1>2. CASE r.type = "asm"
  BY <1>2 DEF D!DependenciesOf
<1>3. CASE r.type \in {"lin", "rnd"}
  <2>1. PICK n \in D!Cited(r) : j \in D!AssumptionsOf(n)
    BY <1>3 DEF D!DependenciesOf
  <2>2. n \in 0..(k - 1)
    BY <1>3, CitedEarlier DEF D!Cited
  <2> QED
    BY <1>1, <1>3, <2>1, <2>2
<1>4. CASE r.type = "uns"
  <2>1. Len(r.indexes) = 4 /\ r.indexes \in Seq(Nat)
    BY <1>4, DerivationAssumption
  <2>2. D!get_i1(r) \in 0..(k - 1) /\ D!get_i2(r) \in 0..(k - 1)
    BY <1>4, <2>1, CitedEarlier DEF D!get_i1, D!get_i2
  <2>3. j \in D!AssumptionsOf(D!get_i1(r)) \/ j \in D!AssumptionsOf(D!get_i2(r))
    BY <1>4 DEF D!DependenciesOf, D!UnsDependencies
  <2> QED
    BY <1>1, <1>4, <2>2, <2>3
<1>5. CASE r.type = "sol"
  BY <1>5 DEF D!DependenciesOf
<1> QED
  BY <1>2, <1>3, <1>4, <1>5, DerivationAssumption

\* The erasures of a uns: who has all of them and l1 has the assumptions of i1,
\* and who has l2 has those of i2.
LEMMA UnsKeeps ==
  ASSUME NEW r, r.type = "uns", NEW k
  PROVE  /\ D!AssumptionsOf(D!get_i1(r)) \subseteq D!DependenciesOf(r, k) \union {D!get_l1(r)}
         /\ D!AssumptionsOf(D!get_i2(r)) \subseteq D!DependenciesOf(r, k) \union {D!get_l2(r)}
<1>1. D!DependenciesOf(r, k) = D!UnsDependencies(r)
  BY DEF D!DependenciesOf
<1> QED
  BY <1>1 DEF D!UnsDependencies

\* Every rule is sound: a derivation whose formula is true holds at every point at
\* which its assumptions hold.
LEMMA RuleSound ==
  ASSUME PositiveDenominators, NonzeroDenominators, TypeOK, ExactInv,
         NEW x \in Vector, Better(x), NEW q,
         \A n \in 0..last_constraint_index : Entails(n, x),
         NEW d \in Derivations, d.reason.type # "asm",
         ~D!CitesLater(d.reason, Len(constraints)),
         print_der_individual(q, d.reason, d.constraint),
         \A j \in D!DependenciesOf(d.reason, Len(constraints)) : Holds(constraint(j), x)
  PROVE  Holds(d.constraint, x)
<1> DEFINE r == d.reason
           c == d.constraint
           k == Len(constraints)
<1>1. /\ k \in Nat /\ k >= NumProblem /\ last_constraint_index = k - 1
      /\ constraints \in Seq(ExactConstraint) /\ c \in ExactConstraint
      /\ r.type \in {"lin", "rnd", "uns", "sol"}
  BY SizeAssumption, DerivationAssumption
     DEF TypeOK, ExactInv, NonzeroDenominators, last_constraint_index
<1>2. \A n \in 0..(k - 1) : constraint(n) \in ExactConstraint
  BY <1>1 DEF constraint
<1>3. IntegralAt(x)
  BY DEF Better, Satisfies, IntegralAt
<1>4. ASSUME r.type \in {"lin", "rnd"}
      PROVE  IsSide(Combination(q, r)) /\ SideHolds(Combination(q, r), x)
  <2>1. ASSUME NEW n \in DOMAIN r.indexes
        PROVE  /\ constraint(r.indexes[n]) \in ExactConstraint
               /\ Holds(constraint(r.indexes[n]), x)
    <3>1. r.indexes[n] \in 0..(k - 1)
      BY <1>1, <1>4, CitedEarlier
    <3>2. D!AssumptionsOf(r.indexes[n]) \subseteq D!DependenciesOf(r, k)
      BY <1>4 DEF D!DependenciesOf, D!Cited
    <3>3. Entails(r.indexes[n], x)
      BY <1>1, <3>1
    <3> QED
      BY <1>2, <3>1, <3>2, <3>3 DEF Entails
  <2>2. /\ r.indexes \in Seq(Nat) /\ r.multipliers \in Seq(Number)
        /\ Len(r.multipliers) = Len(r.indexes)
    BY <1>4, DerivationAssumption
  <2>3. \A n \in DOMAIN r.indexes :
          is_zero(r.multipliers[n]) \/ r.multipliers[n].denominator > 0
    <3>1. DOMAIN r.indexes = DOMAIN r.multipliers
      BY <2>2
    <3> QED
      BY <3>1 DEF PositiveDenominators
  <2>4. Combines(r, x)
    BY <2>1, <2>2, <2>3 DEF Combines
  <2> QED
    BY <2>4, CombinationHolds
<1>5. CASE r.type = "lin"
  <2>1. print_DOM(Combination(q, r), SideOf(q, c))
    BY <1>5 DEF print_der_individual
  <2> QED
    BY <1>1, <1>4, <1>5, <2>1, DominationOfConstraint
<1>6. CASE r.type = "rnd"
  <2>1. /\ c.direction # 0
        /\ print_RND(Combination(q, r)) /\ print_rnd_individual_part2(q, Combination(q, r), c)
    BY <1>6 DEF print_der_individual
  <2> QED
    BY <1>1, <1>3, <1>4, <1>6, <2>1, Rounding
<1>7. CASE r.type = "uns"
  <2> DEFINE i1 == D!get_i1(r)  i2 == D!get_i2(r)  l1 == D!get_l1(r)  l2 == D!get_l2(r)
  <2>1. /\ print_DOM(SideOf(q, constraint(i1)), SideOf(q, c))
        /\ print_DOM(SideOf(q, constraint(i2)), SideOf(q, c))
        /\ print_DIS(q, constraint(l1), constraint(l2))
    BY <1>7 DEF print_der_individual
  <2>2. i1 \in 0..(k - 1) /\ i2 \in 0..(k - 1) /\ l1 \in 0..(k - 1) /\ l2 \in 0..(k - 1)
    <3>1. Len(r.indexes) = 4 /\ r.indexes \in Seq(Nat)
      BY <1>7, DerivationAssumption
    <3>2. DOMAIN r.indexes = 1..4
      BY <3>1
    <3>3. \A n \in DOMAIN r.indexes : r.indexes[n] \in 0..(k - 1)
      BY <1>1, <1>7, CitedEarlier
    <3> QED
      BY <3>2, <3>3 DEF D!get_i1, D!get_i2, D!get_l1, D!get_l2
  <2>3. /\ D!AssumptionsOf(i1) \subseteq D!DependenciesOf(r, k) \union {l1}
        /\ D!AssumptionsOf(i2) \subseteq D!DependenciesOf(r, k) \union {l2}
    BY <1>7, UnsKeeps
  <2> HIDE DEF i1, i2, l1, l2
  <2>4. /\ constraint(i1) \in ExactConstraint /\ constraint(i2) \in ExactConstraint
        /\ constraint(l1) \in ExactConstraint /\ constraint(l2) \in ExactConstraint
    BY <1>2, <2>2
  <2>5. Entails(i1, x) /\ Entails(i2, x)
    BY <1>1, <2>2
  <2>6. Holds(constraint(l1), x) \/ Holds(constraint(l2), x)
    BY <1>3, <2>1, <2>4, Disjunction
  <2>7. \/ Holds(constraint(i1), x) /\ print_DOM(SideOf(q, constraint(i1)), SideOf(q, c))
        \/ Holds(constraint(i2), x) /\ print_DOM(SideOf(q, constraint(i2)), SideOf(q, c))
    BY <2>1, <2>3, <2>5, <2>6 DEF Entails
  <2> QED
    BY <1>1, <2>4, <2>7, SideOfConstraint, DominationOfConstraint
<1>8. CASE r.type = "sol"
  <2>1. PICK s \in Solutions : print_sol_individual_dom(q, s, c)
    BY <1>8 DEF print_der_individual
  <2>2. AsGoodAs(x, Values(s))
    BY DEF Better
  <2> QED
    BY <1>1, <2>1, <2>2, SolutionDomination
<1> QED
  BY <1>1, <1>5, <1>6, <1>7, <1>8

(***************************************************************************)
(* The inductive invariant.                                                *)
(***************************************************************************)

LEMMA InitInv ==
  ASSUME NonzeroDenominators, Init
  PROVE  CertificateInv
<1>1. TypeOK
  BY InitType
<1>0. ExactInv
  BY DEF Init, ExactInv, NonzeroDenominators
<1>2. ReasonsInv
  BY DEF Init, ReasonsInv, D!NoReason
<1>3. Len(constraints) = NumProblem /\ constraints \in Seq(Constraint) /\ NumProblem \in Nat
  BY ProblemAssumption, SizeAssumption DEF Init
<1>4. AssumptionsInv
  BY <1>3 DEF AssumptionsInv, last_constraint_index
<1>5. SoundInv
  <2> SUFFICES ASSUME NEW x \in Vector, Satisfies(x), NEW n \in 0..(NumProblem - 1)
               PROVE  Holds(constraint(n), x)
    BY <1>3 DEF SoundInv, Better, Entails, last_constraint_index
  <2>1. n + 1 \in 1..NumProblem
    BY <1>3
  <2> QED
    BY <2>1 DEF Satisfies, constraint
<1>6. AcceptInv
  BY DEF Init, AcceptInv
<1> QED
  BY <1>0, <1>1, <1>2, <1>4, <1>5, <1>6 DEF CertificateInv

\* A derivation whose formula is true keeps the invariant.
LEMMA DeriveKeeps ==
  ASSUME PositiveDenominators, NonzeroDenominators, CertificateInv,
         NEW d \in Derivations, Derive(d.reason, d.constraint)
  PROVE  ExactInv' /\ ReasonsInv' /\ AssumptionsInv' /\ SoundInv' /\ AcceptInv'
<1>1. PICK k \in Nat : k = Len(constraints)
  BY DEF CertificateInv, TypeOK
<1>2. PICK A : A = D!DependenciesOf(d.reason, k)
  OBVIOUS
<1>3. /\ k \in D!Index /\ k >= NumProblem /\ NumProblem \in Nat
      /\ constraints \in Seq(Constraint) /\ d.constraint \in Constraint
      /\ ~D!CitesLater(d.reason, k)
      /\ verdict = "running" /\ UNCHANGED <<problem, verdict>>
  BY <1>1, SizeAssumption, DerivationAssumption DEF Derive, CertificateInv, TypeOK
<1>0. PICK q \in Quotients : print_der_individual(q, d.reason, d.constraint)
  BY DEF Derive
<1>12. ExactInv'
  BY DEF Derive, CertificateInv, ExactInv, NonzeroDenominators
<1>4. /\ Len(constraints') = k + 1
      /\ \A n \in 1..k : constraints'[n] = constraints[n]
      /\ constraints'[k + 1] = d.constraint
  BY <1>1, <1>3 DEF Derive
<1>5. /\ reasons' = [reasons EXCEPT ![k].type = IF d.reason.type = "asm" THEN "asm" ELSE @]
      /\ dependencies' = [dependencies EXCEPT ![k] = A]
      /\ dependencies \in [D!Index -> SUBSET D!Derived]
  BY <1>1, <1>2 DEF Derive, CertificateInv, TypeOK
<1>6. ReasonsInv'
  BY <1>3, <1>5 DEF CertificateInv, ReasonsInv, D!Index
<1>7. /\ \A n \in D!Index : n # k => dependencies'[n] = dependencies[n] /\ reasons'[n] = reasons[n]
      /\ dependencies'[k] = A
      /\ d.reason.type = "asm" => reasons'[k].type = "asm"
      /\ \A n \in D!Index : reasons[n].type = "asm" => reasons'[n].type = "asm"
  BY <1>3, <1>5 DEF CertificateInv, ReasonsInv
<1>8. \A n \in 0..k : n \in D!Index
  BY <1>3, SizeAssumption DEF D!Index
<1>9. AssumptionsInv'
  <2> SUFFICES ASSUME NEW n \in NumProblem..k, NEW j \in dependencies'[n]
               PROVE  j \in NumProblem..n /\ reasons'[j].type = "asm"
    BY <1>4 DEF AssumptionsInv, last_constraint_index
  <2>1. n \in 0..k /\ n \in D!Index
    BY <1>3, <1>8
  <2>2. CASE n # k
    <3>1. n \in NumProblem..last_constraint_index /\ j \in dependencies[n]
      BY <1>1, <1>3, <1>7, <2>1, <2>2 DEF last_constraint_index
    <3>2. j \in NumProblem..n /\ reasons[j].type = "asm"
      BY <3>1 DEF CertificateInv, AssumptionsInv
    <3>3. j \in D!Index
      BY <1>3, <1>8, <3>2
    <3> QED
      BY <1>7, <3>2, <3>3
  <2>3. CASE n = k
    <3>1. j \in A
      BY <1>7, <2>3
    <3>2. \/ d.reason.type = "asm" /\ j = k
          \/ j \in NumProblem..(k - 1) /\ reasons[j].type = "asm"
      BY <1>1, <1>2, <1>3, <3>1, DependenciesEarlier DEF CertificateInv
    <3>3. j \in NumProblem..k /\ j \in D!Index
      BY <1>3, <1>8, <3>2
    <3> QED
      BY <1>7, <2>3, <3>2, <3>3
  <2> QED
    BY <2>2, <2>3
<1>10. SoundInv'
  <2> SUFFICES ASSUME NEW x \in Vector, Better(x)', NEW n \in 0..k,
                      \A j \in (D!AssumptionsOf(n))' : Holds(constraints'[j + 1], x)
               PROVE  Holds(constraints'[n + 1], x)
    BY <1>4 DEF SoundInv, Entails, constraint, last_constraint_index
  <2>1. Better(x)
    <3>1. \A m \in 1..NumProblem : constraints'[m] = constraints[m]
      BY <1>3, <1>4
    <3> QED
      BY <1>3, <3>1 DEF Better, Satisfies, AsGoodAs, Objective, Solutions
  <2>2. \A m \in 0..last_constraint_index : Entails(m, x)
    BY <2>1 DEF CertificateInv, SoundInv
  <2>3. n \in D!Index
    BY <1>8
  <2>4. CASE n # k
    <3>1. n \in 0..last_constraint_index /\ n + 1 \in 1..k
      BY <1>1, <2>4 DEF last_constraint_index
    <3>2. (D!AssumptionsOf(n))' = D!AssumptionsOf(n)
      BY <1>7, <2>3, <2>4 DEF D!AssumptionsOf
    <3>3. ASSUME NEW j \in D!AssumptionsOf(n) PROVE Holds(constraint(j), x)
      <4>1. n \in NumProblem..last_constraint_index /\ j \in dependencies[n]
        BY <1>3, <3>1, <3>3 DEF D!AssumptionsOf
      <4>2. j \in NumProblem..n
        BY <4>1 DEF CertificateInv, AssumptionsInv
      <4>3. j + 1 \in 1..k
        BY <1>1, <1>3, <3>1, <4>2
      <4>4. constraints'[j + 1] = constraints[j + 1]
        BY <1>4, <4>3
      <4> QED
        BY <3>2, <3>3, <4>4 DEF constraint
    <3>4. Holds(constraint(n), x)
      BY <2>2, <3>1, <3>3 DEF Entails
    <3> QED
      BY <1>4, <3>1, <3>4 DEF constraint
  <2>5. CASE n = k
    <3>1. (D!AssumptionsOf(n))' = A
      BY <1>3, <1>7, <2>5 DEF D!AssumptionsOf
    <3>2. CASE d.reason.type = "asm"
      <4>1. k \in A
        BY <1>2, <3>2 DEF D!DependenciesOf
      <4> QED
        BY <2>5, <3>1, <4>1
    <3>3. CASE d.reason.type # "asm"
      <4>1. ASSUME NEW j \in D!DependenciesOf(d.reason, k) PROVE Holds(constraint(j), x)
        <5>1. j \in NumProblem..(k - 1)
          BY <1>1, <1>3, <3>3, DependenciesEarlier DEF CertificateInv
        <5>2. j + 1 \in 1..k
          BY <1>3, <5>1
        <5>3. constraints'[j + 1] = constraints[j + 1]
          BY <1>4, <5>2
        <5>4. Holds(constraints'[j + 1], x)
          BY <1>2, <3>1
        <5> QED
          BY <5>3, <5>4 DEF constraint
      <4>2. Holds(d.constraint, x)
        BY <1>0, <1>1, <1>3, <2>1, <2>2, <3>3, <4>1, RuleSound DEF CertificateInv
      <4> QED
        BY <1>4, <2>5, <4>2
    <3> QED
      BY <3>2, <3>3
  <2> QED
    BY <2>4, <2>5
<1>11. AcceptInv'
  BY <1>3 DEF AcceptInv
<1> QED
  BY <1>6, <1>9, <1>10, <1>11, <1>12

\* What the verdict does not enter.
LEMMA ConstraintsKept ==
  ASSUME CertificateInv, UNCHANGED <<problem, constraints, reasons, dependencies>>
  PROVE  ExactInv' /\ ReasonsInv' /\ AssumptionsInv' /\ SoundInv'
<1>0. ExactInv'
  BY DEF CertificateInv, ExactInv
<1>1. ReasonsInv'
  BY DEF CertificateInv, ReasonsInv, D!Index
<1>2. AssumptionsInv'
  BY DEF CertificateInv, AssumptionsInv, last_constraint_index
<1>3. SoundInv'
  BY DEF CertificateInv, SoundInv, Better, Satisfies, AsGoodAs, Objective, Solutions, Entails,
         D!AssumptionsOf, constraint, last_constraint_index
<1> QED
  BY <1>0, <1>1, <1>2, <1>3

LEMMA NextInv ==
  ASSUME PositiveDenominators, NonzeroDenominators, CertificateInv, [Next]_vars
  PROVE  CertificateInv'
<1>1. TypeOK'
  BY NextType DEF CertificateInv
<1>2. CASE \E d \in Derivations : Derive(d.reason, d.constraint)
  BY <1>1, <1>2, DeriveKeeps DEF CertificateInv
<1>3. ASSUME NEW d \in Derivations, Refuse(d.reason, d.constraint) \/ Throw(d.reason)
      PROVE  CertificateInv'
  <2>1. UNCHANGED <<problem, constraints, reasons, dependencies>> /\ verdict' # "sat"
    BY <1>3 DEF Refuse, Throw
  <2>2. AcceptInv'
    BY <2>1 DEF AcceptInv
  <2> QED
    BY <1>1, <2>1, <2>2, ConstraintsKept DEF CertificateInv
<1>4. CASE Conclude \/ UNCHANGED vars
  <2>1. UNCHANGED <<problem, constraints, reasons, dependencies>>
    BY <1>4 DEF Conclude, vars
  <2>2. verdict' = "sat" => \E q, p \in Quotients : print_sol(q) /\ print_solcheck(p)
    BY <1>4 DEF Conclude, vars, CertificateInv, AcceptInv
  <2>3. \A q : print_sol(q)' <=> print_sol(q)
    BY <2>1 DEF print_sol, print_feas_individual, print_pub, print_plb,
                print_one_solution_within_bound, Solutions
  <2>4. \A q : print_solcheck(q)' <=> print_solcheck(q)
    BY <2>1 DEF print_solcheck, print_pub, print_plb, NoAssumptionLeft, D!AssumptionsOf,
                constraint, last_constraint_index
  <2>5. AcceptInv'
    BY <2>2, <2>3, <2>4 DEF AcceptInv
  <2> QED
    BY <1>1, <2>1, <2>5, ConstraintsKept DEF CertificateInv
<1> QED
  BY <1>2, <1>3, <1>4 DEF Next, Terminating

\* The invariant on which soundness rests: at every vector of rational numbers,
\* not at the points of a run only, a constraint read so far holds if its
\* assumptions do.
THEOREM CertificateInvariant ==
  ASSUME PositiveDenominators, NonzeroDenominators
  PROVE  Spec => []CertificateInv
<1>1. CertificateInv /\ [Next]_vars => CertificateInv'
  BY NextInv
<1> QED
  BY <1>1, InitInv, PTL DEF Spec

\* No rule concludes more than it proves and none loses an assumption.
THEOREM DerivationsHold ==
  ASSUME PositiveDenominators, NonzeroDenominators
  PROVE  Spec => []DerivedHolds
<1>1. CertificateInv => DerivedHolds
  <2> SUFFICES ASSUME CertificateInv, NEW x \in Points, Better(x),
                      NEW k \in NumProblem..last_constraint_index,
                      \A j \in dependencies[k] : Holds(constraint(j), x)
               PROVE  Holds(constraint(k), x)
    BY DEF DerivedHolds, Better
  <2>1. x \in Vector
    BY PointAssumption DEF Vector
  <2>2. k \in 0..last_constraint_index /\ D!AssumptionsOf(k) = dependencies[k]
    BY SizeAssumption DEF D!AssumptionsOf, CertificateInv, TypeOK, last_constraint_index
  <2>3. Entails(k, x)
    BY <2>1, <2>2 DEF CertificateInv, SoundInv
  <2> QED
    BY <2>2, <2>3 DEF Entails
<1> QED
  BY <1>1, CertificateInvariant, PTL

(***************************************************************************)
(* A certificate that is accepted.                                         *)
(***************************************************************************)

\* What print_feas_individual takes for integral is: no solution writes a decimal
\* for an integral variable.
IntegralSolutions ==
  \A p \in Problems : \A s \in DOMAIN p.solutions : \A j \in IntegralVariables :
    p.solutions[s][j].is_integral => IsInt(Value(p.solutions[s][j]))

\* The solutions are points of the problem.
LEMMA SolutionsFeasible ==
  ASSUME NonzeroDenominators, IntegralSolutions, CertificateInv, NEW q, print_sol(q),
         problem.feasible, NEW s \in Solutions
  PROVE  Values(s) \in Vector /\ Satisfies(Values(s))
<1>1. TypeOK
  BY DEF CertificateInv
<1>2. s \in [Variables -> ExactNumber] /\ Values(s) \in Vector
  BY <1>1, SolutionTypes
<1>3. print_feas_individual(q, s)
  BY DEF print_sol
<1>4. ASSUME NEW j \in IntegralVariables PROVE IsInt(Values(s)[j])
  <2>1. s[j].is_integral /\ j \in Variables
    BY <1>3, SizeAssumption DEF print_feas_individual
  <2>2. IsInt(Value(s[j]))
    BY <1>1, <2>1 DEF IntegralSolutions, Solutions, TypeOK
  <2> QED
    BY <1>2, <2>1, <2>2, ValuesType
<1>5. ASSUME NEW k \in 1..NumProblem PROVE Holds(constraints[k], Values(s))
  <2> DEFINE c == constraints[k]
             d == Dot(Values(c.coefficients), Values(s))
  <2>1. c \in ExactConstraint
    BY <1>1, SizeAssumption DEF CertificateInv, ExactInv, TypeOK
  <2>2. /\ c.direction \in {-1, 0, 1} /\ Value(c.target) \in Rational
        /\ Values(c.coefficients) \in Vector /\ d \in Rational
    BY <1>2, <2>1, ValuesType, ExactType, DotIsTotal DEF ExactConstraint
  <2>3. /\ c.direction >= 0 => Leq(Value(c.target), d)
        /\ c.direction <= 0 => Leq(d, Value(c.target))
    <3>1. /\ c.direction >= 0 => print_respect_bound(q, c.coefficients, s, 1, c.target)
          /\ c.direction <= 0 => print_respect_bound(q, c.coefficients, s, -1, c.target)
      BY <1>3 DEF print_feas_individual
    <3>2. /\ c.coefficients \in [Variables -> ExactNumber] /\ c.target \in ExactNumber
          /\ s \in [Variables -> ExactNumber]
      BY <1>2, <2>1 DEF ExactConstraint
    <3>3. /\ c.direction >= 0 => Compare(1, d, Value(c.target))
          /\ c.direction <= 0 => Compare(-1, d, Value(c.target))
      BY <3>1, <3>2, RespectBound
    <3> QED
      BY <3>3 DEF Compare
  <2>4. Same(d, Value(c.target)) <=> Leq(d, Value(c.target)) /\ Leq(Value(c.target), d)
    BY <2>2, LeqTotal
  <2>5. Holds(c, Values(s)) <=> Compare(c.direction, d, Value(c.target))
    BY DEF Holds
  <2> HIDE DEF c, d
  <2>6. Holds(c, Values(s))
    BY <2>2, <2>3, <2>4, <2>5 DEF Compare
  <2> QED
    BY <2>6 DEF c
<1> QED
  BY <1>2, <1>4, <1>5 DEF Satisfies

\* One of the solutions is as good as any of them.
LEMMA BestSolution ==
  ASSUME NonzeroDenominators, TypeOK, Solutions # {}
  PROVE  \E b \in Solutions : \A s \in Solutions : AsGoodAs(Values(b), Values(s))
<1>1. PICK q : q = problem.solutions
  OBVIOUS
<1>2. q \in Seq([Variables -> ExactNumber])
  BY <1>1 DEF NonzeroDenominators, TypeOK
<1>3. PICK k \in Nat : k = Len(q) /\ DOMAIN q = 1..k
  BY <1>2
<1>4. PICK f : f = [m \in 1..k |-> Objective(Values(q[m]))]
  OBVIOUS
<1>5. \A m \in 1..k : q[m] \in Solutions
  BY <1>1, <1>3 DEF Solutions
<1>6. \A s \in Solutions : \E m \in 1..k : s = q[m]
  BY <1>1, <1>3 DEF Solutions
<1>7. k # 0
  BY <1>6
<1>8. \A m \in 1..k : f[m] \in Rational
  <2> SUFFICES ASSUME NEW m \in 1..k PROVE f[m] \in Rational
    OBVIOUS
  <2>1. Values(q[m]) \in Vector /\ Values(problem.objective) \in Vector
    BY <1>5, SolutionTypes
  <2> QED
    BY <1>4, <2>1, DotIsTotal DEF Objective
<1>9. CASE problem.minimization
  <2>1. PICK b \in 1..k : \A m \in 1..k : Leq(f[b], f[m])
    BY <1>7, <1>8, LeastOfFractions
  <2>2. \A m \in 1..k : AsGoodAs(Values(q[b]), Values(q[m]))
    BY <1>4, <1>9, <2>1 DEF AsGoodAs
  <2> QED
    BY <1>5, <1>6, <2>2
<1>10. CASE ~problem.minimization
  <2>1. PICK b \in 1..k : \A m \in 1..k : Leq(f[m], f[b])
    BY <1>7, <1>8, GreatestOfFractions
  <2>2. \A m \in 1..k : AsGoodAs(Values(q[b]), Values(q[m]))
    BY <1>4, <1>10, <2>1 DEF AsGoodAs
  <2> QED
    BY <1>5, <1>6, <2>2
<1> QED
  BY <1>9, <1>10

\* A point of the problem is better than all solutions, or some solution that is
\* the best is at least as good.
LEMMA BetterThan ==
  ASSUME NonzeroDenominators, IntegralSolutions, CertificateInv, NEW q, print_sol(q),
         problem.feasible,
         NEW x \in Vector, Satisfies(x)
  PROVE  \E y \in Vector : Better(y) /\ AsGoodAs(y, x)
<1>1. TypeOK
  BY DEF CertificateInv
<1>2. \A y \in Vector : Objective(y) \in Rational
  BY <1>1, SolutionTypes, DotIsTotal DEF Objective
<1>3. CASE Better(x)
  <2>1. AsGoodAs(x, x)
    BY <1>2, LeqTotal DEF AsGoodAs
  <2> QED
    BY <1>3, <2>1
<1>4. CASE ~Better(x)
  <2>1. PICK s \in Solutions : ~AsGoodAs(x, Values(s))
    BY <1>4 DEF Better
  <2>2. PICK b \in Solutions : \A t \in Solutions : AsGoodAs(Values(b), Values(t))
    BY <1>1, <2>1, BestSolution
  <2>3. /\ Values(b) \in Vector /\ Satisfies(Values(b))
        /\ Values(s) \in Vector
    BY SolutionsFeasible
  <2>4. Better(Values(b))
    BY <2>2, <2>3 DEF Better
  <2>5. /\ Objective(x) \in Rational /\ Objective(Values(b)) \in Rational
        /\ Objective(Values(s)) \in Rational /\ AsGoodAs(Values(b), Values(s))
    BY <1>2, <2>2, <2>3
  <2>6. CASE problem.minimization
    <3>1. Leq(Objective(Values(b)), Objective(Values(s))) /\ Leq(Objective(Values(s)), Objective(x))
      BY <2>1, <2>5, <2>6, LeqTotal DEF AsGoodAs
    <3>2. Leq(Objective(Values(b)), Objective(x))
      BY <2>5, <3>1, LeqTransitive
    <3> QED
      BY <2>3, <2>4, <2>6, <3>2 DEF AsGoodAs
  <2>7. CASE ~problem.minimization
    <3>1. Leq(Objective(Values(s)), Objective(Values(b))) /\ Leq(Objective(x), Objective(Values(s)))
      BY <2>1, <2>5, <2>7, LeqTotal DEF AsGoodAs
    <3>2. Leq(Objective(x), Objective(Values(b)))
      BY <2>5, <3>1, LeqTransitive
    <3> QED
      BY <2>3, <2>4, <2>7, <3>2 DEF AsGoodAs
  <2> QED
    BY <2>6, <2>7
<1> QED
  BY <1>3, <1>4

\* The last constraint, and what it dominates, holds where nothing is assumed.
LEMMA LastHolds ==
  ASSUME CertificateInv, NoAssumptionLeft, NEW q, NEW x \in Vector, Better(x),
         NEW a \in Vector, NEW direction \in {-1, 0, 1}, NEW b \in Rational,
         print_DOM(SideOf(q, constraint(last_constraint_index)), Side(a, direction, b))
  PROVE  SideHolds(Side(a, direction, b), x)
<1>1. PICK n \in Int : n = last_constraint_index
  BY DEF CertificateInv, TypeOK, last_constraint_index
<1>2. /\ n \in 0..n /\ NumProblem \in Nat /\ n >= NumProblem - 1
      /\ constraint(n) \in ExactConstraint
  BY <1>1, SizeAssumption
     DEF CertificateInv, TypeOK, ExactInv, last_constraint_index, constraint
<1>3. D!AssumptionsOf(n) = {}
  <2> SUFFICES ASSUME n >= NumProblem, NEW j \in dependencies[n] PROVE FALSE
    BY <1>2 DEF D!AssumptionsOf
  <2>1. D!AssumptionsOf(n) = dependencies[n]
    BY <1>2 DEF D!AssumptionsOf
  <2>2. j \in NumProblem..n /\ reasons[j].type = "asm"
    BY <1>1, <1>2 DEF CertificateInv, AssumptionsInv
  <2> QED
    BY <1>1, <2>1, <2>2 DEF NoAssumptionLeft
<1>4. Entails(n, x)
  BY <1>1, <1>2 DEF CertificateInv, SoundInv
<1>5. Holds(constraint(n), x)
  BY <1>3, <1>4 DEF Entails
<1>6. IsSide(SideOf(q, constraint(n))) /\ SideHolds(SideOf(q, constraint(n)), x)
  BY <1>2, <1>5, SideOfConstraint
<1> QED
  BY <1>1, <1>6, Domination

\* What the fields of a side are.
LEMMA SideFields ==
  ASSUME NEW a, NEW direction \in {-1, 0, 1}, NEW b
  PROVE  /\ Side(a, direction, b).a = a /\ Side(a, direction, b).b = b
         /\ Side(a, direction, b).geq <=> direction >= 0
         /\ Side(a, direction, b).leq <=> direction <= 0
BY DEF Side

\* The files .SOL and .DER-solcheck, after a sound derivation, prove the claim.
LEMMA ChecksProve ==
  ASSUME NonzeroDenominators, IntegralSolutions, CertificateInv,
         NEW q, print_sol(q), NEW p, print_solcheck(p)
  PROVE  Claim
<1> DEFINE points == {x \in Points \union {Values(s) : s \in Solutions} : Satisfies(x)}
           o == Values(problem.objective)
<1>1. /\ TypeOK /\ o \in Vector
      /\ Value(problem.lower) \in Rational /\ Value(problem.upper) \in Rational
      /\ problem.lower \in ExactNumber /\ problem.upper \in ExactNumber
      /\ problem.objective \in [Variables -> ExactNumber]
      /\ \A s \in Solutions : s \in [Variables -> ExactNumber] /\ Values(s) \in Vector
      /\ \A x : Objective(x) = Dot(o, x)
  BY SolutionTypes DEF CertificateInv, Objective
<1>0. /\ print_numbers(p, problem.objective) = o
      /\ print_number(p, problem.lower) = Value(problem.lower)
      /\ print_number(p, problem.upper) = Value(problem.upper)
  BY <1>1, ValuesType, ExactType
<1>2. \A x \in points : x \in Vector /\ Satisfies(x)
  BY <1>1, PointAssumption DEF Vector
<1>3. CASE ~problem.feasible
  <2> SUFFICES ASSUME NEW x \in points PROVE FALSE
    BY <1>3 DEF Claim
  <2> DEFINE zero == [j \in Variables |-> Whole(0)]
             side == Side(zero, 1, Whole(1))
  <2>1. Solutions = {}
    <3>1. problem.solutions \in Seq([Variables -> ExactNumber]) /\ Len(problem.solutions) = 0
      BY <1>1, <1>3 DEF NonzeroDenominators, TypeOK, print_sol
    <3> QED
      BY <3>1 DEF Solutions
  <2>2. x \in Vector /\ Better(x)
    BY <1>2, <2>1 DEF Better
  <2>3. zero \in Vector /\ Whole(1) \in Rational
    BY WholeType DEF Vector
  <2>4. /\ print_DOM(SideOf(p, constraint(last_constraint_index)), side)
        /\ NoAssumptionLeft
    BY <1>3, Zenon DEF print_solcheck
  <2>5. \A j \in Variables : IsZero(zero[j])
    BY DEF IsZero, Whole
  <2> HIDE DEF zero
  <2>6. side.a = zero /\ side.b = Whole(1) /\ side.geq
    BY SideFields
  <2>7. AllZero(side) /\ side.b[1] > 0
    BY <2>5, <2>6 DEF AllZero, Whole
  <2>8. SideHolds(side, x) /\ IsSide(side)
    BY <2>2, <2>3, <2>4, <2>6, LastHolds DEF IsSide
  <2> HIDE DEF side
  <2> QED
    BY <2>2, <2>6, <2>7, <2>8, NoZeroSide
<1>4. CASE problem.feasible
  <2>1. \A s \in Solutions : Values(s) \in points
    BY <1>4, SolutionsFeasible
  <2>2. \A x \in points : \E y \in Vector : Better(y) /\ AsGoodAs(y, x)
    BY <1>2, <1>4, BetterThan
  <2>3. CASE problem.minimization
    <3>1. ASSUME problem.has_lower, NEW x \in points
          PROVE  Leq(Value(problem.lower), Objective(x))
      <4>1. PICK y \in Vector : Better(y) /\ AsGoodAs(y, x)
        BY <2>2, <3>1
      <4>2. /\ print_DOM(SideOf(p, constraint(last_constraint_index)),
                         Side(o, 1, Value(problem.lower)))
            /\ NoAssumptionLeft
        BY <1>0, <1>4, <2>3, <3>1 DEF print_solcheck, print_plb
      <4>3. SideHolds(Side(o, 1, Value(problem.lower)), y)
        BY <1>1, <4>1, <4>2, LastHolds
      <4>4. Leq(Value(problem.lower), Objective(y))
        BY <1>1, <4>3, SideFields DEF SideHolds
      <4>5. Leq(Objective(y), Objective(x))
        BY <2>3, <4>1 DEF AsGoodAs
      <4>6. Objective(x) \in Rational /\ Objective(y) \in Rational
        BY <1>1, <1>2, DotIsTotal
      <4> QED
        BY <1>1, <4>4, <4>5, <4>6, LeqTransitive
    <3>2. ASSUME problem.has_upper
          PROVE  \E x \in points : Leq(Objective(x), Value(problem.upper))
      <4>1. PICK s \in Solutions : print_respect_bound(q, problem.objective, s, -1, problem.upper)
        BY <1>4, <2>3, <3>2 DEF print_sol, print_pub, print_one_solution_within_bound
      <4>2. Leq(Objective(Values(s)), Value(problem.upper))
        BY <1>1, <4>1, RespectBound DEF Compare, Objective
      <4> QED
        BY <2>1, <4>2
    <3> QED
      BY <1>4, <2>3, <3>1, <3>2 DEF Claim
  <2>4. CASE ~problem.minimization
    <3>1. ASSUME problem.has_upper, NEW x \in points
          PROVE  Leq(Objective(x), Value(problem.upper))
      <4>1. PICK y \in Vector : Better(y) /\ AsGoodAs(y, x)
        BY <2>2, <3>1
      <4>2. /\ print_DOM(SideOf(p, constraint(last_constraint_index)),
                         Side(o, -1, Value(problem.upper)))
            /\ NoAssumptionLeft
        BY <1>0, <1>4, <2>4, <3>1 DEF print_solcheck, print_pub
      <4>3. SideHolds(Side(o, -1, Value(problem.upper)), y)
        BY <1>1, <4>1, <4>2, LastHolds
      <4>4. Leq(Objective(y), Value(problem.upper))
        BY <1>1, <4>3, SideFields DEF SideHolds
      <4>5. Leq(Objective(x), Objective(y))
        BY <2>4, <4>1 DEF AsGoodAs
      <4>6. Objective(x) \in Rational /\ Objective(y) \in Rational
        BY <1>1, <1>2, DotIsTotal
      <4> QED
        BY <1>1, <4>4, <4>5, <4>6, LeqTransitive
    <3>2. ASSUME problem.has_lower
          PROVE  \E x \in points : Leq(Value(problem.lower), Objective(x))
      <4>1. PICK s \in Solutions : print_respect_bound(q, problem.objective, s, 1, problem.lower)
        BY <1>4, <2>4, <3>2 DEF print_sol, print_plb, print_one_solution_within_bound
      <4>2. Leq(Value(problem.lower), Objective(Values(s)))
        BY <1>1, <4>1, RespectBound DEF Compare, Objective
      <4> QED
        BY <2>1, <4>2
    <3> QED
      BY <1>4, <2>4, <3>1, <3>2 DEF Claim
  <2> QED
    BY <2>3, <2>4
<1> QED
  BY <1>3, <1>4

\* A certificate all of whose files are sat proves what its section RTP claims.
THEOREM AcceptedClaims ==
  ASSUME PositiveDenominators, NonzeroDenominators, IntegralSolutions
  PROVE  Spec => []AcceptedIsTrue
<1>1. CertificateInv => AcceptedIsTrue
  BY ChecksProve DEF AcceptedIsTrue, CertificateInv, AcceptInv
<1> QED
  BY <1>1, CertificateInvariant, PTL
=============================================================================
