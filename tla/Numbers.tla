-------------------------------- MODULE Numbers --------------------------------
(***************************************************************************)
(* The numbers of a certificate: struct Number of src/basic_types.h, what  *)
(* print_number of src/certificate.cpp writes for one, and the arithmetic  *)
(* of the solver on it.                                                    *)
(*                                                                         *)
(* A Number keeps the text of its numerator and denominator.  Of the text  *)
(* the code looks at two things: whether it is "0" and whether it begins   *)
(* with "-".  A Numeral is a text up to that: 0, -0 and 00 are different.  *)
(* is_integral says that there was no "/": 4/2 is a fraction, 2 is not,    *)
(* and the decimal 0.5, which the parser takes too, is an integral number  *)
(* with the denominator 2.  Nothing in the parser asks that a denominator  *)
(* be positive, nor that it be other than zero.                            *)
(***************************************************************************)
EXTENDS Integers, Sequences

\* plain: written without the zeros that change nothing, as in 00 and 0.0.
Numeral == [minus : BOOLEAN, digits : Nat, plain : BOOLEAN]
Number == [numerator : Numeral, denominator : Int, is_integral : BOOLEAN]

IntOf(numeral) == IF numeral.minus THEN -numeral.digits ELSE numeral.digits

\* An integer as it is usually written.
Written(z) == [minus |-> z < 0, digits |-> IF z < 0 THEN -z ELSE z, plain |-> TRUE]

Integral(z) == [numerator |-> Written(z), denominator |-> 1, is_integral |-> TRUE]
Fraction(z, d) == [numerator |-> Written(z), denominator |-> d, is_integral |-> FALSE]

\* Number::is_zero compares the text of the numerator with "0": neither -0, nor
\* 00, nor 0.0 is zero, and 0/0 is.
is_zero(n) == n.numerator = [minus |-> FALSE, digits |-> 0, plain |-> TRUE]

\* numerator[0] == '-'
IsSigned(n) == n.numerator.minus

(***************************************************************************)
(* Values: pairs <<p, q>> with q > 0, for the rational p / q.              *)
(***************************************************************************)
Rational == Int \X (Nat \ {0})

\* The fraction, where the denominator is not zero.
Value(n) ==
  LET z == IntOf(n.numerator)
  IN  IF n.denominator > 0 THEN <<z, n.denominator>> ELSE <<-z, -n.denominator>>

\* What the solver reads from the output of print_number.  The quotient of z and
\* zero is some number, the same wherever it is written in a file, which the
\* solver may choose: quotients[z].
print_number(quotients, n) ==
  IF n.denominator = 0 THEN quotients[IntOf(n.numerator)] ELSE Value(n)

Whole(z) == <<z, 1>>

Plus(x, y) == <<x[1] * y[2] + y[1] * x[2], x[2] * y[2]>>
Times(x, y) == <<x[1] * y[1], x[2] * y[2]>>
Negate(x) == <<-x[1], x[2]>>
Leq(x, y) == x[1] * y[2] <= y[1] * x[2]
Same(x, y) == x[1] * y[2] = y[1] * x[2]
IsZero(x) == x[1] = 0

\* OP_INTEGRAL and OP_RND_DOWN, the solver's is_int and to_int, and print_ceil,
\* the negation of to_int of the negation.
IsInt(x) == x[1] % x[2] = 0
Floor(x) == Whole(x[1] \div x[2])
print_ceil(x) == Negate(Floor(Negate(x)))

\* f[1] + ... + f[n], and the product of two vectors.
Total(n, f) ==
  LET partial[m \in 0..n] == IF m = 0 THEN Whole(0) ELSE Plus(partial[m - 1], f[m])
  IN  partial[n]
Dot(a, b) == Total(Len(a), [j \in DOMAIN a |-> Times(a[j], b[j])])
=============================================================================
