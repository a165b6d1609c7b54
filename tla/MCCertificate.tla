----------------------------- MODULE MCCertificate -----------------------------
(* Instances of Certificate for TLC: x, integral, is variable 1 and y is       *)
(* variable 2.  The problems are small enough for a proof of three or four     *)
(* derivations and need an assumption, a rounding and a disjunction.           *)
EXTENDS Certificate

N(z) == Integral(z)
Half == Fraction(1, 2)

C(a, b, direction, target) ==
  [coefficients |-> <<a, b>>, direction |-> direction, target |-> target]

Infeasible == [feasible |-> FALSE, has_lower |-> FALSE, lower |-> N(0),
                                   has_upper |-> FALSE, upper |-> N(0)]
Bounds(lower, upper) == [feasible |-> TRUE, has_lower |-> lower # "-inf",
                        lower |-> IF lower = "1" THEN N(1) ELSE N(0),
                        has_upper |-> upper # "inf",
                        upper |-> IF upper = "1" THEN N(1) ELSE N(0)]

\* The objective is x, or y.
Problem(cs, o, m, s, q) ==
  [constraints |-> cs, objective |-> o, minimization |-> m, solutions |-> s,
   feasible |-> q.feasible, has_lower |-> q.has_lower, lower |-> q.lower,
   has_upper |-> q.has_upper, upper |-> q.upper]

X == <<N(1), N(0)>>
Y == <<N(0), N(1)>>

Above == <<C(N(2), N(0), 1, N(1)), C(N(0), N(1), 1, Half)>>   \* 2x >= 1, y >= 1/2
Between == <<C(N(2), N(0), 0, N(1)), C(N(1), N(1), -1, N(1))>> \* 2x = 1, x + y <= 1
Below == <<C(N(2), N(0), -1, N(1)), C(N(1), N(-1), 1, N(0))>>  \* 2x <= 1, x - y >= 0

\* Some claims are true and some are false.
MCProblems ==
  { Problem(Above, X, TRUE, << >>, Bounds("1", "inf")),
    Problem(Above, X, TRUE, << <<N(1), Half>> >>, Bounds("1", "1")),
    Problem(Above, Y, TRUE, << <<N(1), Half>> >>, Bounds("1", "inf")),
    Problem(Above, X, TRUE, << >>, Infeasible),
    Problem(Between, X, TRUE, << >>, Infeasible),
    Problem(Between, X, TRUE, << <<Half, Half>> >>, Bounds("-inf", "1")),
    Problem(Below, X, FALSE, << <<N(0), N(0)>> >>, Bounds("0", "0")),
    Problem(Below, X, FALSE, << <<N(0), N(0)>>, <<N(-1), N(-1)>> >>, Bounds("1", "0")) }

\* Zeros that are not written 0, and a quotient of zero and zero.
MinusZero == [Integral(0) EXCEPT !.numerator.minus = TRUE]
DoubleZero == [Integral(0) EXCEPT !.numerator.plain = FALSE]
NoQuotient == Fraction(0, 0)

XAtMost0 == C(N(1), MinusZero, -1, N(0))
XAtLeast1 == C(N(1), N(0), 1, N(1))
XAtLeastHalf == C(N(1), N(0), 1, Half)
YAtLeast1 == C(N(0), N(1), 1, N(1))
Falsity == C(N(0), N(0), 1, N(1))

MCMultipliers == {Half, N(1), N(-1)}

\* Every index a derivation may cite, and one that is always too late.
Cite == 0..4
MCPairs == {<<a, b>> \in Cite \X Cite : a < b}

Reason(t, is, ms) == [type |-> t, indexes |-> is, multipliers |-> ms]

Cites(t) ==
  {Reason(t, <<a>>, <<m>>) : a \in Cite, m \in MCMultipliers}
    \union {Reason(t, p, <<m, n>>) : p \in MCPairs, m \in {Half, N(1)}, n \in MCMultipliers}

\* Multipliers whose value is zero, for a constraint cited next to another.
ZeroCites == {Reason("lin", p, <<N(1), z>>) :
                p \in MCPairs, z \in {N(0), MinusZero, DoubleZero, NoQuotient}}

\* A uns is symmetric in its two branches, which are assumptions in turn.
Splits == {Reason("uns", <<a, p[1], b, p[2]>>, << >>) :
             a \in Cite, b \in Cite, p \in {<<2, 3>>, <<2, 4>>, <<3, 4>>}}

Pairs(rs, cs) == {[reason |-> r, constraint |-> c] : r \in rs, c \in cs}

MCDerivations ==
  UNION { Pairs({Reason("asm", << >>, << >>)}, {XAtMost0, XAtLeast1}),
          Pairs({Reason("sol", << >>, << >>)}, {XAtMost0, XAtLeast1}),
          Pairs({Reason("lin", <<5>>, <<N(1)>>)}, {Falsity}),
          Pairs(Cites("lin"), {XAtLeastHalf, Falsity}),
          Pairs(ZeroCites, {XAtLeastHalf}),
          Pairs(Cites("rnd"), {XAtMost0, XAtLeast1, YAtLeast1}),
          Pairs(Splits, {XAtLeast1, Falsity}) }

\* The same problem and derivations with a multiplier that has two signs, -1/-2.
DoubleSigned == Fraction(-1, -2)
SignProblems == {Problem(Above, X, TRUE, << >>, Infeasible)}
SignDerivations ==
  MCDerivations \union Pairs({Reason("rnd", <<a>>, <<DoubleSigned>>) : a \in Cite}, {XAtMost0})

\* The same problem and a constraint whose target is divided by zero, 0 >= 1/0.  With
\* these, and with TwoQuotients, AcceptedIsTrue does not hold.
ZeroDerivations ==
  MCDerivations \union
  Pairs({Reason("lin", << >>, << >>)}, {C(N(0), N(0), 1, Fraction(1, 0))})

\* The quotients of 0 and 1 by zero: not those of a limit, and once two choices.
MCDividends == {0, 1}
OneQuotient == {[z \in MCDividends |-> Whole(2)]}
TwoQuotients == {[z \in MCDividends |-> Whole(p)] : p \in {0, 1}}

MCPoints ==
  {<<Whole(p), <<q, 2>> >> : p \in -1..2, q \in 0..2}
=============================================================================
