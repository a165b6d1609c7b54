------------------------------ MODULE Certificate ------------------------------
(***************************************************************************)
(* The formula of a certificate: the predicates SOL and DER of             *)
(* src/certificate.cpp, as the solver evaluates what the print_ functions  *)
(* write, over a certificate read as in src/main.cpp.                      *)
(*                                                                         *)
(* A certificate is a problem (constraints, objective, solutions and the   *)
(* claim to be proved) and a list of derived constraints, each with its    *)
(* reason.  Derivations are taken here in the order of the file, one step  *)
(* for each: its constraint and reason are read, calculate_dependencies    *)
(* computes its assumptions (module Dependencies), and the solver gets its *)
(* part of the formula.  No part reads a later derivation, but for         *)
(* print_ASM, which theorem AsmIsCalculated says is always true.           *)
(*                                                                         *)
(* Variables are 1..NumVariables; a vector has a Number for each.  A       *)
(* direction is the number print_s writes for it: -1 for <=, 0 for =, 1    *)
(* for >=.                                                                 *)
(*                                                                         *)
(* A file of the formula is true if the solver finds quotients by zero, q  *)
(* below, that make it so; another file may be true with others.  There is *)
(* a file for each derivation here, as with blocks of one; a longer block  *)
(* has one q for all its derivations and is true no more often.            *)
(***************************************************************************)
EXTENDS Numbers

CONSTANTS NumVariables,     \* number_variables
          IntegralVariables,\* variable_integral_vector
          NumProblem,       \* number_problem_constraints
          MaxDerived,       \* a bound on number_derived_constraints
          Problems,         \* what the sections before DER may say
          Derivations,      \* what a line of DER may be: a constraint and a reason
          Points,           \* the assignments at which claims are tested
          Dividends,        \* a bound on the integers that are divided by zero
          Quotients         \* what the solver may take their quotients for

Variables == 1..NumVariables
NonIntegralVariables == Variables \ IntegralVariables

Constraint == [coefficients : [Variables -> Number], direction : {-1, 0, 1}, target : Number]

ASSUME SizeAssumption ==
  /\ NumVariables \in Nat \ {0} /\ NumProblem \in Nat \ {0} /\ MaxDerived \in Nat \ {0}
  /\ IntegralVariables \subseteq Variables
ASSUME ProblemAssumption ==
  \A p \in Problems :
    /\ p.constraints \in Seq(Constraint) /\ Len(p.constraints) = NumProblem
    /\ p.solutions \in Seq([Variables -> Number])
    /\ p.objective \in [Variables -> Number]
    /\ {p.lower, p.upper} \subseteq Number
    /\ {p.minimization, p.feasible, p.has_lower, p.has_upper} \subseteq BOOLEAN
ASSUME DerivationAssumption ==
  \A d \in Derivations :
    /\ d.constraint \in Constraint
    /\ d.reason.type \in {"asm", "lin", "rnd", "uns", "sol"}
    /\ d.reason.indexes \in Seq(Nat)
    /\ d.reason.multipliers \in Seq(Number)
    /\ d.reason.type \in {"lin", "rnd"} =>
         Len(d.reason.multipliers) = Len(d.reason.indexes)
    /\ d.reason.type = "uns" => Len(d.reason.indexes) = 4

ASSUME PointAssumption == Points \subseteq [Variables -> Rational]
ASSUME QuotientAssumption == Quotients # {} /\ Quotients \subseteq [Dividends -> Rational]

Reasons == {d.reason : d \in Derivations}

VARIABLES problem,          \* objective, solutions, minimization and claim
          constraints,      \* problem constraints, then derived ones
          reasons,          \* which derivations are assumptions
          dependencies,     \* dependencies[k] is A_k
          verdict           \* "running", "threw", or the conjunction of all answers

vars == <<problem, constraints, reasons, dependencies, verdict>>

\* The code counts constraints from 0.
constraint(k) == constraints[k + 1]
last_constraint_index == Len(constraints) - 1

D == INSTANCE Dependencies WITH i <- Len(constraints), status <- verdict,
                                NumDerived <- MaxDerived

(***************************************************************************)
(* Predicate SOL.                                                          *)
(***************************************************************************)
Values(vector) == [j \in DOMAIN vector |-> Value(vector[j])]

\* print_direction_op2
Compare(direction, x, y) ==
  CASE direction = -1 -> Leq(x, y)
    [] direction = 0 -> Same(x, y)
    [] OTHER -> Leq(y, x)

\* A product.  It is not written, and taken for 0, if a factor is zero by its text.
Term(q, m, n) ==
  IF is_zero(m) \/ is_zero(n) THEN Whole(0) ELSE Times(print_number(q, m), print_number(q, n))

SumOfProducts(q, a, b) == Total(Len(a), [j \in DOMAIN a |-> Term(q, a[j], b[j])])

print_respect_bound(q, coefficients, assignments, direction, target) ==
  Compare(direction, SumOfProducts(q, coefficients, assignments), print_number(q, target))

Solutions == {problem.solutions[s] : s \in DOMAIN problem.solutions}

\* Mutant: the integral variables of a solution are not looked at.
print_feas_without_integrality(q, solution) ==
  \A k \in 1..NumProblem :
    LET c == constraints[k]
    IN  /\ c.direction >= 0 => print_respect_bound(q, c.coefficients, solution, 1, c.target)
        /\ c.direction <= 0 => print_respect_bound(q, c.coefficients, solution, -1, c.target)

print_feas_individual(q, solution) ==
  /\ \A j \in IntegralVariables : solution[j].is_integral
  /\ \A k \in 1..NumProblem :
       LET c == constraints[k]
       IN  /\ c.direction >= 0 => print_respect_bound(q, c.coefficients, solution, 1, c.target)
           /\ c.direction <= 0 => print_respect_bound(q, c.coefficients, solution, -1, c.target)

print_one_solution_within_bound(q, direction, bound) ==
  \E s \in Solutions : print_respect_bound(q, problem.objective, s, direction, bound)

print_pub == problem.feasible /\ problem.has_upper
print_plb == problem.feasible /\ problem.has_lower

print_sol(q) ==
  IF ~problem.feasible THEN Len(problem.solutions) = 0
  ELSE /\ \A s \in Solutions : print_feas_individual(q, s)
       /\ IF problem.minimization
          THEN print_pub => print_one_solution_within_bound(q, -1, problem.upper)
          ELSE print_plb => print_one_solution_within_bound(q, 1, problem.lower)

(***************************************************************************)
(* Predicate DER: domination, rounding and disjunction.  A side of a       *)
(* domination is a constraint, or the combination of a lin or a rnd.       *)
(***************************************************************************)
Side(coefficients, direction, target) ==
  [a |-> coefficients, b |-> target,
   eq |-> direction = 0, geq |-> direction >= 0, leq |-> direction <= 0]

print_numbers(q, vector) == [j \in DOMAIN vector |-> print_number(q, vector[j])]

SideOf(q, c) == Side(print_numbers(q, c.coefficients), c.direction, print_number(q, c.target))

AllZero(s) == \A j \in Variables : IsZero(s.a[j])
SameCoefficients(s, t) == \A j \in Variables : Same(s.a[j], t.a[j])

print_DOM(s, t) ==
  \/ /\ AllZero(s)
     /\ \/ s.eq /\ ~IsZero(s.b)
        \/ ~s.eq /\ s.geq /\ s.b[1] > 0
        \/ ~s.eq /\ ~s.geq /\ s.leq /\ s.b[1] < 0
  \/ /\ SameCoefficients(s, t)
     /\ \/ t.eq /\ s.eq /\ Same(s.b, t.b)
        \/ ~t.eq /\ t.geq /\ s.geq /\ Leq(t.b, s.b)
        \/ ~t.eq /\ ~t.geq /\ t.leq /\ s.leq /\ Leq(s.b, t.b)

\* The combination of a lin or rnd: print_LIN_RND_aj and print_LIN_RND_b.
print_LIN_RND_aj(q, r, j) ==
  Total(Len(r.indexes),
        [n \in DOMAIN r.indexes |->
           Term(q, r.multipliers[n], constraint(r.indexes[n]).coefficients[j])])
print_LIN_RND_b(q, r) ==
  Total(Len(r.indexes),
        [n \in DOMAIN r.indexes |->
           Term(q, r.multipliers[n], constraint(r.indexes[n]).target)])

\* The sign of the combination.  These three are computed in C++, from the first
\* character of each multiplier's numerator.
Unsettled(r) == {n \in DOMAIN r.indexes : /\ ~is_zero(r.multipliers[n])
                                          /\ constraint(r.indexes[n]).direction # 0}
print_eq(r) == Unsettled(r) = {}
print_geq(r) ==
  \A n \in Unsettled(r) :
    constraint(r.indexes[n]).direction = (IF IsSigned(r.multipliers[n]) THEN -1 ELSE 1)
\* Mutant: the body of print_geq, copied.
print_leq_copied(r) == print_geq(r)

print_leq(r) ==
  \A n \in Unsettled(r) :
    constraint(r.indexes[n]).direction = (IF IsSigned(r.multipliers[n]) THEN 1 ELSE -1)

\* The same three, left to the solver: the build with EQ_LEQ_GEG_SMT.
print_conjunction_eq_leq_geq(q, r, direction) ==
  \A n \in Unsettled(r) :
    Compare(direction,
            Times(print_number(q, r.multipliers[n]), Whole(constraint(r.indexes[n]).direction)),
            Whole(0))

Combination(q, r) ==
  [a |-> [j \in Variables |-> print_LIN_RND_aj(q, r, j)], b |-> print_LIN_RND_b(q, r),
   eq |-> print_eq(r), geq |-> print_geq(r), leq |-> print_leq(r)]

\* Mutant: the variables that are not integral are not looked at.
print_RND_integral_only(s) ==
  /\ \A j \in IntegralVariables : IsInt(s.a[j])
  /\ ~s.eq

print_RND(s) ==
  /\ \A j \in IntegralVariables : IsInt(s.a[j])
  /\ \A j \in NonIntegralVariables : IsZero(s.a[j])
  /\ ~s.eq

print_rnd_individual_part2(q, s, c) ==
  \/ /\ AllZero(s)
     /\ \/ s.geq /\ s.b[1] > 0
        \/ ~s.geq /\ s.leq /\ s.b[1] < 0
  \/ /\ SameCoefficients(s, SideOf(q, c))
     /\ IF c.direction = 1 THEN s.geq /\ Leq(print_number(q, c.target), print_ceil(s.b))
                           ELSE s.leq /\ Leq(Floor(s.b), print_number(q, c.target))

\* a.x <= b or a.x >= b + 1, for an integral a.x.
print_DIS(q, ci, cj) ==
  LET s == SideOf(q, ci)
      t == SideOf(q, cj)
  IN  /\ SameCoefficients(s, t)
      /\ \A j \in IntegralVariables : IsInt(s.a[j])
      /\ \A j \in NonIntegralVariables : IsZero(s.a[j])
      /\ IsInt(s.b) /\ IsInt(t.b)
      /\ ci.direction # 0 /\ ci.direction + cj.direction = 0
      /\ Same(s.b, Plus(t.b, Whole(IF ci.direction = 1 THEN 1 ELSE -1)))

\* print_sol_individual_dom: the objective is as good as the solution's.
print_sol_individual_dom(q, solution, c) ==
  print_DOM(Side(print_numbers(q, problem.objective), IF problem.minimization THEN -1 ELSE 1,
                 SumOfProducts(q, problem.objective, solution)),
            SideOf(q, c))

\* print_der_individual, without the index predicates print_ASM, print_PRV and
\* the comparisons of a uns, which hold of every derivation that did not throw.
print_der_individual(q, r, c) ==
  CASE r.type = "asm" -> TRUE
    [] r.type = "lin" -> print_DOM(Combination(q, r), SideOf(q, c))
    [] r.type = "rnd" -> /\ c.direction # 0
                         /\ LET s == Combination(q, r)
                            IN  print_RND(s) /\ print_rnd_individual_part2(q, s, c)
    [] r.type = "uns" -> /\ print_DOM(SideOf(q, constraint(D!get_i1(r))), SideOf(q, c))
                         /\ print_DOM(SideOf(q, constraint(D!get_i2(r))), SideOf(q, c))
                         /\ print_DIS(q, constraint(D!get_l1(r)), constraint(D!get_l2(r)))
    [] OTHER -> \E s \in Solutions : print_sol_individual_dom(q, s, c)

\* No derivation by asm is among the assumptions of the last constraint.
NoAssumptionLeft ==
  \A j \in NumProblem..last_constraint_index :
     reasons[j].type = "asm" => j \notin D!AssumptionsOf(last_constraint_index)

\* task_der_part2 of print_der, the file .DER-solcheck.
print_solcheck(q) ==
  LET last == SideOf(q, constraint(last_constraint_index))
      objective == print_numbers(q, problem.objective)
  IN  IF ~problem.feasible
      THEN /\ print_DOM(last, Side([j \in Variables |-> Whole(0)], 1, Whole(1)))
           /\ NoAssumptionLeft
      ELSE /\ problem.minimization /\ print_plb =>
                /\ print_DOM(last, Side(objective, 1, print_number(q, problem.lower)))
                /\ NoAssumptionLeft
           /\ ~problem.minimization /\ print_pub =>
                /\ print_DOM(last, Side(objective, -1, print_number(q, problem.upper)))
                /\ NoAssumptionLeft

(***************************************************************************)
(* Reading and judging a certificate.                                      *)
(***************************************************************************)
Init ==
  /\ problem \in Problems
  /\ constraints = problem.constraints
  /\ reasons = [k \in D!Index |-> D!NoReason]
  /\ dependencies = [k \in D!Index |-> {}]
  /\ verdict = "running"

\* A derivation whose formula is true.  Of its reason, what follows reads only
\* whether it is an assumption.
Derive(r, c) ==
  LET k == Len(constraints)
  IN  /\ verdict = "running"
      /\ k \in D!Index
      /\ ~D!CitesLater(r, k)
      /\ \E q \in Quotients : print_der_individual(q, r, c)
      /\ constraints' = Append(constraints, c)
      /\ reasons' = [reasons EXCEPT ![k].type = IF r.type = "asm" THEN "asm" ELSE @]
      /\ dependencies' = [dependencies EXCEPT ![k] = D!DependenciesOf(r, k)]
      /\ UNCHANGED <<problem, verdict>>

\* A derivation whose formula is false: the rest of the file changes nothing.
Refuse(r, c) ==
  /\ verdict = "running"
  /\ Len(constraints) \in D!Index
  /\ ~D!CitesLater(r, Len(constraints))
  /\ \A q \in Quotients : ~print_der_individual(q, r, c)
  /\ verdict' = "unsat"
  /\ UNCHANGED <<problem, constraints, reasons, dependencies>>

Throw(r) ==
  /\ verdict = "running"
  /\ Len(constraints) \in D!Index
  /\ D!CitesLater(r, Len(constraints))
  /\ verdict' = "threw"
  /\ UNCHANGED <<problem, constraints, reasons, dependencies>>

\* The file ends; what is left are the files .SOL and .DER-solcheck.
Conclude ==
  /\ verdict = "running"
  /\ verdict' = IF /\ \E q \in Quotients : print_sol(q)
                   /\ \E q \in Quotients : print_solcheck(q)
                THEN "sat" ELSE "unsat"
  /\ UNCHANGED <<problem, constraints, reasons, dependencies>>

Terminating == verdict # "running" /\ UNCHANGED vars

Next ==
  \/ \E d \in Derivations : \/ Derive(d.reason, d.constraint)
                           \/ Refuse(d.reason, d.constraint)
                           \/ Throw(d.reason)
  \/ Conclude
  \/ Terminating

Spec == Init /\ [][Next]_vars

(***************************************************************************)
(* Properties.                                                             *)
(***************************************************************************)
TypeOK ==
  /\ problem \in Problems
  /\ constraints \in Seq(Constraint)
  /\ Len(constraints) \in NumProblem..(NumProblem + MaxDerived)
  /\ dependencies \in [D!Index -> SUBSET D!Derived]
  /\ verdict \in {"running", "threw", "sat", "unsat"}

Holds(c, x) == Compare(c.direction, Dot(Values(c.coefficients), x), Value(c.target))

\* What a .vipr file means by a feasible point.
Satisfies(x) ==
  /\ \A j \in IntegralVariables : IsInt(x[j])
  /\ \A k \in 1..NumProblem : Holds(constraints[k], x)

Objective(x) == Dot(Values(problem.objective), x)
AsGoodAs(x, y) == IF problem.minimization THEN Leq(Objective(x), Objective(y))
                                          ELSE Leq(Objective(y), Objective(x))

\* Every derived constraint the solver accepts holds at every feasible point
\* that satisfies its assumptions and is no worse than the solutions given: no
\* lin, rnd, uns or sol concludes more than it proves, and no rule loses an
\* assumption.
DerivedHolds ==
  verdict = "running" =>
  \A x \in Points :
    Satisfies(x) /\ (\A s \in Solutions : AsGoodAs(x, Values(s))) =>
      \A k \in NumProblem..last_constraint_index :
        (\A j \in dependencies[k] : Holds(constraint(j), x)) => Holds(constraint(k), x)

\* What the section RTP claims, at the points and the solutions.
Claim ==
  LET points == {x \in Points \union {Values(s) : s \in Solutions} : Satisfies(x)}
  IN  IF ~problem.feasible THEN points = {}
      ELSE /\ problem.has_lower =>
                IF problem.minimization
                THEN \A x \in points : Leq(Value(problem.lower), Objective(x))
                ELSE \E x \in points : Leq(Value(problem.lower), Objective(x))
           /\ problem.has_upper =>
                IF problem.minimization
                THEN \E x \in points : Leq(Objective(x), Value(problem.upper))
                ELSE \A x \in points : Leq(Objective(x), Value(problem.upper))

\* A certificate all of whose files are sat proves its claim.
AcceptedIsTrue == verdict = "sat" => Claim

\* No multiplier with the value 0 is written otherwise than 0.
ZerosArePlain(r) ==
  \A n \in DOMAIN r.multipliers :
    is_zero(r.multipliers[n]) \/ IntOf(r.multipliers[n].numerator) # 0

\* The signs the C++ code finds in the text of the multipliers are right, for each
\* reason the next derivation may have, if there may be a next one: what it
\* says of a combination, =, >= or <=, the solver would say in the other build,
\* however a zero is written; and the other way where a zero is written 0.
SignsSound ==
  verdict = "running" /\ Len(constraints) \in D!Index =>
  \A r \in Reasons, q \in Quotients :
    r.type \in {"lin", "rnd"} /\ ~D!CitesLater(r, Len(constraints)) =>
      /\ print_eq(r) => print_conjunction_eq_leq_geq(q, r, 0)
      /\ print_geq(r) => print_conjunction_eq_leq_geq(q, r, 1)
      /\ print_leq(r) => print_conjunction_eq_leq_geq(q, r, -1)
      /\ ZerosArePlain(r) =>
           /\ print_conjunction_eq_leq_geq(q, r, 0) => print_eq(r)
           /\ print_conjunction_eq_leq_geq(q, r, 1) => print_geq(r)
           /\ print_conjunction_eq_leq_geq(q, r, -1) => print_leq(r)
=============================================================================
