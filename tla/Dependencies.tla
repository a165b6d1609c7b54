------------------------------ MODULE Dependencies ------------------------------
(***************************************************************************)
(* Certificate::precompute / calculate_dependencies and the two predicates *)
(* of src/certificate.cpp that are about indexes only, print_ASM and       *)
(* print_PRV.                                                              *)
(*                                                                         *)
(* Constraints are numbered as in a .vipr file: the problem's constraints  *)
(* first, then one per derivation.  A_k, dependencies[k], is the set of    *)
(* assumptions (derivations by asm) under which constraint k was derived.  *)
(* One step is one iteration of the loop of calculate_dependencies; the    *)
(* reason of derivation i, which nothing reads before iteration i, is      *)
(* chosen there.                                                           *)
(***************************************************************************)
EXTENDS Integers, Sequences

CONSTANTS NumProblem,     \* number_problem_constraints
          NumDerived,     \* number_derived_constraints
          Reasons         \* the reasons a derivation of the certificate may have

Index == 0..(NumProblem + NumDerived - 1)
Problem == {k \in Index : k < NumProblem}
Derived == {k \in Index : k >= NumProblem}

\* The pairs of a lin or rnd are only their indexes here; of the four numbers
\* of a uns, in the order of the file, the code takes i1, l1, i2, l2.
ASSUME SizeAssumption == NumProblem \in Nat /\ NumDerived \in Nat \ {0}
ASSUME ReasonAssumption ==
  \A r \in Reasons :
    /\ r.type \in {"asm", "lin", "rnd", "uns", "sol"}
    /\ r.indexes \in Seq(Nat)
    /\ r.type = "uns" => Len(r.indexes) = 4
    /\ r.type \in {"asm", "sol"} => r.indexes = <<>>

VARIABLES i,              \* the loop index of calculate_dependencies
          reasons,        \* reasons[k]: derivations[k - number_problem_constraints].reason
          dependencies,   \* {} stands for nullptr too
          status          \* "running", "done" or "threw"

vars == <<i, reasons, dependencies, status>>

NoReason == [type |-> "none", indexes |-> <<>>]

get_i1(r) == r.indexes[1]
get_l1(r) == r.indexes[2]
get_i2(r) == r.indexes[3]
get_l2(r) == r.indexes[4]

Cited(r) == {r.indexes[n] : n \in DOMAIN r.indexes}

(***************************************************************************)
(* calculate_dependencies.                                                 *)
(***************************************************************************)
\* The problem's constraints have no assumptions.
AssumptionsOf(k) == IF k < NumProblem THEN {} ELSE dependencies[k]

\* Both case labels check before they read: an index that is not earlier.
CitesLater(r, k) == r.type \in {"lin", "rnd", "uns"} /\ \E n \in Cited(r) : n >= k

\* Mutants: l2 is erased whoever put it there; both insertions before the erasures.
UnsAlwaysErases(r) ==
  LET both == (AssumptionsOf(get_i1(r)) \ {get_l1(r)}) \union AssumptionsOf(get_i2(r))
  IN  IF get_i2(r) >= NumProblem THEN both \ {get_l2(r)} ELSE both
UnsErasesLast(r) ==
  (AssumptionsOf(get_i1(r)) \union AssumptionsOf(get_i2(r))) \ {get_l1(r), get_l2(r)}

\* insert, erase l1, then insert; l2 is erased unless it was there before.
UnsDependencies(r) ==
  LET first == AssumptionsOf(get_i1(r)) \ {get_l1(r)}
      exclude == get_l2(r) \notin first
      both == first \union AssumptionsOf(get_i2(r))
  IN  IF get_i2(r) >= NumProblem /\ exclude THEN both \ {get_l2(r)} ELSE both

\* Mutants: an assumption known by its position in derivations; a lin that
\* depends on what it cites.
DependenciesByPosition(r, k) ==
  CASE r.type = "asm" -> {k - NumProblem}
    [] r.type \in {"lin", "rnd"} -> UNION {AssumptionsOf(n) : n \in Cited(r)}
    [] r.type = "uns" -> UnsDependencies(r)
    [] OTHER -> {}
DependenciesOnCited(r, k) ==
  CASE r.type = "asm" -> {k}
    [] r.type \in {"lin", "rnd"} -> Cited(r) \intersect Derived
    [] r.type = "uns" -> UnsDependencies(r)
    [] OTHER -> {}

DependenciesOf(r, k) ==
  CASE r.type = "asm" -> {k}
    [] r.type \in {"lin", "rnd"} -> UNION {AssumptionsOf(n) : n \in Cited(r)}
    [] r.type = "uns" -> UnsDependencies(r)
    [] OTHER -> {}

Init ==
  /\ i = NumProblem
  /\ reasons = [k \in Index |-> NoReason]
  /\ dependencies = [k \in Index |-> {}]
  /\ status = "running"

Calculate(r) ==
  /\ status = "running"
  /\ i \in Index
  /\ ~CitesLater(r, i)
  /\ reasons' = [reasons EXCEPT ![i] = r]
  /\ dependencies' = [dependencies EXCEPT ![i] = DependenciesOf(r, i)]
  /\ i' = i + 1
  /\ UNCHANGED status

\* "Constraint {} has dependency {} with index bigger than or equal to itself"
Throw(r) ==
  /\ status = "running"
  /\ i \in Index
  /\ CitesLater(r, i)
  /\ status' = "threw"
  /\ reasons' = [reasons EXCEPT ![i] = r]
  /\ UNCHANGED <<i, dependencies>>

Finish ==
  /\ status = "running"
  /\ i \notin Index
  /\ status' = "done"
  /\ UNCHANGED <<i, reasons, dependencies>>

Terminating == status # "running" /\ UNCHANGED vars

Next == (\E r \in Reasons : Calculate(r) \/ Throw(r)) \/ Finish \/ Terminating

Spec == Init /\ [][Next]_vars

(***************************************************************************)
(* The predicates on indexes, as the solver evaluates them.                *)
(***************************************************************************)
Calculated == {k \in Derived : k < i}

Aij(k, j) == j \in dependencies[k]

Asm(j) == reasons[j].type = "asm"

\* print_ASM: no later assumption, then a case for each reason.
print_ASM(k) ==
  LET r == reasons[k]
      earlier == {j \in Derived : j < k /\ Asm(j)}
  IN /\ \A j \in Derived : j > k /\ Asm(j) => ~Aij(k, j)
     /\ CASE r.type = "asm" -> Aij(k, k) /\ \A j \in earlier : ~Aij(k, j)
          [] r.type \in {"lin", "rnd"} ->
               \A j \in earlier :
                 Aij(k, j) <=> \E n \in Cited(r) : j <= n /\ n < k /\ Aij(n, j)
          [] r.type = "uns" ->
               \A j \in earlier :
                 Aij(k, j) <=> \/ Aij(get_i1(r), j) /\ j # get_l1(r)
                               \/ Aij(get_i2(r), j) /\ j # get_l2(r)
          [] OTHER -> \A j \in earlier : ~Aij(k, j)

\* print_PRV: every cited index is earlier.
print_PRV(k) == \A n \in Cited(reasons[k]) : n < k /\ n >= 0

(***************************************************************************)
(* Properties.                                                             *)
(***************************************************************************)
TypeOK ==
  /\ i \in NumProblem..(NumProblem + NumDerived)
  /\ reasons \in [Index -> Reasons \union {NoReason}]
  /\ dependencies \in [Index -> SUBSET Derived]
  /\ status \in {"running", "done", "threw"}

\* The sets the loop builds by insert and erase satisfy the formula print_ASM
\* gives the solver for them, for every derivation of a certificate that does
\* not throw: a refused certificate is never refused because of print_ASM.
AsmAgrees == \A k \in Calculated : print_ASM(k) /\ print_PRV(k)

\* What is true at a point is a set p of constraints.  A derivation is locally
\* sound at p if the rest of its formula (DOM, DIS, RND) is what it should be.
LocallySound(k, p) ==
  LET r == reasons[k]
  IN CASE r.type \in {"lin", "rnd"} -> Cited(r) \subseteq p => k \in p
       [] r.type = "uns" -> /\ get_l1(r) \in p \/ get_l2(r) \in p
                            /\ get_i1(r) \in p => k \in p
                            /\ get_i2(r) \in p => k \in p
       [] r.type = "sol" -> k \in p
       [] OTHER -> TRUE

\* A point of the problem at which the assumptions in A_k hold satisfies
\* constraint k.  The final check of print_der, that the last A_k is empty, is
\* about the problem itself because of this: no erase loses an assumption that
\* is still needed.
AssumptionsSound ==
  \A k \in Calculated : \A p \in SUBSET Index :
    /\ Problem \subseteq p
    /\ \A q \in Calculated : q <= k => LocallySound(q, p)
    /\ dependencies[k] \subseteq p
    => k \in p

\* What is in A_k are assumptions, and none made after k.
OnlyAssumptions ==
  \A k \in Calculated : \A j \in dependencies[k] : j <= k /\ Asm(j)
=============================================================================
