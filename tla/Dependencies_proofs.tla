--------------------------- MODULE Dependencies_proofs ---------------------------
(***************************************************************************)
(* Theorems about Dependencies for certificates of every size, with every  *)
(* set of reasons.                                                         *)
(***************************************************************************)
EXTENDS Dependencies, TLAPS

\* What the loop has done for the derivations it has passed, and not yet done
\* for the others.
LoopInv ==
  /\ \A k \in Calculated : reasons[k] \in Reasons /\ ~CitesLater(reasons[k], k)
  /\ \A k \in Index \ Calculated : dependencies[k] = {}

IInv == /\ TypeOK
        /\ LoopInv
        /\ OnlyAssumptions
        /\ AsmAgrees
        /\ AssumptionsSound

(***************************************************************************)
(* Facts about one iteration.                                              *)
(***************************************************************************)

\* A reason that does not throw cites earlier constraints only.
LEMMA CitedEarlier ==
  ASSUME TypeOK, i \in Index, NEW r \in Reasons, r.type \in {"lin", "rnd", "uns"},
         ~CitesLater(r, i), NEW n \in Cited(r)
  PROVE  n \in Index /\ n < i /\ n >= 0 /\ (n \in Problem \/ n \in Calculated)
<1>1. n \in Nat
  BY ReasonAssumption DEF Cited
<1>2. n < i
  BY <1>1, SizeAssumption DEF CitesLater, Index
<1>. QED
  BY <1>1, <1>2, SizeAssumption DEF Index, Problem, Derived, Calculated

LEMMA UnsCited ==
  ASSUME NEW r \in Reasons, r.type = "uns"
  PROVE  /\ get_i1(r) \in Cited(r) /\ get_l1(r) \in Cited(r)
         /\ get_i2(r) \in Cited(r) /\ get_l2(r) \in Cited(r)
         /\ Len(r.indexes) = 4 /\ r.indexes \in Seq(Nat)
BY ReasonAssumption DEF get_i1, get_l1, get_i2, get_l2, Cited

\* What the loop knows of the assumptions of an earlier constraint.
LEMMA EarlierAssumptions ==
  ASSUME TypeOK, LoopInv, OnlyAssumptions, i \in Index,
         NEW n \in Index, n < i
  PROVE  /\ AssumptionsOf(n) = dependencies[n]
         /\ \A j \in dependencies[n] : j \in Derived /\ j <= n /\ j < i /\ Asm(j)
<1>1. CASE n < NumProblem
  BY <1>1, SizeAssumption DEF LoopInv, AssumptionsOf, Calculated, Derived, Index
<1>2. CASE ~(n < NumProblem)
  <2>1. n \in Calculated
    BY <1>2, SizeAssumption DEF Calculated, Derived, Index
  <2>. QED
    BY <1>2, <2>1, SizeAssumption
    DEF OnlyAssumptions, AssumptionsOf, TypeOK, Derived, Index, Calculated
<1>. QED BY <1>1, <1>2

\* The insertions and the two erasures of a uns, as a set.
LEMMA UnsSet ==
  ASSUME TypeOK, LoopInv, OnlyAssumptions, i \in Index,
         NEW r \in Reasons, r.type = "uns", ~CitesLater(r, i)
  PROVE  UnsDependencies(r) = (dependencies[get_i1(r)] \ {get_l1(r)})
                              \union (dependencies[get_i2(r)] \ {get_l2(r)})
<1>1. /\ get_i1(r) \in Index /\ get_i1(r) < i
      /\ get_i2(r) \in Index /\ get_i2(r) < i
  BY UnsCited, CitedEarlier
<1>2. /\ AssumptionsOf(get_i1(r)) = dependencies[get_i1(r)]
      /\ AssumptionsOf(get_i2(r)) = dependencies[get_i2(r)]
  BY <1>1, EarlierAssumptions
<1>3. get_i2(r) < NumProblem => AssumptionsOf(get_i2(r)) = {}
  BY DEF AssumptionsOf
<1>. QED
  BY <1>1, <1>2, <1>3, SizeAssumption DEF UnsDependencies, Index

\* The assumptions calculated for i are assumptions, made no later than i.
LEMMA NewAssumptions ==
  ASSUME TypeOK, LoopInv, OnlyAssumptions, i \in Derived,
         NEW r \in Reasons, ~CitesLater(r, i)
  PROVE  \A j \in DependenciesOf(r, i) :
            /\ j \in Derived
            /\ (j = i /\ r.type = "asm") \/ (j < i /\ Asm(j) /\ r.type # "asm")
<1> USE DEF DependenciesOf
<1>0. i \in Index
  BY DEF Derived
<1>1. CASE r.type = "asm"
  BY <1>1
<1>2. CASE r.type \in {"lin", "rnd"}
  <2>1. \A n \in Cited(r) : \A j \in AssumptionsOf(n) : j \in Derived /\ j < i /\ Asm(j)
    <3> TAKE n \in Cited(r)
    <3>1. n \in Index /\ n < i
      BY <1>0, <1>2, CitedEarlier
    <3>. QED BY <1>0, <3>1, EarlierAssumptions
  <2>. QED BY <1>2, <2>1
<1>3. CASE r.type = "uns"
  <2>1. /\ get_i1(r) \in Index /\ get_i1(r) < i
        /\ get_i2(r) \in Index /\ get_i2(r) < i
    BY <1>0, <1>3, UnsCited, CitedEarlier
  <2>2. \A j \in dependencies[get_i1(r)] \union dependencies[get_i2(r)] :
           j \in Derived /\ j < i /\ Asm(j)
    BY <1>0, <2>1, EarlierAssumptions
  <2>. QED BY <1>0, <1>3, <2>2, UnsSet
<1>4. CASE r.type = "sol"
  BY <1>4
<1>. QED BY <1>1, <1>2, <1>3, <1>4, ReasonAssumption

(***************************************************************************)
(* One iteration of the loop.                                              *)
(***************************************************************************)

\* What changes: only what belongs to derivation i.
LEMMA CalculateFrame ==
  ASSUME TypeOK, NEW r \in Reasons, Calculate(r)
  PROVE  /\ i \in Derived /\ i' = i + 1 /\ i \in Index /\ i \in Nat
         /\ ~CitesLater(r, i) /\ UNCHANGED status
         /\ reasons'[i] = r /\ dependencies'[i] = DependenciesOf(r, i)
         /\ \A k \in Index \ {i} : reasons'[k] = reasons[k] /\ dependencies'[k] = dependencies[k]
         /\ Calculated' = Calculated \union {i} /\ i \notin Calculated
<1>1. i \in Derived /\ i \in Index /\ i \in Nat /\ i' = i + 1
  BY SizeAssumption DEF Calculate, TypeOK, Derived, Index
<1>2. Calculated' = Calculated \union {i} /\ i \notin Calculated
  BY <1>1, SizeAssumption DEF Calculated, Derived, Index
<1>. QED
  BY <1>1, <1>2 DEF Calculate, TypeOK

LEMMA CalculateType ==
  ASSUME TypeOK, LoopInv, OnlyAssumptions, NEW r \in Reasons, Calculate(r)
  PROVE  TypeOK'
<1>1. i' \in NumProblem..(NumProblem + NumDerived)
  BY SizeAssumption DEF Calculate, TypeOK, Index
<1>2. reasons' \in [Index -> Reasons \union {NoReason}]
  BY DEF Calculate, TypeOK
<1>3. DependenciesOf(r, i) \in SUBSET Derived
  BY CalculateFrame, NewAssumptions
<1>4. dependencies' \in [Index -> SUBSET Derived]
  BY <1>3 DEF Calculate, TypeOK
<1>. QED BY <1>1, <1>2, <1>4 DEF Calculate, TypeOK

LEMMA CalculateLoop ==
  ASSUME TypeOK, LoopInv, NEW r \in Reasons, Calculate(r)
  PROVE  LoopInv'
<1>1. \A k \in Calculated' : reasons'[k] \in Reasons /\ ~CitesLater(reasons'[k], k)
  BY CalculateFrame DEF LoopInv, Calculated, Derived
<1>2. \A k \in Index \ Calculated' : dependencies'[k] = {}
  BY CalculateFrame DEF LoopInv
<1>. QED BY <1>1, <1>2 DEF LoopInv, CitesLater, Cited

LEMMA CalculateOnly ==
  ASSUME TypeOK, LoopInv, OnlyAssumptions, NEW r \in Reasons, Calculate(r)
  PROVE  OnlyAssumptions'
<1> SUFFICES ASSUME NEW k \in Calculated', NEW j \in dependencies'[k]
             PROVE  j <= k /\ reasons'[j].type = "asm"
  BY DEF OnlyAssumptions, Asm
<1>1. CASE k = i
  <2>1. j \in Derived /\ ((j = i /\ r.type = "asm") \/ (j < i /\ Asm(j)))
    BY <1>1, CalculateFrame, NewAssumptions
  <2>2. CASE j = i
    <3>1. i \in Nat /\ reasons'[i] = r
      BY CalculateFrame
    <3>2. r.type = "asm"
      BY <2>1, <2>2, <3>1
    <3>. QED BY <1>1, <2>2, <3>1, <3>2
  <2>3. CASE j # i
    <3>1. i \in Nat /\ j \in Index /\ j \in Nat
      BY <2>1, SizeAssumption, CalculateFrame DEF Derived, Index
    <3>2. j < i /\ Asm(j)
      BY <2>1, <2>3
    <3>3. reasons'[j] = reasons[j]
      BY <2>3, <3>1, CalculateFrame
    <3>. QED BY <1>1, <3>1, <3>2, <3>3 DEF Asm
  <2>. QED BY <2>2, <2>3
<1>2. CASE k # i
  <2>1. k \in Calculated /\ j \in dependencies[k] /\ k < i
    BY <1>2, CalculateFrame DEF Calculated, Derived
  <2>2. j <= k /\ Asm(j) /\ j \in Derived
    BY <2>1 DEF OnlyAssumptions, TypeOK, Calculated, Derived
  <2>3. j # i /\ j \in Index
    BY <2>1, <2>2, SizeAssumption, CalculateFrame DEF Derived, Calculated, Index
  <2>. QED BY <2>2, <2>3, CalculateFrame DEF Asm
<1>. QED BY <1>1, <1>2

\* At an earlier constraint the step changes nothing that print_ASM, print_PRV
\* or LocallySound reads.
LEMMA EarlierFrame ==
  ASSUME TypeOK, NEW r \in Reasons, Calculate(r), NEW k \in Calculated
  PROVE  /\ k \in Derived /\ k \in Index /\ k \in Nat /\ k < i /\ i \in Nat
         /\ reasons'[k] = reasons[k] /\ dependencies'[k] = dependencies[k]
         /\ \A n \in Nat : n < i => /\ n \in Index
                                   /\ dependencies'[n] = dependencies[n]
                                   /\ reasons'[n] = reasons[n]
<1>1. k \in Derived /\ k \in Index /\ k \in Nat /\ k < i /\ i \in Index /\ i \in Nat /\ k # i
  BY CalculateFrame, SizeAssumption DEF Calculated, Derived, Index
<1>2. ASSUME NEW n \in Nat, n < i
      PROVE  n \in Index /\ dependencies'[n] = dependencies[n] /\ reasons'[n] = reasons[n]
  <2>1. n \in Index /\ n # i
    BY <1>1, <1>2, SizeAssumption DEF Index
  <2>. QED BY <2>1, CalculateFrame
<1>. QED BY <1>1, <1>2

\* The formula of the derivation just calculated.
LEMMA NewAsmAgrees ==
  ASSUME TypeOK, LoopInv, OnlyAssumptions, NEW r \in Reasons, Calculate(r),
         NEW k, k = i
  PROVE  print_ASM(k)'
<1>1. /\ i \in Derived /\ i \in Index /\ i \in Nat /\ ~CitesLater(r, i)
      /\ reasons'[i] = r /\ dependencies'[i] = DependenciesOf(r, i)
  BY CalculateFrame
<1>2. \A j \in DependenciesOf(r, i) :
         j \in Derived /\ ((j = i /\ r.type = "asm") \/ (j < i /\ Asm(j) /\ r.type # "asm"))
  BY <1>1, NewAssumptions
<1>3. ASSUME NEW n \in Index, n < i
      PROVE  /\ AssumptionsOf(n) = dependencies[n] /\ dependencies'[n] = dependencies[n]
             /\ \A j \in dependencies[n] : j <= n
  BY <1>1, <1>3, EarlierAssumptions, CalculateFrame
<1> USE <1>1 DEF DependenciesOf
<1>4. CASE r.type = "asm"
  BY <1>2, <1>4 DEF print_ASM, Aij, Derived, Index
<1>5. CASE r.type \in {"lin", "rnd"}
  <2>1. ASSUME NEW n \in Cited(r) PROVE n \in Index /\ n < i
    BY <1>5, CitedEarlier
  <2>2. ASSUME NEW j \in Derived
        PROVE  j \in DependenciesOf(r, i) <=>
                 \E n \in Cited(r) : j <= n /\ n < i /\ j \in dependencies'[n]
    BY <1>3, <1>5, <2>1
  <2>. QED
    BY <1>2, <1>5, <2>2 DEF print_ASM, Aij, Derived, Index
<1>6. CASE r.type = "uns"
  <2>1. /\ get_i1(r) \in Index /\ get_i1(r) < i
        /\ get_i2(r) \in Index /\ get_i2(r) < i
    BY <1>6, UnsCited, CitedEarlier
  <2>2. ASSUME NEW j
        PROVE  j \in DependenciesOf(r, i) <=>
                 \/ j \in dependencies'[get_i1(r)] /\ j # get_l1(r)
                 \/ j \in dependencies'[get_i2(r)] /\ j # get_l2(r)
    BY <1>3, <1>6, <2>1, UnsSet
  <2>. QED
    BY <1>2, <1>6, <2>2 DEF print_ASM, Aij, Derived, Index, get_i1, get_i2, get_l1, get_l2
<1>7. CASE r.type = "sol"
  BY <1>7 DEF print_ASM, Aij
<1>. QED BY <1>4, <1>5, <1>6, <1>7, ReasonAssumption

LEMMA CalculateAsm ==
  ASSUME IInv, NEW r \in Reasons, Calculate(r)
  PROVE  AsmAgrees'
<1> USE DEF IInv
<1> SUFFICES ASSUME NEW k \in Calculated'
             PROVE  (print_ASM(k) /\ print_PRV(k))'
  BY DEF AsmAgrees
<1>1. CASE k = i
  <2>1. print_ASM(k)'
    BY <1>1, NewAsmAgrees
  <2>2. reasons'[i] = r /\ i \in Nat
    BY CalculateFrame
  <2>3. \A n \in Cited(r) : n \in Nat
    BY ReasonAssumption DEF Cited
  <2>4. \A n \in Cited(r) : n < i /\ n >= 0
    <3>1. CASE r.type \in {"lin", "rnd", "uns"}
      <4>1. i \in Index /\ ~CitesLater(r, i)
        BY CalculateFrame
      <4>. QED BY <3>1, <4>1, CitedEarlier
    <3>2. CASE r.type \in {"asm", "sol"}
      BY <3>2, ReasonAssumption DEF Cited
    <3>. QED BY <3>1, <3>2, ReasonAssumption
  <2>. QED BY <1>1, <2>1, <2>2, <2>4 DEF print_PRV
<1>2. CASE k # i
  <2>1. k \in Calculated
    BY <1>2, CalculateFrame
  <2>2. /\ k \in Derived /\ k \in Index /\ k \in Nat /\ k < i /\ i \in Nat
        /\ reasons'[k] = reasons[k] /\ dependencies'[k] = dependencies[k]
        /\ \A n \in Nat : n < i => dependencies'[n] = dependencies[n] /\ reasons'[n] = reasons[n]
    BY <2>1, EarlierFrame
  <2>3. print_ASM(k) /\ print_PRV(k) /\ reasons[k] \in Reasons
    BY <2>1 DEF AsmAgrees, LoopInv
  <2>4. \A j \in dependencies[k] : j \in Nat /\ j <= k
    BY <2>1, <2>2, SizeAssumption DEF OnlyAssumptions, TypeOK, Derived, Index
  <2>5. print_PRV(k)'
    BY <2>2, <2>3 DEF print_PRV
  <2>6. \A j \in Derived : j \in Nat
    BY SizeAssumption DEF Derived, Index
  <2>7. \A j \in Derived : j < k => (Asm(j)' <=> Asm(j))
    BY <2>2, <2>6 DEF Asm
  <2>8. \A n \in Cited(reasons[k]) : n \in Nat /\ n < i /\ dependencies'[n] = dependencies[n]
    <3>1. \A n \in Cited(reasons[k]) : n \in Nat
      BY <2>3, ReasonAssumption DEF Cited
    <3>. QED BY <2>2, <2>3, <3>1 DEF print_PRV
  <2>9. reasons[k].type = "uns" =>
           /\ get_i1(reasons[k]) \in Cited(reasons[k])
           /\ get_i2(reasons[k]) \in Cited(reasons[k])
    BY <2>3, UnsCited
  <2>10. print_ASM(k)'
    <3>1. \A j \in Derived : j > k /\ Asm(j)' => j \notin dependencies'[k]
      BY <2>2, <2>4, <2>6
    <3>2. {j \in Derived : j < k /\ Asm(j)'} = {j \in Derived : j < k /\ Asm(j)}
      BY <2>7
    <3>. QED
      BY <2>2, <2>3, <2>8, <2>9, <3>1, <3>2
      DEF print_ASM, Aij, get_i1, get_i2, get_l1, get_l2
  <2>. QED BY <2>5, <2>10
<1>. QED BY <1>1, <1>2

\* The heart of the argument: what is derived at i follows from the assumptions
\* calculated for i.
LEMMA NewSound ==
  ASSUME IInv, NEW r \in Reasons, Calculate(r), NEW p \in SUBSET Index,
         Problem \subseteq p, DependenciesOf(r, i) \subseteq p,
         \A q \in Calculated : LocallySound(q, p),
         NEW k, k = i, LocallySound(k, p)'
  PROVE  i \in p
<1> USE DEF IInv
<1>1. i \in Derived /\ i \in Index /\ i \in Nat /\ ~CitesLater(r, i) /\ reasons'[i] = r
  BY CalculateFrame
\* An earlier constraint whose assumptions hold at p holds at p.
<1>2. ASSUME NEW n \in Index, n < i, dependencies[n] \subseteq p PROVE n \in p
  <2>1. CASE n \in Problem
    BY <2>1
  <2>2. CASE n \in Calculated
    BY <1>2, <2>2 DEF AssumptionsSound
  <2>. QED
    BY <1>1, <1>2, <2>1, <2>2, SizeAssumption DEF Problem, Calculated, Derived, Index
<1>3. CASE r.type = "asm"
  BY <1>3 DEF DependenciesOf
<1>4. CASE r.type \in {"lin", "rnd"}
  <2>1. ASSUME NEW n \in Cited(r) PROVE n \in p
    <3>1. n \in Index /\ n < i
      BY <1>1, <1>4, CitedEarlier
    <3>2. AssumptionsOf(n) = dependencies[n]
      BY <1>1, <3>1, EarlierAssumptions
    <3>3. dependencies[n] \subseteq p
      BY <1>4, <3>2 DEF DependenciesOf
    <3>. QED BY <1>2, <3>1, <3>3
  <2>. QED BY <1>1, <1>4, <2>1 DEF LocallySound, Cited
<1>5. CASE r.type = "uns"
  <2>1. /\ get_i1(r) \in Index /\ get_i1(r) < i
        /\ get_i2(r) \in Index /\ get_i2(r) < i
    BY <1>1, <1>5, UnsCited, CitedEarlier
  <2>2. /\ dependencies[get_i1(r)] \ {get_l1(r)} \subseteq p
        /\ dependencies[get_i2(r)] \ {get_l2(r)} \subseteq p
    BY <1>1, <1>5, UnsSet DEF DependenciesOf
  <2>3. /\ get_l1(r) \in p \/ get_l2(r) \in p
        /\ get_i1(r) \in p => i \in p
        /\ get_i2(r) \in p => i \in p
    BY <1>1, <1>5 DEF LocallySound, get_i1, get_i2, get_l1, get_l2
  <2>4. CASE get_l1(r) \in p
    BY <1>2, <2>1, <2>2, <2>3, <2>4
  <2>5. CASE get_l2(r) \in p
    BY <1>2, <2>1, <2>2, <2>3, <2>5
  <2>. QED BY <2>3, <2>4, <2>5
<1>6. CASE r.type = "sol"
  BY <1>1, <1>6 DEF LocallySound
<1>. QED BY <1>3, <1>4, <1>5, <1>6, ReasonAssumption

LEMMA CalculateSound ==
  ASSUME IInv, NEW r \in Reasons, Calculate(r)
  PROVE  AssumptionsSound'
<1> USE DEF IInv
<1> SUFFICES ASSUME NEW k \in Calculated', NEW p \in SUBSET Index,
                    Problem \subseteq p,
                    \A q \in Calculated' : q <= k => LocallySound(q, p)',
                    dependencies'[k] \subseteq p
             PROVE  k \in p
  BY DEF AssumptionsSound
<1>1. \A q \in Calculated : q \in Calculated' /\ q \in Nat /\ q < i /\ i \in Nat
                            /\ (LocallySound(q, p)' <=> LocallySound(q, p))
  <2> TAKE q \in Calculated
  <2>1. reasons'[q] = reasons[q] /\ q \in Nat /\ q < i /\ i \in Nat
    BY EarlierFrame
  <2>2. q \in Calculated'
    BY CalculateFrame
  <2>. QED BY <2>1, <2>2 DEF LocallySound, Cited, get_i1, get_i2, get_l1, get_l2
<1>2. CASE k = i
  <2>1. \A q \in Calculated : LocallySound(q, p)
    BY <1>1, <1>2
  <2>2. DependenciesOf(r, i) \subseteq p
    BY <1>2, CalculateFrame
  <2>3. i \in Nat
    BY CalculateFrame
  <2>4. LocallySound(k, p)'
    <3>1. k \in Calculated' /\ k \in Nat
      BY <1>2, CalculateFrame
    <3>. QED BY <3>1
  <2>. QED BY <1>2, <2>1, <2>2, <2>4, NewSound
<1>3. CASE k # i
  <2>1. k \in Calculated
    BY <1>3, CalculateFrame
  <2>2. dependencies[k] \subseteq p
    BY <2>1, EarlierFrame
  <2>3. \A q \in Calculated : q <= k => LocallySound(q, p)
    BY <1>1
  <2>. QED BY <2>1, <2>2, <2>3 DEF AssumptionsSound
<1>. QED BY <1>2, <1>3

(***************************************************************************)
(* The inductive invariant.                                                *)
(***************************************************************************)
LEMMA ThrowPreserves ==
  ASSUME IInv, NEW r \in Reasons, Throw(r)
  PROVE  IInv'
<1> USE DEF IInv
<1>1. /\ i \in Index /\ i \in Nat /\ i' = i /\ dependencies' = dependencies
      /\ i \notin Calculated /\ Calculated' = Calculated
      /\ \A k \in Index \ {i} : reasons'[k] = reasons[k]
  BY SizeAssumption DEF Throw, TypeOK, Calculated, Derived, Index
<1>2. TypeOK'
  BY DEF Throw, TypeOK
<1>3. \A k \in Calculated : k \in Index /\ k \in Nat /\ k < i /\ reasons'[k] = reasons[k]
  BY <1>1, SizeAssumption DEF Calculated, Derived, Index
<1>4. LoopInv'
  BY <1>1, <1>3 DEF LoopInv, CitesLater, Cited
<1>5. \A k \in Calculated : \A j \in dependencies[k] :
         j \in Derived /\ j \in Nat /\ j <= k /\ Asm(j) /\ (Asm(j)' <=> Asm(j))
  <2> TAKE k \in Calculated
  <2> TAKE j \in dependencies[k]
  <2>1. j \in Derived /\ j <= k /\ Asm(j)
    BY <1>3 DEF OnlyAssumptions, TypeOK
  <2>2. j \in Nat /\ j \in Index /\ j # i
    BY <1>1, <1>3, <2>1, SizeAssumption DEF Derived, Index
  <2>. QED BY <1>1, <2>1, <2>2 DEF Asm
<1>6. OnlyAssumptions'
  BY <1>1, <1>5 DEF OnlyAssumptions
<1>7. AsmAgrees'
  <2> SUFFICES ASSUME NEW k \in Calculated
               PROVE  (print_ASM(k) /\ print_PRV(k))'
    BY <1>1 DEF AsmAgrees
  <2>1. print_ASM(k) /\ print_PRV(k) /\ reasons'[k] = reasons[k] /\ k \in Nat /\ k < i
    BY <1>3 DEF AsmAgrees
  <2>2. \A j \in Derived : j \in Nat /\ (j < k => (Asm(j)' <=> Asm(j)))
    BY <1>1, <2>1, SizeAssumption DEF Asm, Derived, Index
  <2>3. \A j \in Derived : j > k /\ Asm(j)' => j \notin dependencies[k]
    BY <1>5, <2>1, <2>2
  <2>4. {j \in Derived : j < k /\ Asm(j)'} = {j \in Derived : j < k /\ Asm(j)}
    BY <2>2
  <2>5. print_ASM(k)'
    BY <1>1, <2>1, <2>3, <2>4 DEF print_ASM, Aij, get_i1, get_i2, get_l1, get_l2
  <2>. QED BY <2>1, <2>5 DEF print_PRV
<1>8. AssumptionsSound'
  BY <1>1, <1>3 DEF AssumptionsSound, LocallySound, Cited, get_i1, get_i2, get_l1, get_l2
<1>. QED BY <1>2, <1>4, <1>6, <1>7, <1>8

\* The conjunction of the type invariant, of what the loop has done so far and
\* of the three properties is preserved by every iteration.
THEOREM InductiveInvariant == Spec => []IInv
<1>1. Init => IInv
  <2> SUFFICES ASSUME Init PROVE IInv
    OBVIOUS
  <2>1. Calculated = {}
    BY SizeAssumption DEF Init, Calculated, Derived, Index
  <2>2. TypeOK
    BY SizeAssumption DEF Init, TypeOK
  <2>3. LoopInv
    BY <2>1 DEF Init, LoopInv
  <2>. QED
    BY <2>1, <2>2, <2>3 DEF IInv, OnlyAssumptions, AsmAgrees, AssumptionsSound
<1>2. IInv /\ [Next]_vars => IInv'
  <2> SUFFICES ASSUME IInv, [Next]_vars PROVE IInv'
    OBVIOUS
  <2>1. ASSUME NEW r \in Reasons, Calculate(r) PROVE IInv'
    BY <2>1, CalculateType, CalculateLoop, CalculateOnly, CalculateAsm, CalculateSound DEF IInv
  <2>2. ASSUME NEW r \in Reasons, Throw(r) PROVE IInv'
    BY <2>2, ThrowPreserves
  <2>3. ASSUME UNCHANGED <<i, reasons, dependencies>>,
               status' \in {"running", "done", "threw"}
        PROVE  IInv'
    <3>1. Calculated' = Calculated
      BY <2>3 DEF Calculated
    <3>2. TypeOK' /\ LoopInv' /\ OnlyAssumptions'
      BY <2>3, <3>1 DEF IInv, TypeOK, LoopInv, OnlyAssumptions, Asm
    <3>3. ASSUME NEW k \in Calculated PROVE print_ASM(k)' /\ print_PRV(k)'
      BY <2>3, <3>3 DEF IInv, AsmAgrees, print_ASM, print_PRV, Aij, Asm
    <3>4. ASSUME NEW k \in Calculated, NEW p PROVE LocallySound(k, p)' <=> LocallySound(k, p)
      BY <2>3 DEF LocallySound
    <3>5. AsmAgrees'
      BY <3>1, <3>3 DEF AsmAgrees
    <3>6. AssumptionsSound'
      BY <2>3, <3>1, <3>4 DEF IInv, AssumptionsSound
    <3>. QED BY <3>2, <3>5, <3>6 DEF IInv
  <2>4. CASE Finish
    BY <2>3, <2>4 DEF Finish
  <2>5. CASE UNCHANGED vars
    BY <2>3, <2>5 DEF vars, IInv, TypeOK
  <2>. QED BY <2>1, <2>2, <2>4, <2>5 DEF Next, Terminating
<1>. QED BY <1>1, <1>2, PTL DEF Spec

\* A_k is always a set of derivations, and the loop stays within the
\* certificate.
THEOREM TypeCorrect == Spec => []TypeOK
BY InductiveInvariant, PTL DEF IInv

\* The sets of calculate_dependencies satisfy what print_ASM and print_PRV ask.
THEOREM AsmIsCalculated == Spec => []AsmAgrees
BY InductiveInvariant, PTL DEF IInv

\* A derived constraint holds wherever the problem and its assumptions hold.
THEOREM AssumptionsAreSound == Spec => []AssumptionsSound
BY InductiveInvariant, PTL DEF IInv

\* A_k holds assumptions only, none of them later than k.
THEOREM AssumptionsOnly == Spec => []OnlyAssumptions
BY InductiveInvariant, PTL DEF IInv
=============================================================================
