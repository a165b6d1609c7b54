----------------------------- MODULE Checker_proofs -----------------------------
(***************************************************************************)
(* The checker as a whole: its threads behave as module Generation says,   *)
(* and who expects "sat" and is told OK has a certificate all of whose     *)
(* parts are true.                                                         *)
(***************************************************************************)
EXTENDS Checker, Generation_proofs

\* The answers are about the files that were dispatched when the threads were
\* joined; a file that is "sat" has no part that is false.
AnswersInv ==
  /\ false_parts \subseteq Parts
  /\ IF pc = "joined" THEN DOMAIN answer = BagToSet(delayed)
                      ELSE DOMAIN answer = {} /\ verdict = "none"
  /\ \A f \in DOMAIN answer : answer[f] = "sat" => PartsOf(f) \intersect false_parts = {}
  /\ verdict = "OK" /\ expected => \A f \in DOMAIN answer : answer[f] = "sat"

\* A step of the checker is one of the threads of print_formula, or none.
LEMMA StepOfGeneration == [CheckerNext]_allVars => [Next]_vars
<1> SUFFICES ASSUME [CheckerNext]_allVars PROVE [Next]_vars
  OBVIOUS
<1>1. CASE Generate
  BY <1>1 DEF Generate, Next, MainStep
<1>2. CASE Evaluate
  BY <1>2 DEF Evaluate, Next, MainStep
<1>3. ASSUME NEW f \in DOMAIN answer, Answer(f) PROVE [Next]_vars
  BY <1>3 DEF Answer
<1>4. CASE Conclude
  BY <1>4 DEF Conclude
<1>5. CASE Stopped \/ UNCHANGED allVars
  BY <1>5 DEF Stopped, allVars
<1> QED
  BY <1>1, <1>2, <1>3, <1>4, <1>5 DEF CheckerNext

\* The whole checker, with its solvers and the evaluation behind the join, is an
\* execution of Certificate::print_formula.
THEOREM CheckerImplementsGeneration == CheckerSpec => Spec
<1>1. CheckerInit => Init
  BY DEF CheckerInit
<1> QED
  BY <1>1, StepOfGeneration, PTL DEF CheckerSpec, Spec

\* The parts of the certificate stay the same.
LEMMA PartsKept ==
  ASSUME [Next]_vars
  PROVE  Parts' = Parts
BY SizesKept DEF Parts, PartsOf, File, DerivedConstraint, number_total_constraints, Section

LEMMA InitAnswers == CheckerInit => AnswersInv
BY DEF CheckerInit, Init, AnswersInv

\* What a step of the threads does to what the evaluation begins with.
LEMMA GenerateAnswers ==
  ASSUME AnswersInv, Generate
  PROVE  AnswersInv'
<1>1. [Next]_vars /\ UNCHANGED checkerVars
  BY DEF Generate, Next, MainStep
<1>2. pc # "joined" /\ pc' # "joined"
  BY DEF Generate, print_sol, StartCore, StartSolcheck, WriteSection, CoreStep, WriteBlock, Stride,
         LoopEnds, Running
<1> QED
  BY <1>1, <1>2, PartsKept DEF AnswersInv, checkerVars, PartsOf

LEMMA NextAnswers == AnswersInv /\ [CheckerNext]_allVars => AnswersInv'
<1> SUFFICES ASSUME AnswersInv, [CheckerNext]_allVars PROVE AnswersInv'
  OBVIOUS
<1>0. Parts' = Parts
  BY StepOfGeneration, PartsKept
<1>1. CASE Generate
  BY <1>1, GenerateAnswers
<1>2. CASE Evaluate
  <2>1. /\ pc # "joined" /\ pc' = "joined" /\ UNCHANGED <<delayed, false_parts, verdict, expected>>
        /\ answer' = [f \in BagToSet(delayed) |-> "open"]
    BY <1>2 DEF Evaluate, Join
  <2>2. verdict' = "none" /\ DOMAIN answer' = BagToSet(delayed')
    BY <2>1 DEF AnswersInv
  <2> QED
    BY <1>0, <2>1, <2>2 DEF AnswersInv
<1>3. ASSUME NEW f \in DOMAIN answer, Answer(f) PROVE AnswersInv'
  <2>1. /\ verdict = "none" /\ UNCHANGED <<vars, false_parts, verdict, expected>>
        /\ answer'[f] = "sat" => PartsOf(f) \intersect false_parts = {}
        /\ \E a \in {"sat", "notsat"} : answer' = [answer EXCEPT ![f] = a]
    BY <1>3 DEF Answer, Evaluation!Give
  <2>2. DOMAIN answer' = DOMAIN answer /\ \A g \in DOMAIN answer \ {f} : answer'[g] = answer[g]
    BY <2>1
  <2>3. pc' = pc /\ delayed' = delayed
    BY <2>1 DEF vars
  <2>4. \A g \in DOMAIN answer' : answer'[g] = "sat" => PartsOf(g) \intersect false_parts' = {}
    BY <2>1, <2>2 DEF AnswersInv
  <2> QED
    BY <1>0, <2>1, <2>2, <2>3, <2>4 DEF AnswersInv, PartsOf
<1>4. CASE Conclude
  <2>1. /\ pc = "joined" /\ UNCHANGED <<vars, false_parts, answer, expected>>
        /\ \/ \A f \in DOMAIN answer : answer[f] = "sat"
           \/ verdict' = IF expected THEN "ERR" ELSE "OK"
    BY <1>4 DEF Conclude, Evaluation!ConcludeSat, Evaluation!ConcludeNotSat
  <2>2. pc' = pc /\ delayed' = delayed
    BY <2>1 DEF vars
  <2> QED
    BY <1>0, <2>1, <2>2 DEF AnswersInv, PartsOf
<1>5. CASE Stopped \/ UNCHANGED allVars
  BY <1>0, <1>5 DEF Stopped, allVars, vars, checkerVars, AnswersInv, PartsOf
<1> QED
  BY <1>1, <1>2, <1>3, <1>4, <1>5 DEF CheckerNext

\* Every part of the certificate is in a file that is evaluated.
LEMMA EveryPartEvaluated ==
  ASSUME PartitionInv, pc = "joined", NEW p \in Parts
  PROVE  \E f \in BagToSet(delayed) : p \in PartsOf(f)
<1>1. EverythingDispatched
  BY PartitionDispatched
<1>2. CASE \E k \in DerivedConstraint : p = <<"DER", k>>
  <2>1. PICK k \in DerivedConstraint : p = <<"DER", k>>
    BY <1>2
  <2>2. PICK f \in BagToSet(delayed) : k \in f.constraints
    BY <1>1, <2>1 DEF EverythingDispatched, FilesAbout
  <2>3. f \in Dispatched
    BY <2>2 DEF PartitionInv, SetToBag, BagToSet
  <2>4. f.kind = "DER"
    <3>1. PICK d \in Passed : f = Block(d)
      BY <2>2, <2>3 DEF Dispatched, File
    <3> QED
      BY <3>1 DEF Block, File
  <2> QED
    BY <2>1, <2>2, <2>4 DEF PartsOf
<1>3. CASE \E x \in Section : p = <<x, 0>>
  <2>1. PICK x \in Section : p = <<x, 0>>
    BY <1>3
  <2>2. File(x, {}) \in BagToSet(delayed)
    BY <1>1, <2>1 DEF EverythingDispatched, BagIn
  <2>3. p \in PartsOf(File(x, {}))
    BY <2>1 DEF PartsOf, File, Section
  <2> QED
    BY <2>2, <2>3
<1>4. PartsOf(File("DER", DerivedConstraint)) = {<<"DER", k>> : k \in DerivedConstraint}
  BY DEF PartsOf, File
<1>5. \A x \in Section : PartsOf(File(x, {})) = {<<x, 0>>}
  BY DEF PartsOf, File, Section
<1> QED
  BY <1>2, <1>3, <1>4, <1>5 DEF Parts

\* Who expects "sat" is told OK only if every derivation, the solutions and the
\* last check are true: in whatever order the threads of print_formula run and
\* the solvers answer, for every size of block and number of cores.
THEOREM OkIsTrue ==
  ASSUME NothingWraps, FrameIntact
  PROVE  CheckerSpec => []OkMeansTrue
<1>1. CheckerSpec => []PartitionInv
  BY CheckerImplementsGeneration, PartitionInvariant, PTL
<1>2. CheckerSpec => []AnswersInv
  BY InitAnswers, NextAnswers, PTL DEF CheckerSpec
<1>3. PartitionInv /\ AnswersInv => OkMeansTrue
  <2> SUFFICES ASSUME PartitionInv, AnswersInv, verdict = "OK", expected, NEW p \in false_parts
               PROVE  FALSE
    BY DEF OkMeansTrue
  <2>1. pc = "joined" /\ p \in Parts
    BY DEF AnswersInv
  <2>2. PICK f \in BagToSet(delayed) : p \in PartsOf(f)
    BY <2>1, EveryPartEvaluated
  <2> QED
    BY <2>1, <2>2 DEF AnswersInv
<1> QED
  BY <1>1, <1>2, <1>3, PTL
=============================================================================
