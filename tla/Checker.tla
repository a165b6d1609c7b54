--------------------------------- MODULE Checker ---------------------------------
(***************************************************************************)
(* The checker from the certificate to the verdict: the threads of module  *)
(* Generation write and dispatch files, the solvers answer them, and       *)
(* main() prints what the evaluation concludes.  The evaluation is its     *)
(* contract EvaluationResult, which RemoteExecutionManager implements; its *)
(* files are those that have been dispatched when the threads are joined,  *)
(* for no file is launched before that.                                    *)
(*                                                                         *)
(* A part of a certificate is a derived constraint or one of the two other *)
(* sections.  Which parts have a formula that is false is the business of  *)
(* module Certificate, and any choice here.                                *)
(***************************************************************************)
EXTENDS Generation

CONSTANT MaxFalseParts      \* bound: how many parts are false

VARIABLES false_parts,      \* the parts whose formula is false
          answer, verdict, expected     \* those of EvaluationResult

checkerVars == <<false_parts, answer, verdict, expected>>
allVars == <<vars, checkerVars>>

\* The evaluation of these files.
Evaluation(files) == INSTANCE EvaluationResult WITH Files <- files

\* The parts whose formulas are in a file, and those of the certificate.
PartsOf(file) ==
  IF file.kind = "DER" THEN {<<"DER", k>> : k \in file.constraints} ELSE {<<file.kind, 0>>}

Parts == PartsOf(File("DER", DerivedConstraint)) \union UNION {PartsOf(File(x, {})) : x \in Section}

CheckerInit ==
  /\ Init
  /\ false_parts \in {p \in SUBSET Parts : Cardinality(p) <= MaxFalseParts}
  /\ answer = [f \in {} |-> "open"]
  /\ verdict = "none"
  /\ expected \in BOOLEAN

\* The threads run, the main thread among them, until it joins the others.
Generate == /\ \/ print_sol \/ StartCore \/ StartSolcheck
               \/ \E x \in Section : WriteSection(x)
               \/ \E c \in Cores : CoreStep(c)
            /\ UNCHANGED checkerVars

\* print_formula returns and get_evaluation_result begins.
Evaluate == /\ Join
            /\ answer' = [f \in BagToSet(delayed) |-> "open"]
            /\ UNCHANGED <<false_parts, verdict, expected>>

\* A solver says "sat" of a file only if all formulas in it are true.  It may be
\* killed or fail whatever the file says, which is no "sat" either.  Nobody hears
\* what is answered after the verdict.
Answer(f) == /\ verdict = "none"
             /\ \E files \in {DOMAIN answer} : Evaluation(files)!Give(f)
             /\ answer'[f] = "sat" => PartsOf(f) \intersect false_parts = {}
             /\ UNCHANGED <<vars, false_parts>>

\* main() prints OK or ERR.
Conclude == /\ pc = "joined"
            /\ \E files \in {DOMAIN answer} :
                 Evaluation(files)!ConcludeSat \/ Evaluation(files)!ConcludeNotSat
            /\ UNCHANGED <<vars, false_parts>>

Stopped == /\ verdict # "none" \/ pc = "terminated"
           /\ UNCHANGED allVars

CheckerNext == \/ Generate \/ Evaluate \/ Conclude \/ Stopped
               \/ \E f \in DOMAIN answer : Answer(f)

CheckerSpec == CheckerInit /\ [][CheckerNext]_allVars

\* The threads run, and so do the solvers and the main thread behind the join.
CheckerFairSpec ==
  /\ CheckerSpec
  /\ ThreadsRun
  /\ WF_allVars(Conclude)
  /\ WF_allVars(\E f \in DOMAIN answer : Answer(f))

(***************************************************************************)
(* Properties.                                                             *)
(***************************************************************************)

\* The verdict the program is for: who expects "sat" is told OK only if every
\* derivation, the solutions and the last check are true, whatever the block size
\* and the number of cores, and although the checks are spread over files.
OkMeansTrue == verdict = "OK" /\ expected => false_parts = {}

\* A verdict comes: no file that main() waits for is missing.
VerdictComes == <>(verdict # "none")
=============================================================================
