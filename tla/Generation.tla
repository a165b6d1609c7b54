------------------------------- MODULE Generation -------------------------------
(***************************************************************************)
(* Certificate::print_formula with its threads: print_sol and print_der of *)
(* src/certificate.cpp, in the build with PARALLEL, and the choice of      *)
(* block_size in src/main.cpp.                                             *)
(*                                                                         *)
(* The main thread starts a thread for the file .SOL, one thread for each  *)
(* core, which writes the blocks core, core + total_cores, ... of derived  *)
(* constraints to a file each, and a thread for .DER-solcheck; then it     *)
(* joins them.  What a file says is the business of module Certificate;    *)
(* here it is the derivations it is about.  A dispatched file is queued by *)
(* the manager (module RemoteExecutionManager, action Dispatch).           *)
(*                                                                         *)
(* Arithmetic is on unsigned longs, modulo Word.  The threads read         *)
(* total_cores, a local of print_der, by reference: once print_der has     *)
(* returned a read may also give what else its frame holds (Garbage).      *)
(* The lambdas they call are in the same frame and hold only this, which   *)
(* is taken to keep its value.                                             *)
(***************************************************************************)
EXTENDS Integers, Bags, FiniteSets

CONSTANTS Word,             \* how many values an unsigned long has
          NumProblem,       \* number_problem_constraints
          DerivedCounts,    \* what number_derived_constraints may be
          BlockArguments,   \* atoi of the fourth argument; 0 if there is none
          MaxFiles,         \* 2 * 192, for the default block size
          FloatExact,       \* below it a float is exact: 2^24
          Concurrency,      \* what hardware_concurrency() may return
          Garbage           \* words found where total_cores was

ASSUME WordAssumption ==
  /\ Word \in Nat \ {0, 1} /\ MaxFiles \in Nat \ {0}
  /\ FloatExact \in Nat /\ FloatExact >= 4
  /\ NumProblem \in Nat
  /\ \A n \in DerivedCounts : n \in Nat /\ 4 * (NumProblem + n) < Word
  /\ BlockArguments \subseteq -Word..(Word - 1)
  /\ Concurrency \subseteq Nat
  /\ Garbage \subseteq 0..(Word - 1)

VARIABLES pc,                          \* where the main thread is
          number_derived_constraints,
          block_size,
          total_cores,
          section,                     \* the threads of .SOL and .DER-solcheck
          core,                        \* the threads of the cores, once started
          derived_index,               \* their loop indexes
          delayed                      \* what has been dispatched: a bag of files

vars == <<pc, number_derived_constraints, block_size, total_cores, section, core,
          derived_index, delayed>>

Section == {"SOL", "solcheck"}

number_total_constraints == NumProblem + number_derived_constraints

Min2(a, b) == IF a <= b THEN a ELSE b
Max2(a, b) == IF a >= b THEN a ELSE b

\* main(): the int that atoi returns becomes an unsigned long ...
ReadBlockSize(argument) == argument % Word

\* ... and no argument, or 0, stands for about MaxFiles files.
BlockSize(size, derived) == IF size = 0 THEN Max2(1, derived \div MaxFiles) ELSE size

\* ceil(static_cast<float>(number_derived_constraints) / block_size).  Where a float is
\* not exact, the two conversions and the division are each off by one part in
\* FloatExact at most.
NumberBlocks(derived, size) ==
  IF derived = 0 \/ (derived < FloatExact /\ size < FloatExact)
    THEN {(derived + size - 1) \div size}
    ELSE {n \in 1..(2 * derived) :
            /\ (n - 1) * size * FloatExact < derived * (FloatExact + 4)
            /\ n * size * FloatExact >= derived * (FloatExact - 4)}

\* The block of derived index d, from this constraint to Finish(d).
Start(d) == (d + NumProblem) % Word

\* Mutants: a block that takes the first derivation of the next one, that leaves
\* its own last one out, or that is never cut short.
FinishOverlapping(d) == Min2((Start(d) + block_size) % Word, number_total_constraints - 1)
FinishShort(d) == (Min2((Start(d) + block_size) % Word, number_total_constraints) - 2) % Word
FinishUncut(d) == (Start(d) + block_size - 1) % Word

Finish(d) == (Min2((Start(d) + block_size) % Word, number_total_constraints) - 1) % Word

DerivedConstraint == NumProblem..(number_total_constraints - 1)

\* A file is the constraints it is about, and its section if these are not all.
File(kind, constraints) == [kind |-> kind, constraints |-> constraints]
Block(d) == File("DER", Start(d)..Finish(d))

\* The cores whose threads have been started.
Cores == DOMAIN core

Init ==
  /\ pc = "print_sol"
  /\ number_derived_constraints \in DerivedCounts
  /\ \E argument \in BlockArguments :
       block_size = BlockSize(ReadBlockSize(argument), number_derived_constraints)
  /\ \E concurrency \in Concurrency, blocks \in NumberBlocks(number_derived_constraints, block_size) :
       total_cores = Min2((2 * concurrency) % Word, blocks)
  /\ section = [x \in Section |-> "none"]
  /\ core = [c \in {} |-> "test"]
  /\ derived_index = [c \in {} |-> 0]
  /\ delayed = EmptyBag

(***************************************************************************)
(* The main thread.                                                        *)
(***************************************************************************)
print_sol ==
  /\ pc = "print_sol"
  /\ pc' = "print_der"
  /\ section' = [section EXCEPT !["SOL"] = "write"]
  /\ UNCHANGED <<number_derived_constraints, block_size, total_cores, core,
                 derived_index, delayed>>

\* Mutant: core <= total_cores.
StartCoreOneMore ==
  LET c == Cardinality(Cores)
  IN  /\ pc = "print_der"
      /\ c <= total_cores
      /\ core' = [x \in Cores \union {c} |-> IF x \in Cores THEN core[x] ELSE "test"]
      /\ derived_index' = [x \in Cores \union {c} |->
                             IF x \in Cores THEN derived_index[x]
                                            ELSE (c * block_size) % Word]
      /\ UNCHANGED <<pc, number_derived_constraints, block_size, total_cores,
                     section, delayed>>

\* One iteration of the loop of print_der that starts the threads of the cores.
StartCore ==
  LET c == Cardinality(Cores)
  IN  /\ pc = "print_der"
      /\ c < total_cores
      /\ core' = [x \in Cores \union {c} |-> IF x \in Cores THEN core[x] ELSE "test"]
      /\ derived_index' = [x \in Cores \union {c} |->
                             IF x \in Cores THEN derived_index[x]
                                            ELSE (c * block_size) % Word]
      /\ UNCHANGED <<pc, number_derived_constraints, block_size, total_cores,
                     section, delayed>>

\* The last thread is started and print_der returns.
StartSolcheck ==
  /\ pc = "print_der"
  /\ Cardinality(Cores) >= total_cores
  /\ pc' = "join"
  /\ section' = [section EXCEPT !["solcheck"] = "write"]
  /\ UNCHANGED <<number_derived_constraints, block_size, total_cores, core,
                 derived_index, delayed>>

AllDone == /\ \A x \in Section : section[x] = "done"
           /\ \A c \in Cores : core[c] = "done"

Join ==
  /\ pc = "join"
  /\ AllDone
  /\ pc' = "joined"
  /\ UNCHANGED <<number_derived_constraints, block_size, total_cores, section, core,
                 derived_index, delayed>>

(***************************************************************************)
(* The threads: what is between two dispatches is a thread's own.          *)
(***************************************************************************)
Running == pc \notin {"joined", "terminated"}

WriteSection(x) ==
  /\ Running
  /\ section[x] = "write"
  /\ section' = [section EXCEPT ![x] = "done"]
  /\ delayed' = delayed (+) SetToBag({File(x, {})})
  /\ UNCHANGED <<pc, number_derived_constraints, block_size, total_cores, core, derived_index>>

\* The loop body: write the block, dispatch it.  get_derivation_from_offset
\* throws for an index past the end, and nothing catches it: std::terminate.
WriteBlock(c) ==
  /\ Running
  /\ core[c] = "test"
  /\ derived_index[c] < number_derived_constraints
  /\ IF \E k \in Block(derived_index[c]).constraints : k >= number_total_constraints
       THEN pc' = "terminated" /\ UNCHANGED <<core, delayed>>
       ELSE /\ core' = [core EXCEPT ![c] = "stride"]
            /\ delayed' = delayed (+) SetToBag({Block(derived_index[c])})
            /\ UNCHANGED pc
  /\ UNCHANGED <<number_derived_constraints, block_size, total_cores, section, derived_index>>

\* Mutants: a stride one block too long, or one too short.
ReadOneCoreMore == {total_cores + 1}
ReadOneCoreLess == {total_cores - 1}

\* derived_index += (total_cores * block_size), with total_cores in print_der's
\* frame.
ReadTotalCores == {total_cores} \union (IF pc = "join" THEN Garbage ELSE {})

Stride(c) ==
  /\ Running
  /\ core[c] = "stride"
  /\ core' = [core EXCEPT ![c] = "test"]
  /\ \E cores \in ReadTotalCores :
       derived_index' = [derived_index EXCEPT ![c] = (@ + cores * block_size) % Word]
  /\ UNCHANGED <<pc, number_derived_constraints, block_size, total_cores, section, delayed>>

\* Mutant: the loop ends at number_derived_constraints and nowhere else.
LoopEndsExactly(c) ==
  /\ Running
  /\ core[c] = "test"
  /\ derived_index[c] = number_derived_constraints
  /\ core' = [core EXCEPT ![c] = "done"]
  /\ UNCHANGED <<pc, number_derived_constraints, block_size, total_cores, section,
                 derived_index, delayed>>

LoopEnds(c) ==
  /\ Running
  /\ core[c] = "test"
  /\ derived_index[c] >= number_derived_constraints
  /\ core' = [core EXCEPT ![c] = "done"]
  /\ UNCHANGED <<pc, number_derived_constraints, block_size, total_cores, section,
                 derived_index, delayed>>

Terminating == ~Running /\ UNCHANGED vars

MainStep == print_sol \/ StartCore \/ StartSolcheck \/ Join
CoreStep(c) == WriteBlock(c) \/ Stride(c) \/ LoopEnds(c)

Next == \/ MainStep
        \/ \E x \in Section : WriteSection(x)
        \/ \E c \in Cores : CoreStep(c)
        \/ Terminating

Spec == Init /\ [][Next]_vars

\* Every thread runs.
ThreadsRun == /\ WF_vars(MainStep)
              /\ \A x \in Section : WF_vars(WriteSection(x))
              /\ \A c \in 0..(Word - 1) : WF_vars(c \in Cores /\ CoreStep(c))

(***************************************************************************)
(* Properties.                                                             *)
(***************************************************************************)
TypeOK ==
  /\ pc \in {"print_sol", "print_der", "join", "joined", "terminated"}
  /\ number_derived_constraints \in DerivedCounts
  /\ block_size \in 1..(Word - 1)
  /\ total_cores \in 0..(Word - 1)
  /\ section \in [Section -> {"none", "write", "done"}]
  /\ \E n \in 0..total_cores : Cores = 0..(n - 1)
  /\ core \in [Cores -> {"test", "stride", "done"}]
  /\ derived_index \in [Cores -> 0..(Word - 1)]
  /\ IsABag(delayed)

\* The files about constraint k.
FilesAbout(k) == {f \in BagToSet(delayed) : k \in f.constraints}

\* No derivation is written to two files, and no file is dispatched twice: two
\* threads, or two machines, never work on the same name.
WrittenOnce ==
  /\ \A k \in DerivedConstraint : \A f, g \in FilesAbout(k) : f = g
  /\ \A f \in BagToSet(delayed) : delayed[f] = 1

\* "# derivations dispatched at once to the checker" (main): when the threads
\* have been joined, and the evaluation begins, every derivation and the two
\* other sections are in a file that has been dispatched.
EverythingDispatched ==
  pc = "joined" => /\ \A k \in DerivedConstraint : FilesAbout(k) # {}
                   /\ \A x \in Section : BagIn(File(x, {}), delayed)

\* No file asserts nothing.
NoEmptyBlock == \A f \in BagToSet(delayed) : f.kind = "DER" => f.constraints # {}

\* No thread asks get_derivation_from_offset for a derivation there is not, which
\* would throw and end the program: not with the last block, whatever its size.
DerivationsExist == pc # "terminated"

(***************************************************************************)
(* What the threads have still to do: the steps of the main thread, the    *)
(* files of the two sections, and for each core its start, for each index  *)
(* it has not passed a block and a stride, and the end of its loop.        *)
(***************************************************************************)
Phase == [print_sol |-> 1, print_der |-> 2, join |-> 3, joined |-> 4, terminated |-> 4]

\* Whether a core has not come to a step of its loop with this index.
BlockAhead(c, d) == \/ c \notin Cores
                    \/ derived_index[c] < d
                    \/ derived_index[c] = d /\ core[c] = "test"

StrideAhead(c, d) == c \notin Cores \/ derived_index[c] <= d

Ahead ==
  LET cores == 0..(total_cores - 1)
      turns == cores \X (0..(number_derived_constraints - 1))
  IN  [main |-> (Phase[pc] + 1)..4,
       sections |-> {x \in Section : section[x] # "done"},
       starts |-> cores \ Cores,
       blocks |-> {t \in turns : BlockAhead(t[1], t[2])},
       strides |-> {t \in turns : StrideAhead(t[1], t[2])},
       ends |-> {c \in cores : c \notin Cores \/ core[c] # "done"}]

Fewer(a, b) == a # b /\ \A x \in DOMAIN b : a[x] \subseteq b[x]

\* No step of a thread is done twice: what is still to do, which is finite, gets
\* less with every step, so that a stride neither stands still nor wraps around
\* and print_formula returns if every thread runs.
GenerationGoesOn == [][Fewer(Ahead', Ahead)]_vars

\* print_formula returns: every stride leaves the loop in the end.
GenerationEnds == <>(pc = "joined")
=============================================================================
