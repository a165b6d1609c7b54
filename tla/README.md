# Verification of vipr_checker

TLA+ models of vipr_checker, the TLC runs that check them and the proofs TLAPS checks about them.
The program reads a VIPR certificate (`.vipr`), writes SMT formulas that are satisfiable exactly
when the certificate is valid, hands the files to SMT solvers on a set of machines over ssh, and
prints OK or ERR according to whether the answers are what the user expected. A wrong OK is the
failure that matters: a claim about an optimisation problem would pass as proved.

The build modelled is the default one of the `Makefile`: `PARALLEL` and `LINUX`, without
`FULL_MODEL`, `AIJ_SMT` and `EQ_LEQ_GEG_SMT`.

## Inventory

| Component | State | Operations | Talks to | What is hard | What makes it correct |
|---|---|---|---|---|---|
| Evaluation: `remote_execution_manager.{h,cpp}`, `Certificate::get_evaluation_result`, `local_runner.sh` | queues of dispatches, futures, slots of machines, pids, the mutex `serializer` | `dispatch`, `find_machine`, `clear_dispatches`, `run_local`, `kill_dispatches`, destructor | generation threads (calls), async tasks (futures, atomics), ssh and kill processes (exit status, signals) | threads, late kills, failing forks, answers in any order | the verdict follows from the answers; no file lost or launched twice; it ends; slots are respected |
| Dependencies: `precompute`, `calculate_dependencies`, `print_ASM`, `print_PRV` | a set of assumptions for each constraint | one loop | the formula | order of insertions and erasures | no assumption is dropped while needed; the loop agrees with the formula about it |
| Formula: the `print_` functions of `certificate.cpp` | the certificate, read only | one predicate for each rule | the SMT solver | signs, rounding, domination, disjunction, all together | what the solver accepts is true |
| Generation: `print_formula`, `print_sol`, `print_der`, block size in `main` | loop indexes, locals of `print_der`, files written | threads that write and dispatch blocks | the manager | strides, last block, wrap-around, lifetime of locals | every derivation in exactly one dispatched file |
| Parser: `parser.{h,cpp}` | line buffer, token cursor, end of file | `get_line`, `get_token`, `parse_number` and the other conversions | `LinearAllocator`, `read()` | refilling in the middle of a line, a buffer that moves, the end of the file | the lines and tokens are those of the file, wherever `read()` cuts it |
| Sections: `main` and its readers | the certificate being built, the pointer `token` | one branch for each section name, readers of constraints, reasons, pairs | parser | a pointer compared long after the buffer was refilled; no token left | the certificate built is the one the text says; other texts are refused |
| `LinearAllocator` | current buffer, watermark | `allocate`, `get_stable_string` of the parser | parser | the end of a buffer | names and numbers kept do not overlap |
| `FileHelper` | output buffer, watermark, descriptors | `open_output`, `write_output`, `close_output` | every generation thread (thread_local) | a full buffer, short and failing writes, the next file | a file that is dispatched is what was written |
| Printing of a certificate, scripts, build | none | | | | |

## Modules

| Module | What it is |
|---|---|
| `EvaluationResult` | the contract of an evaluation: files get answers, a verdict is concluded from answers that were given |
| `RemoteExecutionManager` | the manager and the loop that drives it, thread by thread |
| `RemoteExecutionManager_proofs` | its theorems |
| `Dependencies` | `calculate_dependencies` and the predicates on indexes |
| `Dependencies_proofs` | its theorems |
| `Numbers` | `struct Number`, `print_number`, the solver's arithmetic on pairs of integers |
| `Numbers_proofs` | lemmas about fractions, their order, sums of any length and integral values |
| `Certificate` | the predicates SOL and DER as the solver evaluates them; uses `Dependencies` by INSTANCE |
| `Certificate_proofs` | its theorems |
| `Generation` | the generation threads and the files they dispatch |
| `Generation_proofs` | its theorems |
| `Checker` | the composition of `Generation` and `EvaluationResult`: from the certificate to OK or ERR |
| `Checker_proofs` | its theorems, which rest on those of `Generation` |
| `Text` | bytes, words and the numbers `strtol` and `strtoul` accept |
| `TokenStream` | the contract of the parser: a text used up line by line and word by word |
| `Parser` | `get_line` and `get_token` on a buffer of bytes |
| `LinearAllocator` | the allocator of the parser's strings, as operators on a record |
| `FileHelper` | the buffered output of a thread, file after file |
| `FileHelper_proofs` | its theorems, about the specification of `Main` |
| `CertificateReading` | the format of a certificate, and the reading of a text step by step, without a buffer |
| `Main` | the loop of `main` over the sections; extends `Parser`, `CertificateReading`, `LinearAllocator` and `FileHelper` |
| `Main_proofs` | theorems about the parser, its contract, the reading of a certificate, the allocator and the types of `Main`; extends `FileHelper_proofs` |
| `MC...` | the instances for TLC |

`Generation` ends where `RemoteExecutionManager` begins: its `delayed` is the bag of files that
`Dispatch` appends to the manager's `delayed` in any order. `Checker` composes the two, with the contract
`EvaluationResult` in the place of the manager that implements it. `Certificate` says what the files mean.

### RemoteExecutionManager

`pc` is the place of the main thread, `task[f]` that of the `std::async` task of a file, `child[f]`
the ssh process. `delayed`, `remote`, `slots`, `search_offset`, `machine`, `pid`, `exit_value` are
the members of the same names; `serializer` is the owner of the recursive mutex, `kills` the kill
processes forked and not yet run. Each action is the code between two operations another thread can
see:

| Action | Code |
|---|---|
| `Dispatch` | `dispatch(filename, line)` by a generation thread |
| `Joined` | the join in `print_formula` |
| `ClearEnter`, `FillSlot`, `FillOver`, `Collect`, `CollectThrow`, `ClearDone` | `clear_dispatches`: lock, one iteration of the while loop, its end, an entry whose `get()` returns, or throws, no entry left |
| `MainKillEnter`, `KillStep`, `KillForkFails`, `MainKillExit` | `kill_dispatches` called by `get_evaluation_result` |
| `TaskKillEnter`, `TaskKillExit` | the same called by a task whose `fork()` failed |
| `ForkChild`, `ForkFails`, `SetPid`, `WaitPid`, `ReleaseSlot` | `run_local` in a task and the `fetch_add` after it |
| `Destroy` | the destructor |
| `ChildExits`, `DeliverKill`, `DeliverGroupKill` | processes: external |

Two facts make the steps as large as they are. Only the main thread subtracts slots, so that the scan
of `find_machine` is one step. And `clear_dispatches` is under the mutex except for what tasks do,
which is atomics and futures. A pid that has not been assigned is a choice between 0 and a number
that is no process of ours. A task that throws ends the program when `get()` rethrows.

### Dependencies

One action, `Calculate`, is one iteration of the loop; the reason of derivation i is chosen at
iteration i because nothing reads it before. `DependenciesOf` is the switch, `UnsDependencies` the
insertions and erasures of a uns in the order of the code. `print_ASM` and `print_PRV` are the
formulas, evaluated over what was calculated.

### Numbers and Certificate

A certificate is read derivation by derivation. `Derive` is a line whose formula is true, `Refuse` a
line whose formula is false, `Throw` a line that makes `calculate_dependencies` throw, `Conclude` the
files `.SOL` and `.DER-solcheck`. The verdict is the conjunction of all answers. The program
computes all dependencies before it writes anything; taking the two together derivation by derivation
is the same, because no part of the formula reads a later derivation. The exception is `print_ASM`:
the model leaves it out, and theorem `AsmIsCalculated` says that it is true.

The predicates keep the names of the functions that print them. `print_eq`, `print_geq` and
`print_leq` are evaluated in C++ from the text of the multipliers; `print_conjunction_eq_leq_geq` is
what the other build leaves to the solver.

A `Number` is the text of a numerator and a denominator, with the flag `is_integral`. Of the text of a numerator the code asks
whether it is "0" (`is_zero`) and whether it begins with "-" (`IsSigned`), and a `Numeral` is a text as far as
these two can tell: 0, -0 and 00 have one value and are three numerals, of which only the first is zero to the code. A denominator is any
integer, for the parser checks none of them: negative ones and zero too. Texts that are no numbers, which the parser takes as
well, are left out. 00 is read as 0; a solver that does not accept such a literal refuses more certificates, not fewer.

`print_number` is what the solver reads. Where the denominator is not zero, that is `Value`, a pair that is not reduced. A quotient by zero is
some number in SMT-LIB, the same wherever it is written in one file, and any number in the next file: the
solver chooses `quotients`, one of the functions `Quotients` from dividends to values, for each file anew. A dividend is a whole
number and its quotient a rational one, which is less than a solver may choose: a violation TLC finds is one the solver may produce, and
the proofs exclude quotients by zero altogether. In the model every derivation has a file of its own, as with a block size of 1; with
longer blocks the derivations of a block share one choice, and no more is accepted than with a block for each. A factor that is zero
by its text is not printed (`Term`), so that the multiplier 0/0 does no harm. The solver's + of n terms is `Total`, a recursive function of n.

### Generation

The main thread's actions are `print_sol`, `StartCore`, `StartSolcheck` and `Join`; a core's are
`WriteBlock`, `Stride` and `LoopEnds`; `WriteSection` is the thread of `.SOL` or `.DER-solcheck`. Files
are sets of constraint indexes. Arithmetic is modulo `Word`. After `print_der` has returned, `Stride`
may read one of the words of `Garbage` for `total_cores`. The number of blocks is the ceiling of a
float division: `NumberBlocks` is exact while both numbers are below `FloatExact` (2^24), and any number within the
error of three roundings above it.

### Checker

`Generate` is a step of a generation thread, `Evaluate` the join of the threads, from which on the files of
`EvaluationResult` are those that have been dispatched (`clear_dispatches` is called by nobody before).
`Answer` is a solver, which says sat only of a file whose formulas are all true and may fail at any time;
`Conclude` prints the verdict. Which parts of the certificate are false is chosen freely: whether the code finds
a formula false when it should is the subject of `Certificate`, and what `Checker` adds is that nothing gets lost
between the formulas and the verdict.

### Parser and TokenStream

A pointer of the parser is an index into `buffer`, a sequence of bytes that is cut in place: `strsep`
puts a NUL where the delimiter was. `get_line` is the steps `CutLine` (`strsep`), `Refill` (one turn of
its loop up to there: the unfinished line moved to the front, `resize`, `read`, the NUL behind the
chunk) and `LeaveGetLine`; `get_token` is `NeedLine` and `NextPiece`, one turn of its loop. `call` says
which function is being called or has returned. `read()` may return less than it is asked for.
`allocation` counts how often the vector has had to move its bytes.

`TokenStream` is what a caller may rely on, without any buffer: `TakeLine` takes a line off the text,
`GiveToken` a word off the line, and there is no token only at the end of the text. The refinement
mapping (`StreamInput`, `StreamLine`, `StreamToken`) puts together what is cut off and not given, what is in
the buffer behind it and what has not been read; `Refill` and `CutLine` are stutters except where they
finish a line.

### CertificateReading, LinearAllocator, FileHelper and Main

`CertificateReading` has the format (`SectionItems` what the branch of a section reads, `After` what a word makes
its reader ask for) and, built on it, what a text says when it is read without a buffer: `Beginning` is the state before the
first step, `ReadOn` the step after a state, `Reading(text, n)` the state after n of them. It is a deterministic
machine that takes a line off the text, a word off the line, and hands the word to whoever asked for it; a section is entered by its word,
which is kept and not looked up in memory. `Weight` is how far a state is from the end of its reading: the bytes that are left, and
what can be done without them. The words of the format are one letter each, for example V for VAR and D for DER.

`LinearAllocator` keeps where each string was placed. `allocate` is the code's: a string that does not
fit is placed at the beginning of a new buffer whose watermark is 0.

`FileHelper` is one thread of the generation: `open_output`, any number of `write_output`, `close_output`,
`dispatch`, and the next file with the same buffer. `Longer`, `Fills` and `Fits` are the three cases of
`write_output`; `flush_data` is one `write()` of any length, `WriteFails` one that fails, which exits. A
byte is the file and the position it is meant for, so that a byte lost, doubled, moved or left over
from another file shows.

`Main` reads item by item: `pending` is the list of what the readers on the stack will still ask for, and
`Item` hands them one token (`After` says what it makes them ask for, `StringsOf` what is kept of it).
`Reader` is the place of this program in the reading of its text; between two steps of the reading come the `Stage`s of a call of
`get_line` or `get_token`, and the `Turns` of their loops. `section` is main's `token`: a pointer, with the allocation it points into. `EnterSection` is the next
`strcmp` that succeeds, with whatever is at that place by now; `misled` remembers that a second section
was entered for one line, which is a mistake always. `Generate` is a thread of the generation
after the text was read; it comes last because nothing else of it touches the parser.

## Runs

| Run | Expect | Shows |
|---|---|---|
| `manager` | pass | the evaluation ends (`EvaluationEnds`), decides when all solvers say sat (`AllSatDecides`), and implements `EvaluationResult` (`RefinesEvaluationResult`) |
| `manager_faults` | pass | `VerdictSound`, `NoDispatchLost`, `NoSlotLost`, `KillsJustified` with failing forks; no step is done twice (`EvaluationGoesOn`) |
| `slots` | violation | a relaunch takes no slot: a machine runs more processes than slots |
| `verdict` | violation | an unassigned pid is 0: the checker kills itself before its verdict |
| `forkfail` | violation | a failing fork in a task deadlocks with `clear_dispatches` |
| `dependencies` | pass | `AsmAgrees`, `AssumptionsSound`, `OnlyAssumptions` |
| `certificate` | pass | `DerivedHolds`, `AcceptedIsTrue`, and `SignsSound`: what the code reads off the text of multipliers is what the solver would find |
| `signs` | violation | with a multiplier -1/-2 a false claim is accepted |
| `generation` | pass | `WrittenOnce`, `EverythingDispatched`, `NoEmptyBlock`; no derivation missing is read (`DerivationsExist`), no step is done twice (`GenerationGoesOn`), it ends (`GenerationEnds`); from end to end, OK only for a certificate of which no part is false (`OkMeansTrue`), and a verdict in the end (`VerdictComes`) |
| `frame` | violation | a thread that reads a dead local leaves derivations out |
| `main` | pass | the parser implements `TokenStream` (`ReadsTheStream`), each step of `main` is the next step of reading the text, or none (`ReadsOn`), `main` builds the certificate of the text (`ReadsTheCertificate`), does no step of this twice (`MainGoesOn`), and ends (`MainEnds`); `StringsApart`, `DispatchedComplete` |
| `blankline` | violation | a blank line at the end, as in `forged1.vipr` and `forged2.vipr`: `strcmp` of a null pointer |

### Bounds

- `manager`: three files, two machines with one slot each. There are relaunches, a file that waits,
  files left running when an answer is not sat, and kills of files in every state. `slots` and
  `manager_faults` use one machine, and one machine with two slots beside one with none.
- `manager_faults`: `MaxForkFailures = 2`, so that a fork fails inside the kill that another failing
  fork began. Files are symmetric; the run has no liveness property. It checks no deadlock,
  because with a failing fork the program does deadlock: that is what `forkfail` is about.
- `dependencies`: one problem constraint and three derivations, every lin with two citations, every
  rnd with one and every uns. A uns needs two assumptions before it, so that three derivations are
  the least that use it in full; nesting of uns is what the proofs are for.
- `certificate`: variables x (integral) and y, eight problems with true and false claims, four
  derivations, multipliers 1/2, 1 and -1, in a combination of two also 0, -0, 00 and 0/0 (a coefficient is -0 too), and `Points` a grid that has a feasible point of each
  feasible problem. `DerivedHolds` and `AcceptedIsTrue` are claims about these points in the run, and about all
  vectors of rational numbers in the proofs. Proofs by
  two assumptions, a uns and a final domination are among the behaviours. Nothing but the multiplier 0/0 is divided by zero, so that one choice of
  `Quotients` is enough; it is 2 for 0/0, so that a term wrongly printed would show.
- `signs`: a feasible problem that claims to be infeasible, two derivations. With `Derivations <- ZeroDerivations` and `Quotients <- TwoQuotients`
  in `signs.cfg` the same run shows another false claim accepted: a constraint with the target 1/0 is derived in one file and used
  in `.DER-solcheck`, and a solver may take 0/0 and 1/0 for 0, or both for 1, in each file anew.
- `generation`: up to five derivations, one or two for `hardware_concurrency()` (two or four threads),
  block sizes 2, 3, 7 and the default, which is 1 or 2 here, `Word = 32`; `FloatExact = 5`, so that a
  certificate of five derivations, or blocks of seven, have an inexact number of blocks. `Garbage = {}`: the run says what holds if
  the frame keeps its words; `frame` says what happens if it does not. `MaxFalseParts = 1`: a file is answered
  by its parts, so that a certificate with more false parts is told OK only if each of them alone would be.
- `main`: ten certificates with every section, both forms of coefficients, and the reasons lin and uns, each
  written in three ways: a line for each section; blanks, tabs, comments, unknown and empty lines; a
  line for each word with carriage returns and no newline at the end. Seven other texts are cut short, have a
  word that is not expected, or have a section twice. `BUFFER_SIZE = 5` (16384 in the code) with reads of one byte or
  as many as there are: lines shorter and longer than the buffer, a chunk that ends at
  every place of a line, buffers that grow and shrink. `ALLOCATOR_SIZE = 7` (1 GiB), with strings of one to three
  bytes: several buffers. `OUTPUT_BUFFER_LENGTH = 3` with messages of 0 to 4 bytes, two files of up to 7 bytes:
  a message that fills the buffer exactly, overruns it, is as long as it, is longer. The files are written
  after one text (`PrintedTexts`), for they do not depend on it. `Meaning` gives the words of each certificate, as they were before
  they were written out as a text; the assumption `MeaningOfTexts`, which TLC evaluates first, says that the reading of
  each text ends within 120 steps, and with those words if the text is a certificate.

`ReadsTheCertificate` has the exception `misled`, and both ways to it happen in the run: a last
variable named as a section (`main.cpp:215`), and the end of a chunk with the next section's name where the
last one's name was (`main.cpp:307`). Without the exception TLC finds the second one in a certificate of CON, SOL and
DER that is refused because DER is entered twice. These two mistakes are therefore what `ReadsTheCertificate` does not catch, as
`StringsApart` does not catch the string that `allocate` overwrites at the beginning of a buffer: the properties say that there is no other.

### Fairness

`SchedulingFairness`: every thread and process that can take a step takes one in the end, which is what
the operating system does. `SolversAnswer`: every solver run ends; `local_runner.sh` has no time limit, so
that this is an assumption about the solver and not about the code. `EvaluationEnds` and
`AllSatDecides` need both. In `Checker` every thread of the generation runs, every solver
answers, and the main thread goes on behind the join. In `Main` there is one
thread, which takes a step whenever it can; `read()` and `write()` return, having moved a byte at least unless the file has ended.

## Proofs

Proved for every value of the constants that satisfies the assumptions named in the modules:

- `RemoteExecutionManager_proofs`: `TypeCorrect`, `VerdictIsSound`, `NothingLost`,
  `KillsAreJustified`, `NoSlotIsLost`, `ManagerImplementsContract`. The assumptions are finitely many
  files, a machine with a slot, and distinct sentinels. The inductive invariant `IInv` adds to
  `VerdictSound` and `NoDispatchLost` what they rest on: a file is queued at most once and where
  (`QueueInv`), the state of a task says what its process and its `exit_value` can be
  (`ProcessInv`), a machine's slots cannot all disappear (`SlotInv`), and an entry removed while the loop
  still runs was answered sat, with an answer other than sat once the decision to kill is taken
  (`DecisionInv`). `ManagerImplementsContract` is a step simulation: a step is an
  answer, a conclusion, or a stutter.

  `EvaluationRunsOut` (`EvaluationGoesOn`) and `EvaluationIsFinite` say that no evaluation goes on for ever: with every step, of any
  thread or process and with any number of failing forks, something that is still to do gets less, and what is to do is finite.
  `Ahead` is a record of sets, of files to be dispatched, steps of tasks, processes that have not ended, results not collected, of which
  none grows and one shrinks. Three loops leave it as it is, and come behind it in a lexicographic order: the
  entries that `kill_dispatches` has not come to, the signals, and the way from the beginning of `clear_dispatches` to the
  result it waits for. An evaluation therefore ends or waits; that it does not wait for ever is `EvaluationEnds`.
- `Dependencies_proofs`: `TypeCorrect`, `AsmIsCalculated`, `AssumptionsAreSound`,
  `AssumptionsOnly`, for certificates of every size. The invariant adds `LoopInv`, that derivations
  not reached have no assumptions and those passed cite earlier ones. `UnsSet` is the lemma behind
  the rest: what the erasures compute in their order is (A_i1 without l1) union (A_i2 without l2).
- `Certificate_proofs`, for every number of variables, constraints, terms and derivations: `TypeCorrect`; `SignsAreSound`
  (`SignsSound`), that what is read off the text of the multipliers holds of their values, however a zero is written; `DerivationsHold` (`DerivedHolds`), that no rule concludes
  more than it proves; and `AcceptedClaims` (`AcceptedIsTrue`), that an accepted certificate proves its claim. The
  parser promises less than they need, and what they need is said in hypotheses and not in the type of a number. All but the
  first assume `PositiveDenominators`, that no multiplier has a denominator that is zero or negative, unless it is zero by its text; the
  run `signs` shows a false claim accepted without it. The last two, and `CertificateInvariant` behind them, assume `NonzeroDenominators` too, that
  no other number of the certificate, of the problem, its solutions, its claim or a derived constraint, is divided by zero. Without
  that a false claim is accepted too (see `signs` among the bounds). How a zero is written is under no hypothesis: `SignsSound` says for every text of a
  zero that the signs are not stronger than the solver's, which soundness needs, and that they are the same for certificates that write zeros as 0, which is all
  that can be said: with -0 or 00 the default build refuses what the other accepts.

  `AcceptedClaims` assumes `IntegralSolutions` too: where a solution's number for an integral variable has no "/",
  its value is integral. That is what `print_feas_individual` takes for granted, and a decimal such as 0.5 breaks it.

  `DerivedHolds` speaks of the derivations and of `Points`, and is not inductive. `CertificateInv` says of every vector of
  rational numbers that is feasible and no worse than the solutions that every constraint read so far, those of the
  problem too, holds at it if its assumptions do (`SoundInv`), that assumptions are derivations by asm that come no
  later (`AssumptionsInv`), that nothing read so far is divided by zero (`ExactInv`), so that every file reads the same in
  it, and that sat was said of `.SOL` and `.DER-solcheck` too (`AcceptInv`). A side of a domination
  is read as a statement about a point (`SideHolds`), and each rule takes sides that hold to sides that hold, once the terms that are printed are the products of the values (`TermIsProduct`,
  `SumIsDot`):
  `Domination`; `CombinationHolds`, where a row of multipliers times a point is the same summed by variables and by
  constraints (`CombinationDot`, by `TotalOfTotals`); `Rounding`, as a vector with zeros for the variables that are not integral has an integral
  product with a feasible point (`DotOfIntegers`); `Disjunction`, as no integer is between b and b + 1; and `SolutionDomination`. `RuleSound` puts
  them together with what `calculate_dependencies` keeps of the assumptions (`UnsKeeps`). At the end no assumption is left
  (`LastHolds`); a bound then holds at every feasible point, because the best of the solutions (`BestSolution`) is feasible, not worse than
  the others and so subject to `SoundInv` (`BetterThan`).

  The sums are functions on intervals of the natural numbers, so that facts about them need induction over a natural
  number and none over data. The library's induction theorems have an operator for a parameter; `Inductive` in `Numbers_proofs` has a
  set instead, and follows from `WFMin` (a well-founded relation has minimal elements).
- `FileHelper_proofs`: `OutputInvariant` and, from it, `FilesAreComplete` (`DispatchedComplete`), for every length
  of the output buffer, of messages and of what `write()` takes. `DispatchedComplete` is not inductive: it says nothing
  of bytes that are not on disk yet. `OutputInv` adds that what is on disk, what `flush_data` still has
  to write and what is buffered follow one another in the file and make up what has been written
  (`CurrentInv`), that earlier files are complete (`EarlierInv`), and that nothing is left over
  when a file is closed (`PhaseInv`). The three cases of `write_output` rest on `CopiedBehind` and `CutMessage`,
  lemmas about `memcpy` into the buffer and about the message cut where the buffer is full.

- `Generation_proofs`: `TypeCorrect` without any hypothesis, and `PartitionInvariant`, `DerivationsWrittenOnce`
  (`WrittenOnce`), `AllDerivationsDispatched` (`EverythingDispatched`) and `BlocksNotEmpty` (`NoEmptyBlock`) for every number of
  derivations, cores and block sizes, under two hypotheses. `NothingWraps`: the block size asked for is not negative
  and at most a quarter of what an unsigned long holds (`atoi` gives an int, and the long has 64 bits), and
  `hardware_concurrency()` is known and below half of that. A negative size and an unknown
  concurrency are hazards in PROJECT.json. `FrameIntact`: no word of the dead frame of `print_der` is read; the run `frame` shows that
  without it `EverythingDispatched` fails. None of the three properties is inductive: they say nothing of who is to
  write what is not written yet. `PartitionInv` says that the bag `delayed` is exactly the blocks that the threads have passed
  (`Passed`) and the sections that are done, that a thread's index is one of its turns, `(c + m * total_cores) * block_size`
  (`CoreInv`), and that the next turn does not wrap around (`SizesInv`). Every block index is the turn of one core and one round
  (`Division`, `TurnsDiffer`), so that blocks are apart (`BlocksApart`), new when they are dispatched
  (`WriteBlockPartition`), and all passed when all loops have ended (`EveryDerivation`).

  `NoDerivationMissing` (`DerivationsExist`), under the same hypotheses: `print_der_block` never reads past the derivations there are.
  `GenerationRunsOut` (`GenerationGoesOn`) and `GenerationIsFinite` say that the generation cannot go on for ever: with each step of a thread
  some part of `Ahead` shrinks, none grows, and all are finite. They rest on `StrideFits`: a stride is not 0 and does not wrap around,
  so that an index that a thread has come to is behind it for good.
- `Checker_proofs`: `CheckerImplementsGeneration`, by which the theorems of `Generation` hold in the composition, and
  `OkIsTrue` (`OkMeansTrue`), from `PartitionInvariant` and `AnswersInv`: the answers are about the files dispatched when the threads
  are joined, an OK for "sat" has all of them sat, and a file that is sat has no false part.

- `Main_proofs`: `ParserInvariant` and `StoredStringsApart` (`StringsApart`) without any hypothesis, `ParserImplementsStream`
  (`ReadsTheStream`) and `TypeCorrect` (`TypeOK`) under hypotheses about the texts.

  `TypeOK` is not inductive: that `line` is an index says nothing of what `strsep` finds there. `ParserInv` says that
  `next_line`, `line` and `token` are null or point to strings that end in the buffer (`NextLineInv`, `LineInv`,
  `TokenInv`), the token before what is left of the line and that before the next line, so that neither the NUL of a
  cut nor the bytes moved by a refill change a string that is still needed; that a line that is not finished has no newline;
  and that at the end of the file nothing is left to read (`EofInv`). `AllocatorInv` adds to `StringsApart` that every string
  in the last buffer ends before the watermark or is the first of its buffer, which is the one that `allocate()` forgets.

  `ParserImplementsStream` is a step simulation. `strsep` cuts a string in two (`Cuts`), which is `TakeLine` or
  `GiveToken`, or a stutter; a refill leaves the unfinished line and what follows it the same text (`RefillMaps`); the rest leave what the
  mapping reads alone (`LeaveGetLineMaps`, `NeedLineMaps`, `CallsMaps`, `ItemMaps`). It assumes `NoNul`, that no text has a NUL byte: a C string ends at
  one, so that the rest of a chunk with a NUL in it would be lost, and the code does not check for it. `TypeCorrect` needs `NoNul` too, for what is given is
  a word of the text (`PiecesInv`), and `WordsFit`: no run of a text without separators is as long as a buffer of the allocator (1 GiB),
  because `allocate()` does not check that a string fits into a new buffer. Every text of the run `main` satisfies both. Texts are any sequences
  of bytes (`ParserAssumption`).

  `TextDecides` (`ReadsOn`) says of every text without a NUL that the text alone decides what is read: however `read()` cuts it into
  chunks and wherever the buffer moves to, a step of `main` is the one next step of `CertificateReading`, or none, until a second
  section is entered for one line (`misled`). It goes beyond `ReadsTheStream`, which allows any order of lines
  and words: the lemmas `...Reads`, one for each action, say which step it is. A pointer is what makes this more than a table of
  actions: between the word of a section and its `strcmp` the buffer must not have changed (`SectionInv`: until the
  first comparison succeeds, `token` is still the string that was given, so that `Names` is equality with the word, lemma `NamesWord`), and
  the line that `get_line` leaves with must be the next line of the text even when it was put together from several
  chunks (`LeaveGetLineEnds`).

  `CertificateIsRead` (`ReadsTheCertificate`) says that what is built is what the text means, and that a text is refused only if it
  means nothing. `ReadsTheCertificate` says nothing of a text half read; the invariant is `Reached`, that `main` is at `Reading(file, n)` for some
  n unless it is misled. A reading is a function of the number of steps, so that going one step on is a
  fact about functions (`ReadingGoesOn`) and needs no induction over data. The hypothesis `MeaningIsRead` ties the constant `Meaning` to the format: where a
  reading ends, `Meaning` says what it ended with. `MeaningOfTexts` evaluates the same for the texts of the run.
  The hypothesis can always be met: `ReadingEnds` says that the reading of every text, with any counts in it, comes to an end, and `OneMeaning` that there is one
  meaning of a text with which `MeaningIsRead` holds, and no other. A step takes bytes off the text or the line
  (`PiecesShorter`), or is one of four that can follow one another without any (`ReadOnLess`); that such a descent ends is an
  induction over `Weight`, a natural number.

  `MainRunsOut` (`MainGoesOn`) and `MainIsFinite`: nor does `main` itself go on for ever, for any text and however `read()` cuts it. A step that
  does not take the reading on (`NextWeighs`) takes a call of the parser on (`Stage`, from 6 down to 0), and if not
  that, its loop: `get_line` has fewer bytes to read, or the end of the file still to notice, `get_token` fewer bytes in the line. A call that can go round
  must not begin again for the same reading: when `get_token` has to take a line itself, either there is one, or nothing is
  ahead and `get_line` finds none (`NeedLineNearer`, `LeaveGetLineNearer`). This holds when `misled` too: a second section that is
  entered is a step less to do (`EnteredWeighs`). It says nothing of `Generate`, whose files are as long as a bound allows.

Every invariant and every action property that a passing run checks is stated by a theorem. Only model-checked: liveness under fairness (`EvaluationEnds`,
`AllSatDecides`, `GenerationEnds`, `VerdictComes`, `MainEnds`), which is out of the prover's reach. What is proved
of it is that nothing goes on for ever (`EvaluationRunsOut`, `GenerationRunsOut`, `MainRunsOut`); that there is always a step to be taken until the end, and
that fairness has it taken, is left to the runs. That a reading says what a certificate was before it was written out
is evaluated for the texts of the run and not proved: it would be an induction over the text.

## Not modelled

A `read()` that fails: `get_line` then writes in front of the chunk. Indexes that are out of range, counts with
a minus, counts and indexes that do not fit into a long (`convert` refuses them: ERANGE), sections that are missing although their counts are used: the code checks none of these, and what it
does then is undefined. `line_number`, which error messages use. The descriptors `close_output` leaks.
Comments inside a section, which the readers take for items. The text of
the formulas beyond its meaning; file names, host names, command lines, timing output. The build
with `FULL_MODEL` (bound constraints printed in full) and the sequential build. A file that cannot be opened or
written ends the program with an exception or `exit` and has no verdict. Decimals for integral
variables are in `Numbers` but in no run (see the hazards in PROJECT.json).

## Plan

1. Done: manager and contract, dependencies, certificate, generation.
2. Done: the parser and its contract, the loop over the sections, the allocator, the output buffer.
3. Done: the composition `Checker`, in which an OK means that every derivation was answered sat.
4. Done: the proofs of `DispatchedComplete`, of the partition of the derivations into blocks, of `OkMeansTrue`, of the
   soundness of the formula, `DerivedHolds` and `AcceptedIsTrue`, and of `Main` the parser's pointers, `ReadsTheStream`, `ReadsOn`,
   `ReadsTheCertificate`, `StringsApart` and `TypeOK`.
5. Done: the safety half of `EvaluationEnds`, `GenerationEnds` and `MainEnds`, that nothing can go on for ever, and that every text
   has one meaning.
