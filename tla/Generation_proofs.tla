---------------------------- MODULE Generation_proofs ----------------------------
(***************************************************************************)
(* Theorems about Generation for every number of derivations, block size,  *)
(* number of cores and machine word: its state is well typed, and where    *)
(* nothing wraps around and the frame of print_der stays as it is, the     *)
(* blocks are a partition of the derivations.                              *)
(***************************************************************************)
EXTENDS Generation, FiniteSetTheorems, TLAPS

(***************************************************************************)
(* Arithmetic.                                                             *)
(***************************************************************************)

LEMMA TimesType == ASSUME NEW x \in Nat, NEW y \in Nat PROVE x * y \in Nat
OBVIOUS

\* Multiplication by a natural number is monotonic.
LEMMA TimesMonotonic ==
  ASSUME NEW x \in Nat, NEW y \in Nat, NEW b \in Nat, x <= y
  PROVE  x * b <= y * b
<1>1. y = x + (y - x) /\ y - x \in Nat
  OBVIOUS
<1>2. y * b = x * b + (y - x) * b
  BY <1>1
<1>3. (y - x) * b \in Nat /\ x * b \in Nat
  BY <1>1, TimesType
<1> QED
  BY <1>2, <1>3

\* Multiples of b are b apart.
LEMMA NextMultiple ==
  ASSUME NEW x \in Nat, NEW y \in Nat, NEW b \in Nat, x < y
  PROVE  x * b + b <= y * b
<1>1. x + 1 \in Nat /\ x + 1 <= y /\ (x + 1) * b = x * b + b
  OBVIOUS
<1> QED
  BY <1>1, TimesMonotonic

\* Division with remainder.
LEMMA Division ==
  ASSUME NEW x \in Nat, NEW b \in Nat, b > 0
  PROVE  \E q \in Nat : \E r \in 0..(b - 1) : x = r + q * b
<1> DEFINE q == x \div b
<1>1. q \in Int /\ q * b <= x /\ x < q * b + b
  OBVIOUS
<1> HIDE DEF q
<1>2. q >= 0
  <2>1. ASSUME q < 0 PROVE FALSE
    <3>1. 0 - q - 1 \in Nat /\ q = 0 - 1 - (0 - q - 1)
      BY <1>1, <2>1
    <3>2. q * b = 0 - b - (0 - q - 1) * b
      BY <3>1
    <3>3. (0 - q - 1) * b \in Nat
      BY <3>1, TimesType
    <3> QED
      BY <1>1, <3>2, <3>3
  <2> QED
    BY <1>1, <2>1
<1>3. q * b \in Nat /\ q \in Nat
  BY <1>1, <1>2, TimesType
<1>4. x - q * b \in 0..(b - 1) /\ x = (x - q * b) + q * b
  BY <1>1, <1>3
<1> QED
  BY <1>3, <1>4

LEMMA SmallModulo ==
  ASSUME NEW x \in Nat, NEW w \in Nat, x < w
  PROVE  x % w = x
OBVIOUS

(***************************************************************************)
(* Types.                                                                  *)
(***************************************************************************)

\* The threads of the cores are numbered from 0.
LEMMA CountedCores ==
  ASSUME NEW n \in Nat, Cores = 0..(n - 1)
  PROVE  Cardinality(Cores) = n
<1>1. Cardinality(0..(n - 1)) = IF 0 > n - 1 THEN 0 ELSE (n - 1) - 0 + 1
  BY FS_Interval
<1> QED
  BY <1>1

\* A thread more.
LEMMA CoreAdded ==
  ASSUME TypeOK, StartCore
  PROVE  /\ Cardinality(Cores) \in 0..(total_cores - 1)
         /\ Cores = 0..(Cardinality(Cores) - 1)
         /\ Cores' = 0..Cardinality(Cores)
         /\ core' \in [Cores' -> {"test", "stride", "done"}]
         /\ derived_index' \in [Cores' -> 0..(Word - 1)]
         /\ \A x \in Cores : core'[x] = core[x] /\ derived_index'[x] = derived_index[x]
         /\ core'[Cardinality(Cores)] = "test"
         /\ derived_index'[Cardinality(Cores)] = (Cardinality(Cores) * block_size) % Word
<1> DEFINE c == Cardinality(Cores)
<1>1. PICK n \in 0..total_cores : Cores = 0..(n - 1)
  BY DEF TypeOK
<1>2. c = n /\ n \in Nat /\ total_cores \in Nat
  BY <1>1, CountedCores DEF TypeOK
<1>3. /\ c < total_cores
      /\ core' = [x \in Cores \union {c} |-> IF x \in Cores THEN core[x] ELSE "test"]
      /\ derived_index' = [x \in Cores \union {c} |->
                             IF x \in Cores THEN derived_index[x] ELSE (c * block_size) % Word]
  BY DEF StartCore
<1> HIDE DEF c
<1>4. Cores \union {c} = 0..c /\ c \notin Cores
  BY <1>1, <1>2
<1>5. Cores' = 0..c
  BY <1>3, <1>4 DEF Cores
<1>6. (c * block_size) % Word \in 0..(Word - 1)
  BY <1>2, WordAssumption, TimesType DEF TypeOK
<1>7. core' \in [Cores' -> {"test", "stride", "done"}]
  BY <1>3, <1>4, <1>5 DEF TypeOK
<1>8. derived_index' \in [Cores' -> 0..(Word - 1)]
  BY <1>3, <1>4, <1>5, <1>6 DEF TypeOK
<1> QED
  BY <1>1, <1>2, <1>3, <1>4, <1>5, <1>7, <1>8 DEF c

\* Dispatching makes a bag of a bag.
LEMMA DispatchType ==
  ASSUME NEW B, NEW f, IsABag(B)
  PROVE  IsABag(B (+) SetToBag({f}))
BY DEF IsABag, (+), SetToBag

\* The rounded number of blocks: one at least if there is a derivation, and too
\* few or too many by so little that all blocks but the last begin before twice
\* the number of derivations.
LEMMA BlocksRounded ==
  ASSUME NEW n \in Nat, NEW b \in Nat \ {0}, NEW m \in NumberBlocks(n, b)
  PROVE  /\ m \in Nat
         /\ n > 0 => m > 0 /\ (m - 1) * b < 2 * n
         /\ n = 0 => m = 0
<1>1. CASE n = 0 \/ (n < FloatExact /\ b < FloatExact)
  <2>1. m = (n + b - 1) \div b
    BY <1>1 DEF NumberBlocks
  <2>2. m \in Int /\ m * b <= n + b - 1 /\ n + b - 1 < m * b + b
    BY <2>1
  <2>3. PICK q \in Nat, r \in 0..(b - 1) : n + b - 1 = r + q * b
    <3> DEFINE x == n + b - 1
    <3>1. x \in Nat /\ b \in Nat /\ b > 0
      OBVIOUS
    <3> HIDE DEF x
    <3>2. \E q \in Nat : \E r \in 0..(b - 1) : x = r + q * b
      BY <3>1, Division
    <3> QED
      BY <3>2 DEF x
  <2>4. m = q
    <3> HIDE <2>1
    <3>1. CASE m < q
      <4>1. q - 1 - m \in Nat /\ q * b = m * b + b + (q - 1 - m) * b
        BY <2>2, <3>1
      <4> QED
        BY <2>2, <2>3, <4>1, TimesType
    <3>2. CASE m > q
      <4>1. m - 1 - q \in Nat /\ m * b = q * b + b + (m - 1 - q) * b
        BY <2>2, <3>2
      <4> QED
        BY <2>2, <2>3, <4>1, TimesType
    <3> QED
      BY <2>2, <3>1, <3>2
  <2>5. (m - 1) * b = m * b - b
    BY <2>2
  <2>6. ASSUME n > 0 PROVE m > 0 /\ (m - 1) * b < 2 * n
    <3>1. m * b >= n
      BY <2>2
    <3>2. m # 0
      BY <2>2, <2>6, <3>1
    <3> QED
      BY <2>2, <2>4, <2>5, <3>2
  <2>7. ASSUME n = 0 PROVE m = 0
    <3>1. m >= 1 => m * b >= 1 * b
      BY <2>4, TimesMonotonic
    <3> QED
      BY <2>2, <2>4, <2>7, <3>1
  <2> QED
    BY <2>4, <2>6, <2>7
<1>2. CASE ~(n = 0 \/ (n < FloatExact /\ b < FloatExact))
  <2>1. /\ n > 0 /\ m \in 1..(2 * n) /\ FloatExact \in Nat /\ FloatExact >= 4
        /\ (m - 1) * b * FloatExact < n * (FloatExact + 4)
    BY <1>2, WordAssumption DEF NumberBlocks
  <2>2. n * (FloatExact + 4) <= (2 * n) * FloatExact
    <3>1. 4 * n <= FloatExact * n
      BY <2>1, TimesMonotonic
    <3> QED
      BY <2>1, <3>1
  <2>3. (m - 1) * b \in Nat
    BY <2>1, TimesType
  <2>4. ASSUME 2 * n <= (m - 1) * b PROVE FALSE
    <3>1. (2 * n) * FloatExact <= ((m - 1) * b) * FloatExact
      BY <2>1, <2>3, <2>4, TimesMonotonic
    <3> DEFINE x == ((m - 1) * b) * FloatExact
               y == (2 * n) * FloatExact
               z == n * (FloatExact + 4)
    <3>2. x \in Nat /\ y \in Nat /\ z \in Nat
      BY <2>1, <2>3, TimesType
    <3>3. x < z /\ z <= y /\ y <= x
      BY <2>1, <2>2, <3>1
    <3> HIDE DEF x, y, z
    <3> QED
      BY <3>2, <3>3
  <2> QED
    BY <2>1, <2>3, <2>4
<1> QED
  BY <1>1, <1>2

\* What the main thread computes before it starts the threads.
LEMMA InitSizes ==
  ASSUME Init
  PROVE  /\ number_derived_constraints \in DerivedCounts
         /\ block_size \in 1..(Word - 1)
         /\ total_cores \in 0..(Word - 1)
<1>1. /\ Word \in Nat /\ Word > 1 /\ MaxFiles \in Nat \ {0} /\ number_derived_constraints \in Nat
      /\ number_derived_constraints < Word /\ number_derived_constraints \in DerivedCounts
  BY WordAssumption DEF Init
<1>2. PICK argument \in BlockArguments :
        block_size = BlockSize(ReadBlockSize(argument), number_derived_constraints)
  BY DEF Init
<1>3. argument % Word \in 0..(Word - 1)
  BY <1>1, WordAssumption
<1>4. number_derived_constraints \div MaxFiles \in 0..number_derived_constraints
  <2>1. PICK q \in Int : q = number_derived_constraints \div MaxFiles
    BY <1>1
  <2>2. q * MaxFiles <= number_derived_constraints /\ number_derived_constraints < q * MaxFiles + MaxFiles
    BY <1>1, <2>1
  <2>3. q >= 0 /\ q <= q * MaxFiles
    BY <1>1, <2>2
  <2> QED
    BY <1>1, <2>1, <2>2, <2>3
<1>5. block_size \in 1..(Word - 1)
  BY <1>1, <1>2, <1>3, <1>4 DEF BlockSize, ReadBlockSize, Max2
<1>6. PICK concurrency \in Concurrency, blocks \in NumberBlocks(number_derived_constraints, block_size) :
        total_cores = Min2((2 * concurrency) % Word, blocks)
  BY DEF Init
<1>7. (2 * concurrency) % Word \in 0..(Word - 1)
  BY <1>1, <1>6, WordAssumption
<1>8. blocks \in Nat
  BY <1>1, <1>5, BlocksRounded
<1> QED
  BY <1>1, <1>5, <1>6, <1>7, <1>8 DEF Min2

LEMMA InitType == Init => TypeOK
<1> SUFFICES ASSUME Init PROVE TypeOK
  OBVIOUS
<1>1. Cores = 0..(0 - 1) /\ core \in [Cores -> {"test", "stride", "done"}]
  BY DEF Init, Cores
<1>2. derived_index \in [Cores -> 0..(Word - 1)]
  BY DEF Init, Cores
<1>3. IsABag(delayed)
  BY DEF Init, EmptyBag, SetToBag, IsABag
<1>4. \E n \in 0..total_cores : Cores = 0..(n - 1)
  BY <1>1, InitSizes, WordAssumption
<1>5. pc = "print_sol" /\ section \in [Section -> {"none", "write", "done"}]
  BY DEF Init
<1> QED
  BY <1>1, <1>2, <1>3, <1>4, <1>5, InitSizes DEF TypeOK

LEMMA NextType == TypeOK /\ [Next]_vars => TypeOK'
<1> SUFFICES ASSUME TypeOK, [Next]_vars PROVE TypeOK'
  OBVIOUS
<1>1. CASE StartCore
  <2>1. PICK n \in 0..(total_cores - 1) : n = Cardinality(Cores) /\ Cores' = 0..n
    BY <1>1, CoreAdded
  <2>2. total_cores \in Nat /\ total_cores' = total_cores
    BY <1>1 DEF StartCore, TypeOK
  <2>3. n + 1 \in 0..total_cores' /\ Cores' = 0..((n + 1) - 1)
    BY <2>1, <2>2
  <2>4. /\ core' \in [Cores' -> {"test", "stride", "done"}]
        /\ derived_index' \in [Cores' -> 0..(Word - 1)]
    BY <1>1, CoreAdded
  <2> QED
    BY <1>1, <2>3, <2>4 DEF StartCore, TypeOK
<1>2. ASSUME NEW x \in Section, WriteSection(x) PROVE TypeOK'
  <2>1. IsABag(delayed')
    BY <1>2, DispatchType DEF WriteSection, TypeOK
  <2>2. section' \in [Section -> {"none", "write", "done"}]
    BY <1>2 DEF WriteSection, TypeOK
  <2> QED
    BY <1>2, <2>1, <2>2 DEF WriteSection, TypeOK, Cores
<1>3. ASSUME NEW c \in Cores, WriteBlock(c) PROVE TypeOK'
  <2>1. IsABag(delayed')
    <3>1. \/ delayed' = delayed
          \/ delayed' = delayed (+) SetToBag({Block(derived_index[c])})
      BY <1>3 DEF WriteBlock
    <3> QED
      BY <3>1, DispatchType DEF TypeOK
  <2>2. /\ core' \in [Cores -> {"test", "stride", "done"}] /\ Cores' = Cores
        /\ pc' \in {"print_sol", "print_der", "join", "joined", "terminated"}
    BY <1>3 DEF WriteBlock, TypeOK, Cores
  <2> QED
    BY <1>3, <2>1, <2>2 DEF WriteBlock, TypeOK
<1>4. ASSUME NEW c \in Cores, Stride(c) PROVE TypeOK'
  <2>1. core' \in [Cores -> {"test", "stride", "done"}] /\ Cores' = Cores
    BY <1>4 DEF Stride, TypeOK, Cores
  <2>2. PICK cores \in ReadTotalCores :
          derived_index' = [derived_index EXCEPT ![c] = (@ + cores * block_size) % Word]
    BY <1>4 DEF Stride
  <2>3. cores \in Nat /\ block_size \in Nat /\ Word \in Nat /\ Word > 0
    BY WordAssumption DEF ReadTotalCores, TypeOK
  <2>4. derived_index[c] \in Nat /\ cores * block_size \in Nat
    BY <1>4, <2>3, TimesType DEF TypeOK
  <2>5. (derived_index[c] + cores * block_size) % Word \in 0..(Word - 1)
    BY <2>3, <2>4
  <2>6. derived_index' \in [Cores -> 0..(Word - 1)]
    BY <1>4, <2>2, <2>5 DEF TypeOK
  <2> QED
    BY <1>4, <2>1, <2>6 DEF Stride, TypeOK
<1>5. ASSUME NEW c \in Cores, LoopEnds(c) PROVE TypeOK'
  <2>1. core' \in [Cores -> {"test", "stride", "done"}] /\ Cores' = Cores
    BY <1>5 DEF LoopEnds, TypeOK, Cores
  <2> QED
    BY <1>5, <2>1 DEF LoopEnds, TypeOK
<1>6. CASE print_sol \/ StartSolcheck \/ Join
  BY <1>6 DEF print_sol, StartSolcheck, Join, TypeOK, Cores
<1>7. CASE UNCHANGED vars
  BY <1>7 DEF vars, TypeOK, Cores
<1> QED
  BY <1>1, <1>2, <1>3, <1>4, <1>5, <1>6, <1>7 DEF Next, MainStep, CoreStep, Terminating

\* Generation is well typed, whatever wraps around.
THEOREM TypeCorrect == Spec => []TypeOK
<1> QED
  BY InitType, NextType, PTL DEF Spec

(***************************************************************************)
(* The partition of the derivations into blocks.                           *)
(***************************************************************************)

\* The user asks for no block size or for one that is far from overflow, and the
\* number of cores is known and below half of what an unsigned long holds.
NothingWraps ==
  /\ \A argument \in BlockArguments : argument \in Nat /\ 4 * argument <= Word
  /\ \A concurrency \in Concurrency : concurrency > 0 /\ 2 * concurrency < Word

\* The frame of print_der is as it was when the threads read total_cores in it.
FrameIntact == Garbage = {}

SizesInv ==
  /\ number_derived_constraints > 0 => total_cores > 0 /\ 4 * block_size <= Word
  /\ total_cores > 0 => (total_cores - 1) * block_size < 2 * number_derived_constraints

\* The m-th block of a core begins here.
Turn(c, m) == (c + m * total_cores) * block_size

CoreInv ==
  \A c \in Cores :
    /\ \E m \in Nat : derived_index[c] = Turn(c, m)
    /\ core[c] = "stride" => derived_index[c] < number_derived_constraints
    /\ core[c] = "done" => derived_index[c] >= number_derived_constraints

\* The blocks a thread has passed have been dispatched, and nothing else has.
PassedBy(c, d) ==
  /\ \E m \in Nat : d = Turn(c, m)
  /\ d < derived_index[c] \/ (d = derived_index[c] /\ core[c] = "stride")

Passed == {d \in 0..(number_derived_constraints - 1) : \E c \in Cores : PassedBy(c, d)}

SectionsDone == {x \in Section : section[x] = "done"}

Dispatched == {File(x, {}) : x \in SectionsDone} \union {Block(d) : d \in Passed}

PhaseInv ==
  /\ pc # "terminated"
  /\ pc \in {"join", "joined"} => Cores = 0..(total_cores - 1)
  /\ pc = "joined" => AllDone
  /\ pc = "print_sol" => section["SOL"] = "none"
  /\ pc \in {"print_sol", "print_der"} => section["solcheck"] = "none"

PartitionInv ==
  /\ TypeOK
  /\ SizesInv
  /\ CoreInv
  /\ delayed = SetToBag(Dispatched)
  /\ PhaseInv

\* What the types of the sizes are.
LEMMA SizesType ==
  ASSUME TypeOK
  PROVE  /\ number_derived_constraints \in Nat /\ NumProblem \in Nat /\ Word \in Nat
         /\ block_size \in Nat /\ block_size > 0 /\ total_cores \in Nat
         /\ 4 * (NumProblem + number_derived_constraints) < Word
BY WordAssumption DEF TypeOK

\* A number has one remainder and one quotient.
LEMMA OneTurn ==
  ASSUME NEW T \in Nat, NEW c \in 0..(T - 1), NEW d \in 0..(T - 1), NEW m \in Nat, NEW n \in Nat,
         c + m * T = d + n * T
  PROVE  c = d /\ m = n
<1>1. m * T \in Nat /\ n * T \in Nat
  BY TimesType
<1>2. CASE m < n
  BY <1>1, <1>2, NextMultiple
<1>3. CASE n < m
  BY <1>1, <1>3, NextMultiple
<1> QED
  BY <1>1, <1>2, <1>3

LEMMA TurnType ==
  ASSUME TypeOK, NEW c \in Nat, NEW m \in Nat
  PROVE  /\ c + m * total_cores \in Nat
         /\ Turn(c, m) \in Nat
<1>1. m * total_cores \in Nat /\ block_size \in Nat
  BY SizesType, TimesType
<1>2. c + m * total_cores \in Nat
  BY <1>1
<1> QED
  BY <1>1, <1>2, TimesType DEF Turn

\* Two turns that begin at one index are the same.
LEMMA TurnsDiffer ==
  ASSUME TypeOK, NEW c \in 0..(total_cores - 1), NEW d \in 0..(total_cores - 1),
         NEW m \in Nat, NEW n \in Nat, Turn(c, m) = Turn(d, n)
  PROVE  c = d /\ m = n
<1> DEFINE x == c + m * total_cores
           y == d + n * total_cores
<1>1. x \in Nat /\ y \in Nat /\ block_size \in Nat /\ block_size > 0 /\ total_cores \in Nat
  BY SizesType, TurnType
<1>2. x * block_size = y * block_size
  BY DEF Turn
<1>3. x = y
  <2> HIDE DEF x, y
  <2>1. x * block_size \in Nat /\ y * block_size \in Nat
    BY <1>1, TimesType
  <2>2. CASE x < y
    BY <1>1, <1>2, <2>1, <2>2, NextMultiple
  <2>3. CASE y < x
    BY <1>1, <1>2, <2>1, <2>3, NextMultiple
  <2> QED
    BY <1>1, <2>2, <2>3
<1> QED
  BY <1>1, <1>3, OneTurn

\* A stride is to the next turn of the thread, and none begins in between.
LEMMA NextTurn ==
  ASSUME TypeOK, NEW c \in Nat, NEW m \in Nat
  PROVE  /\ Turn(c, m + 1) = Turn(c, m) + total_cores * block_size
         /\ \A n \in Nat : Turn(c, n) < Turn(c, m + 1) => Turn(c, n) <= Turn(c, m)
<1>1. total_cores \in Nat /\ block_size \in Nat
  BY SizesType
<1>2. /\ (m + 1) * total_cores = m * total_cores + total_cores
      /\ m * total_cores \in Nat
  BY <1>1, TimesType
<1>3. Turn(c, m + 1) = Turn(c, m) + total_cores * block_size
  BY <1>1, <1>2 DEF Turn
<1>4. ASSUME NEW n \in Nat, NEW k \in Nat, n <= k PROVE Turn(c, n) <= Turn(c, k)
  <2>1. n * total_cores <= k * total_cores
    BY <1>1, <1>4, TimesMonotonic
  <2>2. /\ c + n * total_cores \in Nat /\ c + k * total_cores \in Nat
        /\ c + n * total_cores <= c + k * total_cores
    <3>1. n * total_cores \in Nat /\ k * total_cores \in Nat
      BY <1>1, TimesType
    <3> QED
      BY <2>1, <3>1
  <2> QED
    BY <1>1, <2>2, TimesMonotonic DEF Turn
<1>5. ASSUME NEW n \in Nat, Turn(c, n) < Turn(c, m + 1) PROVE Turn(c, n) <= Turn(c, m)
  <2>1. CASE n <= m
    BY <1>4, <2>1
  <2>2. CASE m + 1 <= n
    <3>0. m + 1 \in Nat
      OBVIOUS
    <3>1. m + 1 \in Nat /\ Turn(c, m + 1) \in Nat /\ Turn(c, n) \in Nat
      BY <3>0, TurnType
    <3>2. Turn(c, m + 1) <= Turn(c, n)
      BY <1>4, <2>2, <3>1
    <3> QED
      BY <1>5, <3>1, <3>2
  <2> QED
    BY <2>1, <2>2
<1> QED
  BY <1>3, <1>5

\* A block where nothing wraps around.
LEMMA BlockRange ==
  ASSUME TypeOK, SizesInv, NEW d \in Nat, d < number_derived_constraints
  PROVE  /\ Block(d).kind = "DER"
         /\ Block(d).constraints =
              (NumProblem + d)..(Min2(NumProblem + d + block_size, number_total_constraints) - 1)
         /\ NumProblem + d \in Block(d).constraints
         /\ \A k \in Block(d).constraints : NumProblem + d <= k /\ k < NumProblem + d + block_size
         /\ Block(d).constraints \subseteq DerivedConstraint
<1>1. /\ number_derived_constraints \in Nat /\ NumProblem \in Nat /\ Word \in Nat
      /\ block_size \in Nat /\ block_size > 0 /\ 4 * block_size <= Word
      /\ 4 * (NumProblem + number_derived_constraints) < Word
  BY SizesType DEF SizesInv
<1>2. Start(d) = NumProblem + d
  <2>1. d + NumProblem \in Nat /\ d + NumProblem < Word
    BY <1>1
  <2> QED
    BY <1>1, <2>1, SmallModulo DEF Start
<1>3. (Start(d) + block_size) % Word = NumProblem + d + block_size
  <2>1. NumProblem + d + block_size \in Nat /\ NumProblem + d + block_size < Word
    BY <1>1
  <2> QED
    BY <1>1, <1>2, <2>1, SmallModulo
<1> DEFINE e == Min2(NumProblem + d + block_size, number_total_constraints)
<1>4. /\ e \in Nat /\ e > NumProblem + d /\ e <= NumProblem + number_derived_constraints /\ e < Word
      /\ e <= NumProblem + d + block_size
  BY <1>1 DEF Min2, number_total_constraints
<1>5. Finish(d) = e - 1
  <2>1. Finish(d) = (e - 1) % Word
    BY <1>3 DEF Finish
  <2> HIDE DEF e
  <2> QED
    BY <1>1, <1>4, <2>1, SmallModulo
<1>6. Block(d).kind = "DER" /\ Block(d).constraints = (NumProblem + d)..(e - 1)
  BY <1>2, <1>5 DEF Block, File
<1> HIDE DEF e
<1>9. ASSUME NEW k \in (NumProblem + d)..(e - 1) PROVE NumProblem + d <= k /\ k < NumProblem + d + block_size
  BY <1>1, <1>4
<1>7. NumProblem + d \in (NumProblem + d)..(e - 1)
  BY <1>1, <1>4
<1>8. (NumProblem + d)..(e - 1) \subseteq DerivedConstraint
  BY <1>1, <1>4 DEF DerivedConstraint, number_total_constraints
<1> QED
  BY <1>6, <1>7, <1>8, <1>9 DEF e

\* Blocks that begin at different indexes are different files.
LEMMA BlocksDiffer ==
  ASSUME TypeOK, SizesInv, NEW d \in Nat, d < number_derived_constraints,
         NEW e \in Nat, e < number_derived_constraints, Block(d) = Block(e)
  PROVE  d = e
<1>1. /\ NumProblem + d \in Block(e).constraints /\ NumProblem + e \in Block(d).constraints
      /\ NumProblem \in Nat
  BY BlockRange, SizesType
<1>2. NumProblem + e <= NumProblem + d /\ NumProblem + d <= NumProblem + e
  BY <1>1, BlockRange
<1> QED
  BY <1>1, <1>2

\* Two blocks of cores that share a constraint are one.
LEMMA BlocksApart ==
  ASSUME TypeOK, SizesInv, NEW i \in Nat, NEW j \in Nat, i < j,
         j * block_size < number_derived_constraints,
         NEW k \in Block(i * block_size).constraints
  PROVE  k \notin Block(j * block_size).constraints
<1>1. /\ block_size \in Nat /\ NumProblem \in Nat /\ number_derived_constraints \in Nat
      /\ i * block_size \in Nat /\ j * block_size \in Nat
  BY SizesType, TimesType
<1>2. i * block_size + block_size <= j * block_size
  BY <1>1, NextMultiple
<1> DEFINE d == i * block_size
           e == j * block_size
<1>3. d < number_derived_constraints
  BY <1>1, <1>2
<1> HIDE DEF d, e
<1>4. d \in Nat /\ e \in Nat /\ e < number_derived_constraints /\ d + block_size <= e
  BY <1>1, <1>2 DEF d, e
<1>5. k \in Block(d).constraints
  BY DEF d
<1>6. k < NumProblem + d + block_size
  BY <1>3, <1>4, <1>5, BlockRange
<1>7. ASSUME k \in Block(e).constraints PROVE NumProblem + e <= k
  BY <1>4, <1>7, BlockRange
<1>8. ASSUME k \in Block(e).constraints PROVE FALSE
  <2>1. k \in (NumProblem + d)..(Min2(NumProblem + d + block_size, number_total_constraints) - 1)
    BY <1>3, <1>4, <1>5, BlockRange
  <2>2. k \in Int
    BY <2>1
  <2> QED
    BY <1>1, <1>4, <1>6, <1>7, <1>8, <2>2
<1> QED
  BY <1>8 DEF e

\* Every derivation is in the block of a core.
LEMMA EveryDerivation ==
  ASSUME TypeOK, SizesInv, NEW k \in DerivedConstraint
  PROVE  \E c \in 0..(total_cores - 1) : \E m \in Nat :
           /\ Turn(c, m) \in Nat /\ Turn(c, m) < number_derived_constraints
           /\ k \in Block(Turn(c, m)).constraints
<1>1. /\ number_derived_constraints \in Nat /\ NumProblem \in Nat
      /\ block_size \in Nat /\ block_size > 0 /\ total_cores \in Nat
  BY SizesType
<1>2. k \in Int /\ NumProblem <= k /\ k < NumProblem + number_derived_constraints
  BY <1>1 DEF DerivedConstraint, number_total_constraints
<1>3. total_cores > 0 /\ k - NumProblem \in Nat
  BY <1>1, <1>2 DEF SizesInv
<1> DEFINE x == k - NumProblem
<1>4. PICK q \in Nat, r \in 0..(block_size - 1) : x = r + q * block_size
  <2> HIDE DEF x
  <2>1. x \in Nat
    BY <1>3 DEF x
  <2> QED
    BY <1>1, <2>1, Division
<1>5. PICK m \in Nat, c \in 0..(total_cores - 1) : q = c + m * total_cores
  BY <1>1, <1>3, Division
<1>6. Turn(c, m) = q * block_size /\ q * block_size \in Nat
  BY <1>1, <1>5, TimesType DEF Turn
<1> DEFINE d == q * block_size
<1>7. d \in Nat /\ k = NumProblem + d + r
  BY <1>1, <1>2, <1>4, <1>6
<1> HIDE DEF d, x
<1>8. d < number_derived_constraints
  BY <1>1, <1>2, <1>7
<1>9. k \in (NumProblem + d)..(Min2(NumProblem + d + block_size, number_total_constraints) - 1)
  BY <1>1, <1>2, <1>7 DEF Min2, number_total_constraints
<1>10. k \in Block(d).constraints
  BY <1>7, <1>8, <1>9, BlockRange
<1>11. Turn(c, m) = d
  BY <1>6 DEF d
<1> QED
  BY <1>7, <1>8, <1>10, <1>11

\* What PartitionInv says of a block that has been dispatched.
LEMMA PassedType ==
  ASSUME PartitionInv, NEW d \in Passed
  PROVE  /\ d \in Nat /\ d < number_derived_constraints
         /\ \E j \in Nat : d = j * block_size
<1>1. d \in 0..(number_derived_constraints - 1) /\ number_derived_constraints \in Nat
  BY SizesType DEF Passed, PartitionInv
<1>2. PICK c \in Cores, m \in Nat : d = Turn(c, m)
  BY DEF Passed, PassedBy
<1>3. c \in Nat
  BY DEF PartitionInv, TypeOK
<1>4. c + m * total_cores \in Nat /\ d = (c + m * total_cores) * block_size
  BY <1>2, <1>3, TurnType DEF PartitionInv, Turn
<1> QED
  BY <1>1, <1>4

LEMMA PartitionWrittenOnce == PartitionInv => WrittenOnce
<1> SUFFICES ASSUME PartitionInv PROVE WrittenOnce
  OBVIOUS
<1>1. TypeOK /\ SizesInv /\ DOMAIN delayed = Dispatched /\ \A f \in DOMAIN delayed : delayed[f] = 1
  BY DEF PartitionInv, SetToBag
<1>2. ASSUME NEW k \in DerivedConstraint, NEW f \in FilesAbout(k)
      PROVE  \E j \in Nat : /\ f = Block(j * block_size) /\ k \in f.constraints
                            /\ j * block_size < number_derived_constraints
  <2>1. f \in Dispatched /\ k \in f.constraints
    BY <1>1, <1>2 DEF FilesAbout, BagToSet
  <2>2. PICK d \in Passed : f = Block(d)
    BY <2>1 DEF Dispatched, File
  <2> QED
    BY <2>1, <2>2, PassedType
<1>3. ASSUME NEW k \in DerivedConstraint, NEW f \in FilesAbout(k), NEW g \in FilesAbout(k)
      PROVE  f = g
  <2>1. PICK i \in Nat : /\ f = Block(i * block_size) /\ k \in f.constraints
                         /\ i * block_size < number_derived_constraints
    BY <1>2
  <2>2. PICK j \in Nat : /\ g = Block(j * block_size) /\ k \in g.constraints
                         /\ j * block_size < number_derived_constraints
    BY <1>2
  <2>3. ~(i < j) /\ ~(j < i)
    BY <1>1, <2>1, <2>2, BlocksApart
  <2> QED
    BY <2>1, <2>2, <2>3
<1> QED
  BY <1>1, <1>3 DEF WrittenOnce, BagToSet

LEMMA PartitionDispatched == PartitionInv => EverythingDispatched
<1> SUFFICES ASSUME PartitionInv, pc = "joined"
             PROVE  /\ \A k \in DerivedConstraint : FilesAbout(k) # {}
                    /\ \A x \in Section : BagIn(File(x, {}), delayed)
  BY DEF EverythingDispatched
<1>1. /\ TypeOK /\ SizesInv /\ DOMAIN delayed = Dispatched
      /\ Cores = 0..(total_cores - 1) /\ AllDone /\ CoreInv
  BY DEF PartitionInv, SetToBag, PhaseInv
<1>2. ASSUME NEW k \in DerivedConstraint PROVE FilesAbout(k) # {}
  <2>1. PICK c \in 0..(total_cores - 1), m \in Nat :
          /\ Turn(c, m) \in Nat /\ Turn(c, m) < number_derived_constraints
          /\ k \in Block(Turn(c, m)).constraints
    BY <1>1, EveryDerivation
  <2>2. c \in Cores /\ derived_index[c] >= number_derived_constraints
    BY <1>1 DEF CoreInv, AllDone
  <2>3. derived_index[c] \in Nat /\ number_derived_constraints \in Nat
    <3>1. derived_index[c] \in 0..(Word - 1) /\ Word \in Nat
      BY <1>1, <2>2, SizesType DEF TypeOK
    <3> QED
      BY <1>1, <3>1, SizesType
  <2>4. Turn(c, m) \in Passed
    BY <2>1, <2>2, <2>3 DEF Passed, PassedBy
  <2>5. Block(Turn(c, m)) \in DOMAIN delayed
    BY <1>1, <2>4 DEF Dispatched
  <2> QED
    BY <2>1, <2>5 DEF FilesAbout, BagToSet
<1>3. ASSUME NEW x \in Section PROVE BagIn(File(x, {}), delayed)
  BY <1>1 DEF AllDone, SectionsDone, Dispatched, BagIn, BagToSet
<1> QED
  BY <1>2, <1>3

LEMMA PartitionNoEmptyBlock == PartitionInv => NoEmptyBlock
<1> SUFFICES ASSUME PartitionInv, NEW f \in BagToSet(delayed), f.kind = "DER"
             PROVE  f.constraints # {}
  BY DEF NoEmptyBlock
<1>1. TypeOK /\ SizesInv /\ f \in Dispatched
  BY DEF PartitionInv, SetToBag, BagToSet
<1>2. PICK d \in Passed : f = Block(d)
  BY <1>1 DEF Dispatched, File, SectionsDone, Section
<1> QED
  BY <1>1, <1>2, PassedType, BlockRange

LEMMA InitPartition == NothingWraps /\ Init => PartitionInv
<1> SUFFICES ASSUME NothingWraps, Init PROVE PartitionInv
  OBVIOUS
<1> DEFINE n == number_derived_constraints
<1>1. TypeOK
  BY InitType
<1>2. /\ n \in Nat /\ Word \in Nat /\ Word > 0 /\ 4 * n < Word /\ NumProblem \in Nat
      /\ block_size \in Nat \ {0} /\ total_cores \in Nat /\ MaxFiles \in Nat \ {0}
  BY <1>1, SizesType, WordAssumption
<1>3. n > 0 => 4 * block_size <= Word
  <2>1. PICK argument \in BlockArguments : block_size = BlockSize(ReadBlockSize(argument), n)
    BY DEF Init
  <2>2. argument \in Nat /\ 4 * argument <= Word
    BY <2>1 DEF NothingWraps
  <2>3. argument < Word
    BY <1>2, <2>2
  <2>4. ReadBlockSize(argument) = argument
    BY <1>2, <2>2, <2>3, SmallModulo DEF ReadBlockSize
  <2>5. n \div MaxFiles \in Int /\ n \div MaxFiles <= n
    <3>1. PICK q \in Int : q = n \div MaxFiles
      BY <1>2
    <3>2. q * MaxFiles <= n
      BY <1>2, <3>1
    <3>3. q <= 0 \/ q <= q * MaxFiles
      BY <1>2, <3>1
    <3> QED
      BY <1>2, <3>1, <3>2, <3>3
  <2>6. block_size = argument \/ block_size = 1 \/ block_size = n \div MaxFiles
    BY <2>1, <2>4 DEF BlockSize, Max2
  <2> QED
    BY <1>2, <2>2, <2>5, <2>6
<1>4. PICK concurrency \in Concurrency, blocks \in NumberBlocks(n, block_size) :
        total_cores = Min2((2 * concurrency) % Word, blocks)
  BY DEF Init
<1>5. 2 * concurrency \in Nat /\ (2 * concurrency) % Word = 2 * concurrency /\ 2 * concurrency > 0
  BY <1>2, <1>4, SmallModulo, WordAssumption DEF NothingWraps
<1>6. /\ blocks \in Nat
      /\ n > 0 => blocks > 0 /\ (blocks - 1) * block_size < 2 * n
      /\ n = 0 => blocks = 0
  BY <1>2, <1>4, BlocksRounded
<1>7. total_cores <= blocks /\ (blocks > 0 => total_cores > 0)
  BY <1>4, <1>5, <1>6 DEF Min2
<1>8. total_cores > 0 => (total_cores - 1) * block_size < 2 * n
  <2> SUFFICES ASSUME total_cores > 0 PROVE (total_cores - 1) * block_size < 2 * n
    OBVIOUS
  <2>1. blocks > 0 /\ n > 0
    BY <1>2, <1>6, <1>7
  <2>2. total_cores - 1 \in Nat /\ blocks - 1 \in Nat /\ total_cores - 1 <= blocks - 1
    BY <1>2, <1>6, <1>7, <2>1
  <2>3. (total_cores - 1) * block_size <= (blocks - 1) * block_size
    BY <1>2, <2>2, TimesMonotonic
  <2>4. (total_cores - 1) * block_size \in Nat /\ (blocks - 1) * block_size \in Nat
    BY <1>2, <2>2, TimesType
  <2> QED
    BY <1>2, <1>6, <2>1, <2>3, <2>4
<1>9. SizesInv
  BY <1>2, <1>3, <1>6, <1>7, <1>8 DEF SizesInv
<1>10. Cores = {} /\ SectionsDone = {} /\ Passed = {}
  BY DEF Init, Cores, SectionsDone, Passed
<1>11. delayed = SetToBag(Dispatched)
  BY <1>10 DEF Init, Dispatched, EmptyBag
<1> QED
  BY <1>1, <1>9, <1>10, <1>11 DEF PartitionInv, CoreInv, PhaseInv, Init, Section

\* What does not change, and what is computed from it.
LEMMA SizesKept ==
  ASSUME [Next]_vars
  PROVE  /\ number_derived_constraints' = number_derived_constraints
         /\ block_size' = block_size /\ total_cores' = total_cores
         /\ \A c, m : Turn(c, m)' = Turn(c, m)
         /\ \A d : Block(d)' = Block(d)
<1>1. UNCHANGED <<number_derived_constraints, block_size, total_cores>>
  BY DEF Next, vars, MainStep, CoreStep, Terminating, print_sol, StartCore, StartSolcheck, Join,
         WriteSection, WriteBlock, Stride, LoopEnds
<1> QED
  BY <1>1 DEF Turn, Block, File, Start, Finish, number_total_constraints

\* A file that is dispatched for the first time is in the bag once.
LEMMA DispatchOnce ==
  ASSUME NEW S, NEW f, f \notin S
  PROVE  SetToBag(S) (+) SetToBag({f}) = SetToBag(S \union {f})
BY DEF (+), SetToBag

\* A step that starts, passes or dispatches nothing.
LEMMA NothingDispatched ==
  ASSUME PartitionInv, [Next]_vars, UNCHANGED <<section, core, derived_index, delayed>>
  PROVE  delayed' = SetToBag(Dispatched') /\ CoreInv'
<1>1. Cores' = Cores /\ Passed' = Passed /\ SectionsDone' = SectionsDone
  BY SizesKept DEF Cores, Passed, PassedBy, SectionsDone
<1>2. Dispatched' = Dispatched
  BY <1>1, SizesKept DEF Dispatched
<1>3. CoreInv'
  BY <1>1, SizesKept DEF PartitionInv, CoreInv
<1> QED
  BY <1>2, <1>3 DEF PartitionInv

\* A core's thread is started in front of its first block.
LEMMA StartCorePartition ==
  ASSUME PartitionInv, StartCore, [Next]_vars
  PROVE  PartitionInv'
<1>1. PICK c \in 0..(total_cores - 1) :
      /\ Cores = 0..(c - 1) /\ Cores' = 0..c
      /\ \A x \in Cores : core'[x] = core[x] /\ derived_index'[x] = derived_index[x]
      /\ core'[c] = "test" /\ derived_index'[c] = (c * block_size) % Word
  BY CoreAdded DEF PartitionInv
<1>2. TypeOK /\ TypeOK' /\ SizesInv /\ CoreInv /\ delayed = SetToBag(Dispatched) /\ PhaseInv
  BY NextType DEF PartitionInv
<1>3. /\ total_cores \in Nat /\ block_size \in Nat /\ Word \in Nat
      /\ number_derived_constraints \in Nat /\ NumProblem \in Nat
      /\ 4 * (NumProblem + number_derived_constraints) < Word
  BY <1>2, SizesType
<1>4. c \in Nat /\ c \notin Cores /\ Cores' = Cores \union {c}
  BY <1>1, <1>3
<1>5. c * block_size \in Nat /\ c * block_size < Word
  <2>1. total_cores - 1 \in Nat /\ c <= total_cores - 1 /\ total_cores > 0
    BY <1>1, <1>3
  <2>2. c * block_size <= (total_cores - 1) * block_size
    BY <1>3, <1>4, <2>1, TimesMonotonic
  <2>3. c * block_size \in Nat /\ (total_cores - 1) * block_size \in Nat
    BY <1>3, <1>4, <2>1, TimesType
  <2>4. (total_cores - 1) * block_size < 2 * number_derived_constraints
    BY <1>2, <2>1 DEF SizesInv
  <2> QED
    BY <1>3, <2>2, <2>3, <2>4
<1>6. derived_index'[c] = Turn(c, 0)
  <2>1. derived_index'[c] = c * block_size
    BY <1>1, <1>3, <1>5, SmallModulo
  <2>2. c + 0 * total_cores = c
    BY <1>3, <1>4
  <2> QED
    BY <2>1, <2>2 DEF Turn
<1>7. CoreInv'
  <2>1. ASSUME NEW x \in Cores'
        PROVE  /\ \E m \in Nat : derived_index'[x] = Turn(x, m)
               /\ core'[x] = "stride" => derived_index'[x] < number_derived_constraints
               /\ core'[x] = "done" => derived_index'[x] >= number_derived_constraints
    <3>1. CASE x = c
      BY <1>1, <1>6, <3>1
    <3>2. CASE x \in Cores
      BY <1>1, <1>2, <3>2 DEF CoreInv
    <3> QED
      BY <1>4, <3>1, <3>2
  <2> QED
    BY <2>1, SizesKept DEF CoreInv
<1>8. ASSUME NEW d \in Nat, PassedBy(c, d)' PROVE FALSE
  <2>1. PICK m \in Nat : d = Turn(c, m)
    BY <1>8, SizesKept DEF PassedBy
  <2>2. d < Turn(c, 0)
    BY <1>1, <1>6, <1>8 DEF PassedBy
  <2>3. c <= c + m * total_cores /\ c + m * total_cores \in Nat
    <3>1. m * total_cores \in Nat
      BY <1>3, TimesType
    <3> QED
      BY <1>4, <3>1
  <2>4. c * block_size <= d
    BY <1>3, <1>4, <2>1, <2>3, TimesMonotonic DEF Turn
  <2>5. Turn(c, 0) = c * block_size
    BY <1>3, <1>4 DEF Turn
  <2> QED
    BY <1>5, <2>2, <2>4, <2>5
<1>9. \A x \in Cores : \A d : PassedBy(x, d)' <=> PassedBy(x, d)
  BY <1>1, SizesKept DEF PassedBy
<1>10. Passed' = Passed
  <2>1. ASSUME NEW d \in 0..(number_derived_constraints - 1)
        PROVE  (\E x \in Cores' : PassedBy(x, d)') <=> (\E x \in Cores : PassedBy(x, d))
    <3>1. d \in Nat
      BY <1>3
    <3> QED
      BY <1>4, <1>8, <1>9, <3>1
  <2> QED
    BY <2>1, SizesKept DEF Passed
<1>11. UNCHANGED <<pc, section, delayed>>
  BY DEF StartCore
<1>12. Dispatched' = Dispatched
  BY <1>10, <1>11, SizesKept DEF Dispatched, SectionsDone
<1>13. SizesInv'
  BY <1>2, SizesKept DEF SizesInv
<1>14. PhaseInv'
  BY <1>2, <1>11 DEF PhaseInv, StartCore
<1> QED
  BY <1>2, <1>7, <1>11, <1>12, <1>13, <1>14 DEF PartitionInv

LEMMA WriteSectionPartition ==
  ASSUME PartitionInv, NEW x \in Section, WriteSection(x), [Next]_vars
  PROVE  PartitionInv'
<1>1. /\ section[x] = "write" /\ section' = [section EXCEPT ![x] = "done"]
      /\ delayed' = delayed (+) SetToBag({File(x, {})})
      /\ UNCHANGED <<pc, core, derived_index>> /\ pc # "joined"
  BY DEF WriteSection, Running
<1>2. TypeOK /\ TypeOK' /\ SizesInv /\ CoreInv /\ delayed = SetToBag(Dispatched) /\ PhaseInv
  BY NextType DEF PartitionInv
<1>3. SectionsDone' = SectionsDone \union {x} /\ x \notin SectionsDone
  BY <1>1, <1>2 DEF SectionsDone, TypeOK
<1>4. Cores' = Cores /\ Passed' = Passed
  BY <1>1, SizesKept DEF Cores, Passed, PassedBy
<1>5. Dispatched' = Dispatched \union {File(x, {})}
  BY <1>3, <1>4, SizesKept DEF Dispatched
<1>6. File(x, {}) \notin Dispatched
  <2>1. ASSUME NEW y \in SectionsDone PROVE File(x, {}) # File(y, {})
    BY <1>3, <2>1 DEF File
  <2>2. ASSUME NEW d \in Passed PROVE File(x, {}) # Block(d)
    <3>1. Block(d).kind = "DER"
      BY <1>2, PassedType, BlockRange
    <3> QED
      BY <3>1 DEF File, Section
  <2> QED
    BY <2>1, <2>2 DEF Dispatched
<1>7. delayed' = SetToBag(Dispatched')
  BY <1>1, <1>2, <1>5, <1>6, DispatchOnce
<1>8. CoreInv' /\ SizesInv'
  BY <1>1, <1>2, <1>4, SizesKept DEF CoreInv, SizesInv
<1>9. PhaseInv'
  BY <1>1, <1>2, <1>4, SizesKept DEF PhaseInv, TypeOK, Section
<1> QED
  BY <1>2, <1>7, <1>8, <1>9 DEF PartitionInv

\* The block that is written is the next of its thread and of no other.
LEMMA WriteBlockPartition ==
  ASSUME PartitionInv, NEW c \in Cores, WriteBlock(c), [Next]_vars
  PROVE  PartitionInv'
<1> DEFINE d == derived_index[c]
<1>1. TypeOK /\ TypeOK' /\ SizesInv /\ CoreInv /\ delayed = SetToBag(Dispatched) /\ PhaseInv
  BY NextType DEF PartitionInv
<1>2. /\ core[c] = "test" /\ d < number_derived_constraints /\ pc # "joined"
      /\ UNCHANGED <<section, derived_index>>
  BY DEF WriteBlock, Running
<1>3. /\ d \in Nat /\ number_derived_constraints \in Nat /\ NumProblem \in Nat
  <2>1. d \in 0..(Word - 1) /\ Word \in Nat
    BY <1>1, SizesType DEF TypeOK
  <2> QED
    BY <1>1, <2>1, SizesType
<1> HIDE DEF d
<1>4. /\ core' = [core EXCEPT ![c] = "stride"]
      /\ delayed' = delayed (+) SetToBag({Block(d)})
      /\ UNCHANGED pc
  <2>1. ASSUME NEW k \in Block(d).constraints PROVE ~(k >= number_total_constraints)
    <3>1. k \in DerivedConstraint
      BY <1>1, <1>2, <1>3, BlockRange
    <3> QED
      BY <1>3, <3>1 DEF DerivedConstraint, number_total_constraints
  <2> QED
    BY <2>1 DEF WriteBlock, d
<1>5. Cores' = Cores /\ core \in [Cores -> {"test", "stride", "done"}]
  BY <1>1, <1>4 DEF Cores, TypeOK
<1>6. core'[c] = "stride" /\ \A x \in Cores \ {c} : core'[x] = core[x]
  BY <1>4, <1>5
<1>7. CoreInv'
  BY <1>1, <1>2, <1>5, <1>6, SizesKept DEF CoreInv, d
<1>8. \E m \in Nat : d = Turn(c, m)
  BY <1>1 DEF CoreInv, d
<1>9. Passed' = Passed \union {d}
  <2>1. ASSUME NEW e \in 0..(number_derived_constraints - 1)
        PROVE  PassedBy(c, e)' <=> PassedBy(c, e) \/ e = d
    BY <1>2, <1>6, <1>8, SizesKept DEF PassedBy, d
  <2>2. ASSUME NEW e, NEW x \in Cores \ {c} PROVE PassedBy(x, e)' <=> PassedBy(x, e)
    BY <1>2, <1>6, SizesKept DEF PassedBy
  <2>3. d \in 0..(number_derived_constraints - 1)
    BY <1>2, <1>3
  <2>4. Passed' = {e \in 0..(number_derived_constraints - 1) : \E x \in Cores : PassedBy(x, e)'}
    BY <1>5, SizesKept DEF Passed
  <2>5. ASSUME NEW e \in 0..(number_derived_constraints - 1)
        PROVE  (\E x \in Cores : PassedBy(x, e)') <=> ((\E x \in Cores : PassedBy(x, e)) \/ e = d)
    BY <2>1, <2>2
  <2> QED
    BY <2>3, <2>4, <2>5 DEF Passed
<1>10. Dispatched' = Dispatched \union {Block(d)}
  BY <1>2, <1>9, SizesKept DEF Dispatched, SectionsDone
<1>11. d \notin Passed
  <2> SUFFICES ASSUME NEW x \in Cores, PassedBy(x, d) PROVE FALSE
    BY DEF Passed
  <2>1. PICK m \in Nat, n \in Nat : d = Turn(c, m) /\ d = Turn(x, n)
    BY <1>8 DEF PassedBy
  <2>2. c \in 0..(total_cores - 1) /\ x \in 0..(total_cores - 1)
    BY <1>1 DEF TypeOK
  <2>3. x = c
    BY <1>1, <2>1, <2>2, TurnsDiffer
  <2> QED
    BY <1>2, <1>3, <2>3 DEF PassedBy, d
<1>12. Block(d) \notin Dispatched
  <2>1. ASSUME NEW e \in Passed PROVE Block(d) # Block(e)
    BY <1>1, <1>2, <1>3, <1>11, PassedType, BlocksDiffer
  <2>2. ASSUME NEW y \in SectionsDone PROVE Block(d) # File(y, {})
    <3>1. Block(d).kind = "DER"
      BY <1>1, <1>2, <1>3, BlockRange
    <3> QED
      BY <3>1 DEF File, Section, SectionsDone
  <2> QED
    BY <2>1, <2>2 DEF Dispatched
<1>13. delayed' = SetToBag(Dispatched')
  BY <1>1, <1>4, <1>10, <1>12, DispatchOnce
<1>14. SizesInv'
  BY <1>1, SizesKept DEF SizesInv
<1>15. PhaseInv'
  BY <1>1, <1>2, <1>4, <1>5, SizesKept DEF PhaseInv
<1> QED
  BY <1>1, <1>7, <1>13, <1>14, <1>15 DEF PartitionInv

\* A stride is not empty and does not wrap around.
LEMMA StrideFits ==
  ASSUME TypeOK, SizesInv, CoreInv, NEW c \in Cores, core[c] = "stride"
  PROVE  /\ total_cores * block_size \in Nat \ {0}
         /\ derived_index[c] + total_cores * block_size < Word
<1> DEFINE d == derived_index[c]
           y == total_cores * block_size
<1>1. /\ number_derived_constraints \in Nat /\ total_cores \in Nat /\ block_size \in Nat /\ Word \in Nat
      /\ NumProblem \in Nat /\ 4 * (NumProblem + number_derived_constraints) < Word
  BY SizesType
<1>2. d \in Nat /\ d < number_derived_constraints
  BY <1>1 DEF TypeOK, CoreInv
<1>3. total_cores > 0 /\ 4 * block_size <= Word /\ block_size > 0
  BY <1>1, <1>2, SizesType DEF SizesInv
<1>4. (total_cores - 1) * block_size < 2 * number_derived_constraints
  BY <1>3 DEF SizesInv
<1>5. (total_cores - 1) * block_size = y - block_size
  BY <1>1
<1>6. y \in Nat
  BY <1>1, TimesType
<1>7. 1 * block_size <= y
  BY <1>1, <1>3, TimesMonotonic
<1>8. y < 2 * number_derived_constraints + block_size
  BY <1>1, <1>4, <1>5, <1>6
<1> HIDE DEF d, y
<1>9. d + y < Word /\ y > 0
  BY <1>1, <1>2, <1>3, <1>6, <1>7, <1>8
<1> QED
  BY <1>6, <1>9 DEF d, y

\* A stride: total_cores blocks on, of which the others write all but one.
LEMMA StridePartition ==
  ASSUME FrameIntact, PartitionInv, NEW c \in Cores, Stride(c), [Next]_vars
  PROVE  PartitionInv'
<1> DEFINE d == derived_index[c]
<1>1. TypeOK /\ TypeOK' /\ SizesInv /\ CoreInv /\ delayed = SetToBag(Dispatched) /\ PhaseInv
  BY NextType DEF PartitionInv
<1>2. /\ core[c] = "stride" /\ core' = [core EXCEPT ![c] = "test"] /\ pc # "joined"
      /\ derived_index' = [derived_index EXCEPT ![c] = (@ + total_cores * block_size) % Word]
      /\ UNCHANGED <<pc, section, delayed>>
  BY DEF Stride, Running, ReadTotalCores, FrameIntact
<1>3. /\ number_derived_constraints \in Nat /\ total_cores \in Nat /\ block_size \in Nat /\ Word \in Nat
      /\ NumProblem \in Nat /\ 4 * (NumProblem + number_derived_constraints) < Word
  BY <1>1, SizesType
<1>4. d \in Nat /\ d < number_derived_constraints /\ c \in Nat
  BY <1>1, <1>2, <1>3 DEF TypeOK, CoreInv
<1>5. PICK m \in Nat : d = Turn(c, m)
  BY <1>1 DEF CoreInv
<1>6. /\ Turn(c, m + 1) = d + total_cores * block_size /\ m + 1 \in Nat
      /\ \A n \in Nat : Turn(c, n) < Turn(c, m + 1) => Turn(c, n) <= d
  BY <1>1, <1>4, <1>5, NextTurn
<1>7. total_cores * block_size \in Nat \ {0} /\ d + total_cores * block_size < Word
  BY <1>1, <1>2, StrideFits
<1>8. /\ Cores' = Cores /\ core'[c] = "test"
      /\ \A x \in Cores \ {c} : core'[x] = core[x] /\ derived_index'[x] = derived_index[x]
      /\ derived_index'[c] = (d + total_cores * block_size) % Word
  BY <1>1, <1>2 DEF Cores, TypeOK
<1> HIDE DEF d
<1>9. derived_index'[c] = Turn(c, m + 1)
  <2> DEFINE z == d + total_cores * block_size
  <2>1. z \in Nat /\ z < Word
    BY <1>4, <1>7
  <2> HIDE DEF z
  <2>2. z % Word = z
    BY <1>3, <2>1, SmallModulo
  <2> QED
    BY <1>6, <1>8, <2>2 DEF z
<1>10. CoreInv'
  <2>1. ASSUME NEW x \in Cores
        PROVE  /\ \E n \in Nat : derived_index'[x] = Turn(x, n)
               /\ core'[x] = "stride" => derived_index'[x] < number_derived_constraints
               /\ core'[x] = "done" => derived_index'[x] >= number_derived_constraints
    <3>1. CASE x = c
      BY <1>6, <1>8, <1>9, <3>1
    <3>2. CASE x \in Cores \ {c}
      BY <1>1, <1>8, <3>2 DEF CoreInv
    <3> QED
      BY <3>1, <3>2
  <2> QED
    BY <1>8, <2>1, SizesKept DEF CoreInv
<1>11. ASSUME NEW e \in 0..(number_derived_constraints - 1) PROVE PassedBy(c, e)' <=> PassedBy(c, e)
  <2>1. PassedBy(c, e)' <=> (\E n \in Nat : e = Turn(c, n)) /\ e < Turn(c, m + 1)
    BY <1>8, <1>9, SizesKept DEF PassedBy
  <2>2. PassedBy(c, e) <=> (\E n \in Nat : e = Turn(c, n)) /\ e <= d
    <3>1. e < d \/ e = d <=> e <= d
      BY <1>3, <1>4
    <3> QED
      BY <1>2, <3>1 DEF PassedBy, d
  <2>3. d < Turn(c, m + 1)
    BY <1>4, <1>6, <1>7
  <2>4. Turn(c, m + 1) \in Nat /\ e \in Nat
    BY <1>3, <1>4, <1>6, <1>7
  <2>5. e <= d => e < Turn(c, m + 1)
    BY <1>4, <2>3, <2>4
  <2> QED
    BY <1>6, <2>1, <2>2, <2>5
<1>12. Passed' = Passed
  <2>1. \A x \in Cores \ {c} : \A e : PassedBy(x, e)' <=> PassedBy(x, e)
    BY <1>8, SizesKept DEF PassedBy
  <2>2. Passed' = {e \in 0..(number_derived_constraints - 1) : \E x \in Cores : PassedBy(x, e)'}
    BY <1>8, SizesKept DEF Passed
  <2>3. ASSUME NEW e \in 0..(number_derived_constraints - 1)
        PROVE  (\E x \in Cores : PassedBy(x, e)') <=> (\E x \in Cores : PassedBy(x, e))
    BY <1>11, <2>1
  <2> QED
    BY <2>2, <2>3 DEF Passed
<1>13. Dispatched' = Dispatched
  BY <1>2, <1>12, SizesKept DEF Dispatched, SectionsDone
<1>14. SizesInv' /\ PhaseInv'
  BY <1>1, <1>2, <1>8, SizesKept DEF SizesInv, PhaseInv
<1> QED
  BY <1>1, <1>2, <1>10, <1>13, <1>14 DEF PartitionInv

\* A thread that leaves the loop has passed what it is to write.
LEMMA LoopEndsPartition ==
  ASSUME PartitionInv, NEW c \in Cores, LoopEnds(c), [Next]_vars
  PROVE  PartitionInv'
<1>1. TypeOK /\ TypeOK' /\ SizesInv /\ CoreInv /\ delayed = SetToBag(Dispatched) /\ PhaseInv
  BY NextType DEF PartitionInv
<1>2. /\ core[c] = "test" /\ core' = [core EXCEPT ![c] = "done"] /\ pc # "joined"
      /\ derived_index[c] >= number_derived_constraints
      /\ UNCHANGED <<pc, section, derived_index, delayed>>
  BY DEF LoopEnds, Running
<1>3. Cores' = Cores /\ core'[c] = "done" /\ \A x \in Cores \ {c} : core'[x] = core[x]
  BY <1>1, <1>2 DEF Cores, TypeOK
<1>4. CoreInv'
  BY <1>1, <1>2, <1>3, SizesKept DEF CoreInv
<1>5. \A x \in Cores : \A d : PassedBy(x, d)' <=> PassedBy(x, d)
  BY <1>2, <1>3, SizesKept DEF PassedBy
<1>6. Dispatched' = Dispatched
  BY <1>2, <1>3, <1>5, SizesKept DEF Dispatched, SectionsDone, Passed
<1>7. SizesInv' /\ PhaseInv'
  BY <1>1, <1>2, <1>3, SizesKept DEF SizesInv, PhaseInv
<1> QED
  BY <1>1, <1>2, <1>4, <1>6, <1>7 DEF PartitionInv

\* The main thread dispatches nothing.
LEMMA MainPartition ==
  ASSUME PartitionInv, print_sol \/ StartSolcheck \/ Join, [Next]_vars
  PROVE  PartitionInv'
<1>1. TypeOK /\ TypeOK' /\ SizesInv /\ CoreInv /\ delayed = SetToBag(Dispatched) /\ PhaseInv
  BY NextType DEF PartitionInv
<1>2. UNCHANGED <<core, derived_index, delayed>>
  BY DEF print_sol, StartSolcheck, Join
<1>3. Cores' = Cores /\ Passed' = Passed /\ CoreInv' /\ SizesInv'
  BY <1>1, <1>2, SizesKept DEF Cores, Passed, PassedBy, CoreInv, SizesInv
<1>4. SectionsDone' = SectionsDone
  BY <1>1 DEF print_sol, StartSolcheck, Join, SectionsDone, PhaseInv, TypeOK, Section
<1>5. Dispatched' = Dispatched
  BY <1>3, <1>4, SizesKept DEF Dispatched
<1>6. PhaseInv'
  <2>1. CASE print_sol
    BY <1>1, <2>1 DEF print_sol, PhaseInv, TypeOK, Section
  <2>2. CASE StartSolcheck
    <3>1. PICK n \in 0..total_cores : Cores = 0..(n - 1)
      BY <1>1 DEF TypeOK
    <3>2. n \in Nat /\ total_cores \in Nat
      BY <1>1, <3>1, SizesType
    <3>3. Cardinality(Cores) = n /\ Cardinality(Cores) >= total_cores
      BY <2>2, <3>1, <3>2, CountedCores DEF StartSolcheck
    <3>4. Cores = 0..(total_cores - 1)
      <4>1. n = total_cores
        BY <3>1, <3>2, <3>3
      <4> QED
        BY <3>1, <4>1
    <3> QED
      BY <1>3, <2>2, <3>4, SizesKept DEF StartSolcheck, PhaseInv
  <2>3. CASE Join
    BY <1>1, <1>3, <2>3, SizesKept DEF Join, PhaseInv, AllDone
  <2> QED
    BY <2>1, <2>2, <2>3
<1> QED
  BY <1>1, <1>2, <1>3, <1>5, <1>6 DEF PartitionInv

LEMMA NextPartition == FrameIntact /\ PartitionInv /\ [Next]_vars => PartitionInv'
<1> SUFFICES ASSUME FrameIntact, PartitionInv, [Next]_vars PROVE PartitionInv'
  OBVIOUS
<1>1. CASE StartCore
  BY <1>1, StartCorePartition
<1>2. CASE print_sol \/ StartSolcheck \/ Join
  BY <1>2, MainPartition
<1>3. ASSUME NEW x \in Section, WriteSection(x) PROVE PartitionInv'
  BY <1>3, WriteSectionPartition
<1>4. ASSUME NEW c \in Cores, CoreStep(c) PROVE PartitionInv'
  BY <1>4, WriteBlockPartition, StridePartition, LoopEndsPartition DEF CoreStep
<1>5. CASE UNCHANGED vars
  <2>1. CoreInv' /\ delayed' = SetToBag(Dispatched')
    BY <1>5, NothingDispatched DEF vars
  <2>2. TypeOK' /\ SizesInv' /\ PhaseInv'
    BY <1>5, NextType, SizesKept DEF vars, PartitionInv, SizesInv, PhaseInv, AllDone, Cores
  <2> QED
    BY <2>1, <2>2 DEF PartitionInv
<1> QED
  BY <1>1, <1>2, <1>3, <1>4, <1>5 DEF Next, MainStep, Terminating

\* Where nothing wraps around and the frame of print_der stays as it was, what has
\* been dispatched is at all times the blocks that the threads have passed, each
\* once, and the sections that are done.
THEOREM PartitionInvariant ==
  ASSUME NothingWraps, FrameIntact
  PROVE  Spec => []PartitionInv
<1>1. Init => PartitionInv
  BY InitPartition
<1>2. PartitionInv /\ [Next]_vars => PartitionInv'
  BY NextPartition
<1> QED
  BY <1>1, <1>2, PTL DEF Spec

\* No two threads of Certificate::print_der write one derivation, and no file
\* is dispatched twice.
THEOREM DerivationsWrittenOnce ==
  ASSUME NothingWraps, FrameIntact
  PROVE  Spec => []WrittenOnce
BY PartitionInvariant, PartitionWrittenOnce, PTL

\* When Certificate::print_formula returns, every derivation and both sections
\* have been dispatched.
THEOREM AllDerivationsDispatched ==
  ASSUME NothingWraps, FrameIntact
  PROVE  Spec => []EverythingDispatched
BY PartitionInvariant, PartitionDispatched, PTL

\* No thread of Certificate::print_der writes a file without a derivation.
THEOREM BlocksNotEmpty ==
  ASSUME NothingWraps, FrameIntact
  PROVE  Spec => []NoEmptyBlock
BY PartitionInvariant, PartitionNoEmptyBlock, PTL

(***************************************************************************)
(* The threads end: each step leaves less to do.                           *)
(***************************************************************************)

\* No thread of Certificate::print_der asks for a derivation past the last one.
THEOREM NoDerivationMissing ==
  ASSUME NothingWraps, FrameIntact
  PROVE  Spec => []DerivationsExist
<1>1. PartitionInv => DerivationsExist
  BY DEF PartitionInv, PhaseInv, DerivationsExist
<1> QED
  BY <1>1, PartitionInvariant, PTL

\* What is still to do does not become more where the phases, the sections and the
\* loops only go on.
LEMMA NoStepComesBack ==
  ASSUME TypeOK, TypeOK', UNCHANGED <<number_derived_constraints, total_cores>>,
         Phase[pc] <= Phase[pc'],
         \A x \in Section : section[x] = "done" => section'[x] = "done",
         Cores \subseteq Cores',
         \A c \in Cores :
           /\ \/ derived_index[c] < derived_index'[c]
              \/ derived_index'[c] = derived_index[c] /\ (core'[c] = "test" => core[c] = "test")
           /\ core[c] = "done" => core'[c] = "done"
  PROVE  \A x \in DOMAIN Ahead : Ahead'[x] \subseteq Ahead[x]
<1> DEFINE cores == 0..(total_cores - 1)
           turns == cores \X (0..(number_derived_constraints - 1))
<1>1. Ahead'.main \subseteq Ahead.main
  <2>1. Phase[pc] \in 1..4 /\ Phase[pc'] \in 1..4
    BY DEF TypeOK, Phase
  <2> QED
    BY <2>1 DEF Ahead
<1>2. Ahead'.sections \subseteq Ahead.sections
  BY DEF Ahead
<1>3. Ahead'.starts \subseteq Ahead.starts
  BY DEF Ahead
<1>4. ASSUME NEW c \in cores, NEW d \in 0..(number_derived_constraints - 1)
      PROVE  /\ BlockAhead(c, d)' => BlockAhead(c, d)
             /\ StrideAhead(c, d)' => StrideAhead(c, d)
  <2>1. CASE c \notin Cores
    BY <2>1 DEF BlockAhead, StrideAhead
  <2>2. CASE c \in Cores
    <3>1. c \in Cores' /\ number_derived_constraints \in Nat /\ Word \in Nat
      BY <2>2, SizesType
    <3>2. derived_index[c] \in 0..(Word - 1) /\ derived_index'[c] \in 0..(Word - 1)
      BY <2>2, <3>1 DEF TypeOK
    <3>3. derived_index[c] \in Nat /\ derived_index'[c] \in Nat /\ d \in Nat
      BY <3>1, <3>2
    <3> QED
      BY <2>2, <3>1, <3>3 DEF BlockAhead, StrideAhead
  <2> QED
    BY <2>1, <2>2
<1>5. Ahead'.blocks \subseteq Ahead.blocks
  <2>1. Ahead.blocks = {t \in turns : BlockAhead(t[1], t[2])}
    BY DEF Ahead
  <2>2. Ahead'.blocks = {t \in turns : BlockAhead(t[1], t[2])'}
    BY DEF Ahead
  <2> QED
    BY <1>4, <2>1, <2>2
<1>6. Ahead'.strides \subseteq Ahead.strides
  <2>1. Ahead.strides = {t \in turns : StrideAhead(t[1], t[2])}
    BY DEF Ahead
  <2>2. Ahead'.strides = {t \in turns : StrideAhead(t[1], t[2])'}
    BY DEF Ahead
  <2> QED
    BY <1>4, <2>1, <2>2
<1>7. Ahead'.ends \subseteq Ahead.ends
  BY DEF Ahead
<1>8. DOMAIN Ahead = {"main", "sections", "starts", "blocks", "strides", "ends"}
  BY DEF Ahead
<1> QED
  BY <1>1, <1>2, <1>3, <1>5, <1>6, <1>7, <1>8

\* A turn of a core that is there.
LEMMA TurnAhead ==
  ASSUME TypeOK, NEW c \in Cores, derived_index[c] < number_derived_constraints
  PROVE  /\ <<c, derived_index[c]>> \in Ahead.strides
         /\ core[c] = "test" => <<c, derived_index[c]>> \in Ahead.blocks
<1>1. /\ c \in 0..(total_cores - 1)
      /\ derived_index[c] \in 0..(number_derived_constraints - 1)
  <2>1. /\ number_derived_constraints \in Nat /\ total_cores \in Nat /\ Word \in Nat
        /\ derived_index[c] \in 0..(Word - 1)
    BY SizesType DEF TypeOK
  <2>2. PICK n \in 0..total_cores : Cores = 0..(n - 1)
    BY DEF TypeOK
  <2> QED
    BY <2>1, <2>2
<1>2. StrideAhead(c, derived_index[c]) /\ (core[c] = "test" => BlockAhead(c, derived_index[c]))
  BY <1>1 DEF StrideAhead, BlockAhead
<1> QED
  BY <1>1, <1>2 DEF Ahead

\* A step of the main thread.
LEMMA MainGoesOn ==
  ASSUME PartitionInv, TypeOK', MainStep, [Next]_vars
  PROVE  Fewer(Ahead', Ahead)
<1>1. TypeOK /\ UNCHANGED <<number_derived_constraints, block_size, total_cores>>
  BY SizesKept DEF PartitionInv
<1>2. CASE StartCore
  <2> DEFINE c == Cardinality(Cores)
  <2>1. /\ c \in 0..(total_cores - 1) /\ c \notin Cores /\ c \in Cores' /\ Cores \subseteq Cores'
        /\ \A x \in Cores : core'[x] = core[x] /\ derived_index'[x] = derived_index[x]
    <3>1. /\ c \in 0..(total_cores - 1) /\ Cores = 0..(c - 1) /\ Cores' = 0..c
          /\ \A x \in Cores : core'[x] = core[x] /\ derived_index'[x] = derived_index[x]
      BY <1>1, <1>2, CoreAdded
    <3> HIDE DEF c
    <3>2. total_cores \in Nat
      BY <1>1, SizesType
    <3> QED
      BY <3>1, <3>2
  <2>2. UNCHANGED <<pc, section>>
    BY <1>2 DEF StartCore
  <2> HIDE DEF c
  <2>3. \A x \in DOMAIN Ahead : Ahead'[x] \subseteq Ahead[x]
    <3>1. Phase[pc] <= Phase[pc']
      BY <1>1, <2>2 DEF TypeOK, Phase
    <3> QED
      BY <1>1, <2>1, <2>2, <3>1, NoStepComesBack
  <2>4. c \in Ahead.starts /\ c \notin Ahead'.starts
    BY <1>1, <2>1 DEF Ahead
  <2> QED
    BY <2>3, <2>4 DEF Fewer
<1>3. CASE print_sol \/ StartSolcheck \/ Join
  <2>1. /\ Phase[pc] + 1 = Phase[pc'] /\ Phase[pc] \in 1..3
        /\ UNCHANGED <<core, derived_index>>
        /\ \A x \in Section : section[x] = "done" => section'[x] = "done"
    <3>1. CASE print_sol
      BY <1>1, <3>1 DEF print_sol, Phase, TypeOK, PartitionInv, PhaseInv
    <3>2. CASE StartSolcheck
      BY <1>1, <3>2 DEF StartSolcheck, Phase, TypeOK, PartitionInv, PhaseInv
    <3>3. CASE Join
      BY <1>1, <3>3 DEF Join, Phase
    <3> QED
      BY <1>3, <3>1, <3>2, <3>3
  <2>2. \A x \in DOMAIN Ahead : Ahead'[x] \subseteq Ahead[x]
    <3>1. Cores' = Cores
      BY <2>1 DEF Cores
    <3> QED
      BY <1>1, <2>1, <3>1, NoStepComesBack
  <2>3. Phase[pc'] \in Ahead.main /\ Phase[pc'] \notin Ahead'.main
    BY <2>1 DEF Ahead
  <2> QED
    BY <2>2, <2>3 DEF Fewer
<1> QED
  BY <1>2, <1>3 DEF MainStep

\* A step of another thread.
LEMMA ThreadGoesOn ==
  ASSUME FrameIntact, PartitionInv, TypeOK', [Next]_vars,
         \/ \E x \in Section : WriteSection(x)
         \/ \E c \in Cores : CoreStep(c)
  PROVE  Fewer(Ahead', Ahead)
<1>1. /\ TypeOK /\ SizesInv /\ CoreInv
      /\ UNCHANGED <<number_derived_constraints, block_size, total_cores>>
  BY SizesKept DEF PartitionInv
<1>2. /\ \A c \in Cores : derived_index[c] \in Nat
      /\ \A c \in Cores' : derived_index'[c] \in Nat
  <2>1. Word \in Nat
    BY <1>1, SizesType
  <2>2. /\ \A c \in Cores : derived_index[c] \in 0..(Word - 1)
        /\ \A c \in Cores' : derived_index'[c] \in 0..(Word - 1)
    BY <1>1 DEF TypeOK
  <2> QED
    BY <2>1, <2>2
<1>3. ASSUME NEW x \in Section, WriteSection(x) PROVE Fewer(Ahead', Ahead)
  <2>1. /\ section[x] # "done" /\ section'[x] = "done" /\ UNCHANGED <<pc, core, derived_index>>
        /\ \A y \in Section : section[y] = "done" => section'[y] = "done"
    BY <1>1, <1>3 DEF WriteSection, TypeOK
  <2>2. \A y \in DOMAIN Ahead : Ahead'[y] \subseteq Ahead[y]
    <3>1. Phase[pc] <= Phase[pc'] /\ Cores' = Cores
      BY <1>1, <2>1 DEF TypeOK, Phase, Cores
    <3> QED
      BY <1>1, <2>1, <3>1, NoStepComesBack
  <2>3. x \in Ahead.sections /\ x \notin Ahead'.sections
    BY <2>1 DEF Ahead
  <2> QED
    BY <2>2, <2>3 DEF Fewer
<1>4. ASSUME NEW c \in Cores, CoreStep(c) PROVE Fewer(Ahead', Ahead)
  <2>0. PICK d : d = derived_index[c]
    OBVIOUS
  <2>1. /\ UNCHANGED <<pc, section>> /\ Cores' = Cores
        /\ \A x \in Cores \ {c} : core'[x] = core[x] /\ derived_index'[x] = derived_index[x]
        /\ \/ d < number_derived_constraints /\ core[c] = "test" /\ core'[c] = "stride" /\ derived_index'[c] = d
           \/ d < number_derived_constraints /\ core[c] = "stride" /\ d < derived_index'[c]
           \/ core[c] = "test" /\ core'[c] = "done" /\ derived_index'[c] = d
    <3>1. CASE WriteBlock(c)
      BY <1>1, <1>2, <2>0, <3>1, NextPartition DEF WriteBlock, TypeOK, Cores, PartitionInv, PhaseInv
    <3>2. CASE Stride(c)
      <4> DEFINE y == total_cores * block_size
      <4>1. /\ core[c] = "stride" /\ core' = [core EXCEPT ![c] = "test"]
            /\ derived_index' = [derived_index EXCEPT ![c] = (@ + y) % Word]
            /\ UNCHANGED <<pc, section>>
        BY <3>2 DEF Stride, ReadTotalCores, FrameIntact
      <4>2. y \in Nat \ {0} /\ d + y < Word /\ d \in Nat /\ Word \in Nat
        BY <1>1, <1>2, <2>0, <4>1, StrideFits, SizesType
      <4> HIDE DEF y
      <4>3. (d + y) % Word = d + y /\ d < d + y
        <5>1. d + y \in Nat
          BY <4>2
        <5> QED
          BY <4>2, <5>1, SmallModulo
      <4>4. d < number_derived_constraints
        BY <1>1, <2>0, <4>1 DEF CoreInv
      <4> QED
        BY <1>1, <2>0, <4>1, <4>3, <4>4 DEF TypeOK, Cores
    <3>3. CASE LoopEnds(c)
      BY <1>1, <2>0, <3>3 DEF LoopEnds, TypeOK, Cores
    <3> QED
      BY <1>4, <3>1, <3>2, <3>3 DEF CoreStep
  <2>2. \A y \in DOMAIN Ahead : Ahead'[y] \subseteq Ahead[y]
    <3>1. Phase[pc] <= Phase[pc']
      <4>1. Phase[pc] \in 1..4
        BY <1>1 DEF TypeOK, Phase
      <4>2. Phase[pc'] = Phase[pc]
        BY <2>1
      <4> QED
        BY <4>1, <4>2
    <3>2. \A x \in Cores :
            /\ \/ derived_index[x] < derived_index'[x]
               \/ derived_index'[x] = derived_index[x] /\ (core'[x] = "test" => core[x] = "test")
            /\ core[x] = "done" => core'[x] = "done"
      BY <2>0, <2>1
    <3> QED
      BY <1>1, <2>1, <3>1, <3>2, NoStepComesBack
  <2>3. CASE d < number_derived_constraints /\ core[c] = "test" /\ core'[c] = "stride" /\ derived_index'[c] = d
    <3>1. <<c, d>> \in Ahead.blocks
      BY <1>1, <2>3, TurnAhead, <2>0
    <3>2. ~BlockAhead(c, d)'
      BY <1>2, <2>0, <2>1, <2>3 DEF BlockAhead
    <3>3. <<c, d>> \notin Ahead'.blocks
      <4>1. Ahead'.blocks \subseteq {t \in (0..(total_cores - 1)) \X (0..(number_derived_constraints - 1)) : BlockAhead(t[1], t[2])'}
        BY <1>1 DEF Ahead
      <4> QED
        BY <3>2, <4>1
    <3> QED
      BY <2>2, <3>1, <3>3 DEF Fewer
  <2>4. CASE d < number_derived_constraints /\ core[c] = "stride" /\ d < derived_index'[c]
    <3>1. <<c, d>> \in Ahead.strides
      BY <1>1, <2>4, TurnAhead, <2>0
    <3>2. ~StrideAhead(c, d)'
      <4>1. derived_index'[c] \in Nat /\ d \in Nat
        BY <1>2, <2>0, <2>1
      <4> QED
        BY <2>1, <2>4, <4>1 DEF StrideAhead
    <3>3. <<c, d>> \notin Ahead'.strides
      <4>1. Ahead'.strides \subseteq {t \in (0..(total_cores - 1)) \X (0..(number_derived_constraints - 1)) : StrideAhead(t[1], t[2])'}
        BY <1>1 DEF Ahead
      <4> QED
        BY <3>2, <4>1
    <3> QED
      BY <2>2, <3>1, <3>3 DEF Fewer
  <2>5. CASE core[c] = "test" /\ core'[c] = "done" /\ derived_index'[c] = d
    <3>1. c \in 0..(total_cores - 1)
      <4>1. PICK n \in 0..total_cores : Cores = 0..(n - 1)
        BY <1>1 DEF TypeOK
      <4> QED
        BY <1>1, <4>1, SizesType
    <3>2. c \in Ahead.ends /\ c \notin Ahead'.ends
      BY <1>1, <2>1, <2>5, <3>1 DEF Ahead
    <3> QED
      BY <2>2, <3>2 DEF Fewer
  <2> QED
    BY <2>1, <2>3, <2>4, <2>5
<1> QED
  BY <1>3, <1>4

\* Every step of print_formula and its threads leaves less to do, and nothing that
\* was done is to be done again: a stride neither stands still nor wraps around.
THEOREM GenerationRunsOut ==
  ASSUME NothingWraps, FrameIntact
  PROVE  Spec => GenerationGoesOn
<1>1. PartitionInv /\ [Next]_vars => [Fewer(Ahead', Ahead)]_vars
  <2> SUFFICES ASSUME PartitionInv, Next, ~UNCHANGED vars PROVE Fewer(Ahead', Ahead)
    OBVIOUS
  <2>1. TypeOK'
    BY NextType DEF PartitionInv
  <2> QED
    BY <2>1, MainGoesOn, ThreadGoesOn DEF Next, Terminating
<1> QED
  BY <1>1, PartitionInvariant, PTL DEF Spec, GenerationGoesOn

\* And there are only finitely many steps to do, so that there is no endless
\* execution in which every step is one of a thread.
THEOREM GenerationIsFinite ==
  Spec => [](\A x \in DOMAIN Ahead : IsFiniteSet(Ahead[x]))
<1>1. TypeOK => \A x \in DOMAIN Ahead : IsFiniteSet(Ahead[x])
  <2> SUFFICES ASSUME TypeOK PROVE \A x \in DOMAIN Ahead : IsFiniteSet(Ahead[x])
    OBVIOUS
  <2> DEFINE cores == 0..(total_cores - 1)
             turns == cores \X (0..(number_derived_constraints - 1))
  <2>1. total_cores \in Nat /\ number_derived_constraints \in Nat /\ Phase[pc] \in 1..4
    BY SizesType DEF TypeOK, Phase
  <2>2. IsFiniteSet(cores) /\ IsFiniteSet(0..(number_derived_constraints - 1))
    BY <2>1, FS_Interval
  <2>3. IsFiniteSet(turns)
    BY <2>2, FS_Product
  <2>4. IsFiniteSet((Phase[pc] + 1)..4)
    BY <2>1, FS_Interval
  <2>5. IsFiniteSet({"SOL", "solcheck"})
    <3>1. IsFiniteSet({"SOL"}) /\ {"SOL", "solcheck"} = {"SOL"} \union {"solcheck"}
      BY FS_Singleton
    <3> QED
      BY <3>1, FS_AddElement
  <2>6. /\ Ahead.main = (Phase[pc] + 1)..4
        /\ Ahead.sections \subseteq {"SOL", "solcheck"}
        /\ Ahead.starts \subseteq cores /\ Ahead.ends \subseteq cores
        /\ Ahead.blocks \subseteq turns /\ Ahead.strides \subseteq turns
        /\ DOMAIN Ahead = {"main", "sections", "starts", "blocks", "strides", "ends"}
    BY DEF Ahead, Section
  <2> HIDE DEF cores, turns
  <2>7. IsFiniteSet(Ahead.sections) /\ IsFiniteSet(Ahead.starts) /\ IsFiniteSet(Ahead.ends)
    BY <2>2, <2>5, <2>6, FS_Subset
  <2>8. IsFiniteSet(Ahead.blocks) /\ IsFiniteSet(Ahead.strides)
    BY <2>3, <2>6, FS_Subset
  <2> QED
    BY <2>4, <2>6, <2>7, <2>8
<1> QED
  BY <1>1, TypeCorrect, PTL
=============================================================================
