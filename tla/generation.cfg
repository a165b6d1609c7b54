SPECIFICATION CheckerFairSpec
CONSTANTS
  MaxFalseParts = 1
  Word = 32
  NumProblem = 2
  DerivedCounts = {0, 1, 2, 3, 4, 5}
  BlockArguments <- MCBlockArguments
  MaxFiles = 2
  FloatExact = 5
  Concurrency = {1, 2}
  Garbage = {}
INVARIANT TypeOK
INVARIANT WrittenOnce
INVARIANT EverythingDispatched
INVARIANT NoEmptyBlock
INVARIANT DerivationsExist
INVARIANT OkMeansTrue
PROPERTY GenerationGoesOn
PROPERTY GenerationEnds
PROPERTY VerdictComes
