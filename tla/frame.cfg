SPECIFICATION CheckerSpec
CONSTANTS
  MaxFalseParts = 1
  Word = 32
  NumProblem = 2
  DerivedCounts = {0, 1, 2, 3, 4, 5}
  BlockArguments <- MCBlockArguments
  MaxFiles = 2
  FloatExact = 5
  Concurrency = {1, 2}
  Garbage = {0, 3}
INVARIANT EverythingDispatched
