SPECIFICATION Spec
CONSTANTS
  NumProblem = 1
  NumDerived = 3
  Reasons <- MCReasons
INVARIANT TypeOK
INVARIANT AsmAgrees
INVARIANT AssumptionsSound
INVARIANT OnlyAssumptions
