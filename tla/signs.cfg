SPECIFICATION Spec
CONSTANTS
  NumVariables = 2
  IntegralVariables = {1}
  NumProblem = 2
  MaxDerived = 2
  Problems <- SignProblems
  Derivations <- SignDerivations
  Points <- MCPoints
  Dividends <- MCDividends
  Quotients <- OneQuotient
INVARIANT AcceptedIsTrue
