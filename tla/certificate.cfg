SPECIFICATION Spec
CONSTANTS
  NumVariables = 2
  IntegralVariables = {1}
  NumProblem = 2
  MaxDerived = 4
  Problems <- MCProblems
  Derivations <- MCDerivations
  Points <- MCPoints
  Dividends <- MCDividends
  Quotients <- OneQuotient
INVARIANT TypeOK
INVARIANT DerivedHolds
INVARIANT AcceptedIsTrue
INVARIANT SignsSound
