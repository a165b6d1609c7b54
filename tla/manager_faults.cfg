SPECIFICATION Spec
CONSTANTS
  f1 = f1
  f2 = f2
  f3 = f3
  f4 = f4
  Main = Main
  Null = Null
  Files <- ThreeFiles
  NumMachines = 2
  Slots <- UnevenSlots
  MaxForkFailures = 2
INVARIANT TypeOK
INVARIANT VerdictSound
INVARIANT NoDispatchLost
INVARIANT NoSlotLost
INVARIANT KillsJustified
PROPERTY EvaluationGoesOn
SYMMETRY FileSymmetry
CHECK_DEADLOCK FALSE
