SPECIFICATION FairSpec
CONSTANTS
  f1 = f1
  f2 = f2
  f3 = f3
  f4 = f4
  Main = Main
  Null = Null
  Files <- ThreeFiles
  NumMachines = 2
  Slots <- OneSlotEach
  MaxForkFailures = 0
PROPERTY EvaluationEnds
PROPERTY AllSatDecides
PROPERTY RefinesEvaluationResult
