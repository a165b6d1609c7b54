SPECIFICATION Spec
CONSTANTS
  f1 = f1
  f2 = f2
  f3 = f3
  f4 = f4
  Main = Main
  Null = Null
  Files <- ThreeFiles
  NumMachines = 1
  Slots <- OneSlotEach
  MaxForkFailures = 0
INVARIANT SlotsRespected
