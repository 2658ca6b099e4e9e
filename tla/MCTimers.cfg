CONSTANTS
  Units <- MCUnits
  Wide = {"I3"}
  NarrowMax = 2
  WideMax = 3
  Tasks <- MCTasks
  Modes <- MCModes
  Values = {0, 2}
  MaxTicks = 2
  MaxBlocks = 2
  MaxWrites = 2
  Nobody = Nobody
SPECIFICATION Spec
INVARIANTS TimersInv CountsEachTick
PROPERTIES EventsHandled
CHECK_DEADLOCK FALSE
