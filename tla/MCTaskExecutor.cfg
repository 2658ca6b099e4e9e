CONSTANTS
  EeTimers = EeTimers
  IopTimers = IopTimers
  Crtc = Crtc
  Workers = {w1, w2, w3}
  ControllerOrder <- MCOrder
  HBlankTargets <- MCTargets
  Throwing = {EeTimers}
  MaxHBlank = 1
  MaxRuns = 3
  EventCap = 5
  PendingCap = 5
  RunningCap = 2
  ErrorCap = 2
  NoTask = NoTask
SPECIFICATION FairSpec
INVARIANTS IInv Resynchronised
PROPERTIES RunsInBlocks RunReturns ShutdownCompletes
