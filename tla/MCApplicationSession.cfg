CONSTANTS
  c1 = c1
  c2 = c2
  Caller = {c1, c2}
  Writing = {c1}
  Closer = {k1, k2}
  Final = {k2}
  MaxParallel = 1
  Coordinator = coordinator
  None = None
  Scenarios <- MCScenarios
SPECIFICATION Spec
INVARIANTS SlotsAccounted ActsOnce WritesLandFirst NothingLeftOpen
PROPERTY EveryCallReturns
CHECK_DEADLOCK FALSE
