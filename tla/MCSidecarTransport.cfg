\* The application ends.
CHECK_DEADLOCK FALSE
SPECIFICATION Spec
CONSTANTS
  None = None
  Key = {k1, k2}
  Resync = resync
  Notice = notice
  MaxQueued = 2
  MaxVersion = 2
  MaxSequence = 6
  Request = {r1}
  Assets = assets
  MaxRestarts = 1
  MaxFaults = 3
INVARIANTS OneService SessionIsLive ReloadedIsCovered Contiguous
PROPERTY LossIsHandled
