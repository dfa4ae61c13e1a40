\* The server stops for good once it is closed.
CHECK_DEADLOCK FALSE
SPECIFICATION ServerSpec
CONSTANTS
  None = None
  Key = {k1}
  Resync = resync
  Notice = notice
  MaxQueued = 1
  MaxVersion = 1
  MaxSequence = 2
  Request = {r1, r2}
  Mutation = {r2}
  MaxPending = 2
  MaxFrames = 3
PROPERTIES SlotsFreed Closes
INVARIANTS AnsweredOnce
