\* A cancel frame right behind its request.
\* The server stops for good once it is closed.
CHECK_DEADLOCK FALSE
SPECIFICATION ServerSpec
CONSTANTS
  None = None
  Key = {k1}
  Resync = resync
  Notice = notice
  MaxQueued = 1
  MaxVersion = 0
  MaxSequence = 0
  Request = {r1}
  Mutation = {}
  MaxPending = 2
  MaxFrames = 2
PROPERTIES CancelIsAnswered
