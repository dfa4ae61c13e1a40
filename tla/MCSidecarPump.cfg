\* The pump ends, the connection does not.
\* The server stops for good once it is closed.
CHECK_DEADLOCK FALSE
SPECIFICATION ServerSpec
CONSTANTS
  None = None
  Key = {k1}
  Resync = resync
  Notice = notice
  MaxQueued = 1
  MaxVersion = 1
  MaxSequence = 2
  Request = {r1}
  Mutation = {}
  MaxPending = 2
  MaxFrames = 1
PROPERTIES ChangesAreTold
