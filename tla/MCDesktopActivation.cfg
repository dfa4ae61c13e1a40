\* No command starts after the last generation.
CHECK_DEADLOCK FALSE
SPECIFICATION Spec
CONSTANTS
  None = None
  Foreign = Foreign
  Payload = {p1, p2, p3, p4}
  Env = {e1, e2}
  MaxGeneration = 8
SYMMETRY Symmetry
INVARIANTS NothingOrphaned JournalIsCurrent Delivers
PROPERTIES ImplementsPointer
