CONSTANTS
  Process = {p1, p2, p3}
  Inode = {i1, i2, i3, i4}
  None = None
  AcquireTries = 2
SPECIFICATION Spec
INVARIANT SingleOwner
INVARIANT OwnerKeepsFile
PROPERTY UnlinksOwnFile
PROPERTY ImplementsOwnership
SYMMETRY Symmetry
