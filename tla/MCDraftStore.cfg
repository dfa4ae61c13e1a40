SPECIFICATION Spec
CONSTANTS
  None = None
  Process = {p1, p2}
  Draft = {d1}
  Attempt = {a1, a2}
  Item = {}
  Verdict = {approve}
  Plan = {plan}
  Step = {s1}
  Operation = {op1}
  MaxVersion = 4
  MaxRetry = 1
  MaxRecons = 1
SYMMETRY Symmetry
INVARIANTS Agreement FrozenContent
PROPERTIES VersionGuardsContent EvidenceKept
