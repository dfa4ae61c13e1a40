\* Calls end and the user stops refreshing.
CHECK_DEADLOCK FALSE
SPECIFICATION Spec
CONSTANTS
  None = None
  List = List
  Repo = Repo
  User = User
  c1 = c1
  c2 = c2
  c3 = c3
  o1 = o1
  o2 = o2
  r1 = r1
  d1 = d1
  d2 = d2
  Review = {r1}
  Write = {c1, c2, c3}
  Call = {c1, c2, c3}
  Job = {c1, c2, c3, User}
  Reader = {d1, d2}
  Op = {o1, o2}
  Scenarios <- MCScenarios
  OpOf <- MCOpOf
  ReviewOf <- MCReviewOf
  MaxGeneration = 1
INVARIANTS SentOnce SameAnswer NobodyForgotten ReadYourWrites CacheIsCurrent
SYMMETRY Symmetry
