SPECIFICATION SubmissionSpec
CONSTANTS
  c1 = c1
  Process = {p1, p2}
  Draft = {d1}
  Attempt = {a1}
  Item = {c1, body}
  Verdict = {}
  Plan <- MCPlans
  Step = {c1, body, batch, review, vote}
  Operation <- MCOperations
  None = None
  MaxVersion = 3
  MaxRetry = 0
  MaxRecons = 2
  Task = {t1, t2}
  Body = body
  Standalone = {c1}
  Position <- MCPosition
  Batch = batch
  Review = review
  Vote = vote
  Approve = approve
  RequestChanges = request_changes
SYMMETRY Symmetry
PROPERTIES ReturnsRemainder
