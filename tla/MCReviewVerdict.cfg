SPECIFICATION SubmissionSpec
CONSTANTS
  c1 = c1
  Process = {p1}
  Draft = {d1}
  Attempt = {a1, a2}
  Item = {c1, body}
  Verdict = {approve}
  Plan <- MCPlans
  Step = {c1, body, batch, review, vote}
  Operation <- MCOperations
  None = None
  MaxVersion = 4
  MaxRetry = 0
  MaxRecons = 1
  Task = {t1}
  Body = body
  Standalone = {c1}
  Position <- MCPosition
  Batch = batch
  Review = review
  Vote = vote
  Approve = approve
  RequestChanges = request_changes
SYMMETRY Symmetry
PROPERTIES VerdictSentOnce
