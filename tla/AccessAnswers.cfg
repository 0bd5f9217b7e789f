CONSTANTS
  u1 = u1
  r1 = r1
  p1 = p1
  q1 = q1
  q2 = q2
  User = {u1}
  Role = {r1}
  Account = {1, 2}
  Principal = {p1}
  ForeignKeys = TRUE
  Loose = {"spend_alerts"}
  Request = {q1, q2}
  MaxRequests = 2
  MaxFailures = 1
INIT MCInit
NEXT Next
SYMMETRY Slots
INVARIANT TypeOK
INVARIANT AnswersHold
INVARIANT CleanReportIsTrue
INVARIANT PagesMakeTheList
PROPERTY GrantedIsSpared
CHECK_DEADLOCK FALSE
