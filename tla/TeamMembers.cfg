CONSTANTS
  u1 = u1
  u2 = u2
  t1 = t1
  t2 = t2
  q1 = q1
  q2 = q2
  User = {u1, u2}
  Team = {t1, t2}
  Name = {"x"}
  DefaultTeam = t1
  Request = {q1, q2}
  MaxRequests = 3
SPECIFICATION Spec
SYMMETRY Alike
INVARIANT TypeOK
INVARIANT MembershipHolds
INVARIANT OneFederationName
PROPERTY KeepsAnAdmin
CHECK_DEADLOCK FALSE
