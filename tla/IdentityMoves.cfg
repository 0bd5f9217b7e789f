CONSTANTS
  r1 = r1
  r2 = r2
  c1 = c1
  c2 = c2
  Null = Null
  NoRow = NoRow
  Address <- MCAddress
  Lower <- MCLower
  Request = {r1}
  Change = {c1, c2}
  MaxChanges = 2
  AccountAlone = TRUE
  ScriptAlone = TRUE
SPECIFICATION Spec
INVARIANT TypeOK
INVARIANT ResolutionWasTrue
INVARIANT LeftIsLeft
PROPERTY VerifiedRowKeepsOwner
PROPERTY KeepsALogin
