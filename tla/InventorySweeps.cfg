CONSTANTS
  s1 = s1
  s2 = s2
  e1 = e1
  e2 = e2
  w1 = w1
  w2 = w2
  NoRow = NoRow
  GlobalRegion = GlobalRegion
  Region = {e1, e2}
  Global = {"s3"}
  Sweep = {s1, s2}
  Type = {"dynamodb", "s3"}
  Bare = {}
  Name = {w1}
  MaxClock = 1
  MaxChanges = 1
SPECIFICATION Spec
SYMMETRY Symmetric
INVARIANT TypeOK
INVARIANT FullSweepIsExact
PROPERTY DeniedIsNotEmpty
