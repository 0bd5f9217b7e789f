CONSTANTS
  NoPrincipal = NoPrincipal
  NoSession = NoSession
  p1 = p1
  p2 = p2
  p3 = p3
  p4 = p4
  r1 = r1
  c1 = c1
  a1 = a1
  Principal = {p1, p2, p3, p4}
  Requests = {r1}
  Refreshers = {c1}
  Collectors = {}
  Admins = {a1}
  Limit = 3
  MaxWrites = 1
  InitialTables <- TwoBases
SPECIFICATION Spec
INVARIANT RepointedChainIsRefused
