CONSTANTS
  p1 = p1
  p2 = p2
  p3 = p3
  s1 = s1
  s2 = s2
  Principal = {p1, p2, p3}
  Sweep = {s1}
  Batch = 2
  MaxEdits = 2
  MaxSpent = 1
SPECIFICATION FairTurns
INVARIANT CollectedWasTried
PROPERTY NobodyIsOvertaken
PROPERTY EveryoneIsTried
