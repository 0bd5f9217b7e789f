CONSTANTS
  sts = sts
  us = us
  eu = eu
  Client <- MCClient
  Attempts <- MCAttempts
  Timeout = 1
  MaxDelay = 1
  BaseDelay = 1
  Asked = {0, 1, 2}
  Region = {us, eu}
  Item = {1, 2}
  Sts = sts
  MaxPages = 2
  IsRegional = TRUE
  InitialContents <- MCContents
  MaxChanges = 1
SPECIFICATION FairSpec
INVARIANT TypeOK
INVARIANT RetriesWhatMayPass
INVARIANT EndsInTime
PROPERTY ListsWhole
CHECK_DEADLOCK FALSE
