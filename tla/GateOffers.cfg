
CONSTANTS
  r1 = r1
  r2 = r2
  Slot <- Slots
  Signature = {"g"}
  Window = 2
  Skew = 1
  MinTtl = 1
  Retention = 2
  PruneBatch = 1
  MaxTokens = 1
  MaxTime = 3
  MaxRequests = 3
SPECIFICATION Spec
INVARIANT WhatIsOfferedIsAccepted
CHECK_DEADLOCK FALSE
