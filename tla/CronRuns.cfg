CONSTANTS
  NoRun = NoRun
  n1 = n1
  n2 = n2
  Run = {n1, n2}
  MaxAge = 2
  Retries = 1
SPECIFICATION FairSpec
INVARIANT TypeOK
INVARIANT YoungRunHoldsTheGuard
INVARIANT EveryTaskIsHandled
PROPERTY PipelineNeverStops
CHECK_DEADLOCK TRUE
