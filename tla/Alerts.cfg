\* Two units that fail, recover and lose their files at any moment, with the fairness
\* of the loop; the source may fail at any poll but not before the first tick.
SPECIFICATION FairSpec
CONSTANTS
  Unit = {u1, u2}
  MaxFailures = 1
  MaxDeletes = 1
  WarmupMayFail = FALSE
INVARIANTS NoStartupAlert NoDuplicateAlert IInv
PROPERTY LastingFailureReported
