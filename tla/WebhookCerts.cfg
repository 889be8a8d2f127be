SPECIFICATION FairSpec
CONSTANTS
  old = old
  new = new
  Pods = {old, new}
  ServiceOf <- MCServiceOf
  Legacy = "skyhook"
  MaxReleases = 1
  MaxFaults = 1
INVARIANT TypeOK
INVARIANT CASignsService
PROPERTY Converges
\* A converged deployment rests.
CHECK_DEADLOCK FALSE
