SPECIFICATION FairSpec
CONSTANTS
  Nodes = {n1, n2}
  InitialMembers = {n1}
  Keys = {"plain", "matched"}
  InterruptKeys = {"matched"}
  PackageInterrupt = FALSE
  MaxEdits = 2
  MaxMoves = 1
  MaxFailures = 1
  MaxFaults = 1
INVARIANT CompleteIsConfigured
INVARIANT InterruptedForKeys
PROPERTY EditsReachNodes
\* Configured nodes rest.
CHECK_DEADLOCK FALSE
