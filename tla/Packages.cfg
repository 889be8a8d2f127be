SPECIFICATION FairSpec
CONSTANTS
  a = a
  b = b
  c = c
  Pkgs = {a, b, c}
  MaxVersion = 1
  Rank <- MCRank
  Interrupt <- MCTwoInterrupt
  DependsOn <- ThirdAfterFirst
  UninstallEnabled = {}
  Serial = FALSE
  NodeLag = FALSE
  JobLag = FALSE
  Overlap = FALSE
  Expiry = {"failed", "lost"}
  EvictionRefused = FALSE
  EditPlans = {}
  MaxEdits = 0
  MaxFailures = 1
  MaxCrashes = 1
INVARIANT DependenciesFirst
PROPERTY Converges
\* A node that has converged rests until the next edit or failure.
CHECK_DEADLOCK FALSE
