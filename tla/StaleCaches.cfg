SPECIFICATION Spec
CONSTANTS
  a = a
  b = b
  c = c
  Pkgs = {a}
  MaxVersion = 1
  Rank <- MCRank
  Interrupt <- MCPlain
  DependsOn <- NoDeps
  UninstallEnabled = {}
  Serial = FALSE
  NodeLag = TRUE
  JobLag = TRUE
  Overlap = TRUE
  Expiry = {"failed", "lost"}
  EvictionRefused = FALSE
  EditPlans = {}
  MaxEdits = 0
  MaxFailures = 1
  MaxCrashes = 1
INVARIANT RecordedImpliesRan
\* A node that has converged rests until the next edit or failure.
CHECK_DEADLOCK FALSE
