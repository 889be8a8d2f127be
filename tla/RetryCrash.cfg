SPECIFICATION Spec
CONSTANTS
  a = a
  b = b
  c = c
  Pkgs = {a}
  MaxVersion = 1
  Rank <- MCRank
  Interrupt <- MCFirstInterrupts
  DependsOn <- NoDeps
  UninstallEnabled = {}
  Serial = FALSE
  NodeLag = FALSE
  JobLag = FALSE
  Overlap = TRUE
  Expiry = {"failed", "lost"}
  EvictionRefused = TRUE
  EditPlans = {}
  MaxEdits = 0
  MaxFailures = 1
  MaxCrashes = 1
INVARIANT TypeOK
INVARIANT RecordedImpliesRan
INVARIANT StagesInOrder
INVARIANT DrainedForInterrupts
INVARIANT InterruptHonoured
INVARIANT OneExecutor
PROPERTY DrainsDurablyCordoned
\* A node that has converged rests until the next edit or failure.
CHECK_DEADLOCK FALSE
