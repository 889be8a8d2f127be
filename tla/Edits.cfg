SPECIFICATION FairSpec
CONSTANTS
  a = a
  b = b
  c = c
  Pkgs = {a}
  MaxVersion = 2
  Rank <- MCRank
  Interrupt <- MCPlain
  DependsOn <- NoDeps
  UninstallEnabled = {a}
  Serial = FALSE
  NodeLag = FALSE
  JobLag = FALSE
  Overlap = TRUE
  Expiry = {"failed", "lost"}
  EvictionRefused = FALSE
  EditPlans = {{"version", "other"}, {"uninstall", "other"}, {"mode"}}
  MaxEdits = 2
  MaxFailures = 0
  MaxCrashes = 0
INVARIANT UpgradeReplaces
INVARIANT UninstalledMeansClean
PROPERTY CompletionKept
PROPERTY Converges
\* A node that has converged rests until the next edit or failure.
CHECK_DEADLOCK FALSE
