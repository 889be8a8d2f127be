SPECIFICATION FairSpec
CONSTANTS
  n1 = n1
  n2 = n2
  n3 = n3
  Nodes = {n1, n3}
  InitialMembers = {n1, n3}
  Rank <- MCRank
  Stages = 1
  Compartments = {"canary"}
  CompartmentRank <- MCCompartmentRank
  Strategy <- MCStrategy
  Budget <- MCBudget
  HasPolicy = TRUE
  ResetOnCompletion = TRUE
  Labels <- MCLabels
  EditKinds = {"relabel", "policy", "version", "ignore"}
  MaxEdits = 1
  MaxFailures = 1
  MaxCrashes = 1
PROPERTY BatchesDoNotOverlap
PROPERTY RolloutCompletes
\* A rollout that is over rests.
CHECK_DEADLOCK FALSE
