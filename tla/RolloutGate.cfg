SPECIFICATION Spec
CONSTANTS
  n1 = n1
  n2 = n2
  n3 = n3
  Nodes = {n1, n2, n3}
  InitialMembers = {n1, n2, n3}
  Rank <- MCRank
  Stages = 1
  Compartments = {}
  CompartmentRank <- MCCompartmentRank
  Strategy <- MCStrategy
  Budget <- MCBudget
  HasPolicy = TRUE
  ResetOnCompletion = TRUE
  Labels <- MCLabels
  EditKinds = {"pause", "disable", "leave", "join"}
  MaxEdits = 2
  MaxFailures = 2
  MaxCrashes = 0
INVARIANT StoppedForCause
 
PROPERTY DefaultIsGated
\* A rollout that is over rests.
CHECK_DEADLOCK FALSE
