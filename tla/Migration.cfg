SPECIFICATION FairSpec
CONSTANTS
  Names = {1}
  UninstallEnabled = {1}
  RollbackWindow = TRUE
  EditKinds = {"legacy", "pauseLegacy", "deleteLegacy", "target", "pause", "delete", "create", "ignore"}
  MaxEdits = 2
  MaxSwitches = 3
  MaxFaults = 1
INVARIANT ConfigMapsFollow
PROPERTY TakesOver
PROPERTY RollbackKept
 
\* A migration that is over rests.
CHECK_DEADLOCK FALSE
