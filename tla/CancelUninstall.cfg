SPECIFICATION Spec
CONSTANTS
  Modes <- MCModes
  MaxVersion = 1
  InterruptKinds = {"none"}
  Operations = 2
  EditKinds = {"uninstall", "cancel"}
  MaxEdits = 2
  MaxFaults = 0
INVARIANT CancelReinstalls
\* A pipeline that is over rests.
CHECK_DEADLOCK FALSE
