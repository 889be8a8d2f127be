SPECIFICATION FairSpec
CONSTANTS
  Modes <- MCModes
  MaxVersion = 2
  InterruptKinds = {"service_restart", "node_restart"}
  Operations = 2
  EditKinds = {"config", "upgrade", "uninstall", "reinstall", "cancel", "touch", "rerun"}
  MaxEdits = 2
  MaxFaults = 1
INVARIANT StageRan
INVARIANT InterruptHappened
INVARIANT UninstallForgets
PROPERTY PipelineEnds
\* A pipeline that is over rests.
CHECK_DEADLOCK FALSE
