SPECIFICATION FairSpec
CONSTANTS
  a = a
  b = b
  Nodes = {n1}
  Wrights = {a, b}
  Order <- MCOrder
  SequencingAll = {}
  RuntimeRequired = {a, b}
  AutoTaint = {a}
  CordonAfter = {a}
  Interrupting = {a, b}
  UninstallEnabled = {a}
  ReapplyOnReboot = TRUE
  EditKinds = {"pause", "disable", "delete"}
  Errors = {"delete", "patch", "status"}
  MaxEdits = 1
  MaxReboots = 1
  MaxErrors = 1
  MaxCrashes = 1
INVARIANT CompleteInThisBoot
INVARIANT OneAtATime
INVARIANT CordonHeld
INVARIANT GatedUntilReady
 
PROPERTY AllServed
PROPERTY DeletionCompletes
\* Nodes that are served rest.
CHECK_DEADLOCK FALSE
