SPECIFICATION FairSpec
CONSTANTS
  Drafts = {d1}
  Files = {f1}
  None = None
  MaxOps = 6
  WorkerMayDie = TRUE
PROPERTIES
  RestoreSettles
  SaveSettles
  ComposerIsReleased
CHECK_DEADLOCK FALSE
