SPECIFICATION Spec
CONSTANTS
  Ids = {a, b}
  Emails = {"e"}
  None = None
  MaxAccounts = 2
  MaxOps = 3
  MaxCommands = 1
  MaxArchives = 1
  MaxRestarts = 1
SYMMETRY Symmetry
INVARIANTS
  RemovedStaysGone
  RowsAreWhole
  HiddenOnlyIfMoved
  OneRowPerIdentity
CHECK_DEADLOCK FALSE
