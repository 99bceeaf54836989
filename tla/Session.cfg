SPECIFICATION SessionSpec
CONSTANTS
  Accounts = {a1, a2}
  NoAccount = NoAccount
  MaxOps = 2
  MaxPolls = 1
  MaxFolders = 1
  MaxRestarts = 0
INVARIANTS
  PollWritesItsOwnSession
  PollReplacesItsOwnToken
PROPERTIES
  OperationsSettle
  PollsSettle
CHECK_DEADLOCK FALSE
