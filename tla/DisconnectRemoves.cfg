SPECIFICATION Spec
CONSTANTS
  Accounts = {a1, a2}
  NoAccount = NoAccount
  MaxOps = 3
  MaxPolls = 0
  MaxFolders = 0
  MaxRestarts = 0
INVARIANT
  DisconnectRemovesSummaries
CHECK_DEADLOCK FALSE
