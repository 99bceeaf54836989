SPECIFICATION Spec
CONSTANTS
  Accounts = {a1, a2}
  NoAccount = NoAccount
  MaxOps = 3
  MaxPolls = 0
  MaxFolders = 1
  MaxRestarts = 1
SYMMETRY Symmetry
INVARIANTS
  ShownMailIsAccountMail
  SignedOutIsClean
PROPERTIES
  TokenGoesLast
  SyncedSessionIsAuthorized
CHECK_DEADLOCK FALSE
