SPECIFICATION FairSpec
CONSTANTS
  Ids = {a, b}
  Emails = {"e"}
  None = None
  MaxAccounts = 2
  MaxOps = 3
  MaxCommands = 1
  MaxArchives = 0
  MaxRestarts = 0
PROPERTIES
  OperationsSettle
CHECK_DEADLOCK FALSE
