SPECIFICATION FairSpec
CONSTANTS
  Messages = {m1}
  Folders = {"Inbox", "AllMail", "Trash"}
  Flags = {"label"}
  MaxRequests = 2
  MaxLoads = 1
  MaxClears = 1
INVARIANTS
  OfferedUndoHolds
  AwaitedIsInFlight
PROPERTIES
  UndoneIsBack
  RejectedIsUnapplied
  ChangesSettle
CHECK_DEADLOCK FALSE
