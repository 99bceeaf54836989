SPECIFICATION FairSpec
CONSTANTS
  Accounts = {a, b}
  NoOne = NoOne
  Labels = {"Inbox", "Work"}
  Messages = {1, 2}
  Rows <- MCRowsOrNone
  Queries = {"q"}
  Hits <- MCHits
  MaxGestures = 2
  MaxSignIns = 1
  MaxPolls = 1
  MaxBacklog = 1
  WorkerMayStop = TRUE
INVARIANTS
  LateListsAreDropped
  PollingContinues
PROPERTIES
  AnswersArrive
CHECK_DEADLOCK FALSE
