SPECIFICATION Spec
CONSTANTS
  Accounts = {a, b}
  NoOne = NoOne
  Labels = {"Inbox", "Work"}
  Messages = {1, 2}
  Rows <- MCRows
  Queries = {"q", "r"}
  Hits <- MCHits
  MaxGestures = 3
  MaxSignIns = 1
  MaxPolls = 0
  MaxBacklog = 1
  WorkerMayStop = FALSE
SYMMETRY Symmetry
INVARIANTS
  ResultsMatchQuery
  ClearedStaysCleared
PROPERTIES
  ReaderShowsSelection
CHECK_DEADLOCK FALSE
