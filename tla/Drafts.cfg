SPECIFICATION Spec
CONSTANTS
  Drafts = {d1, d2}
  Files = {f1}
  None = None
  MaxOps = 7
  WorkerMayDie = FALSE
SYMMETRY Symmetry
INVARIANTS
  ListedDraftsAreStored
  StagedFilesAreReferenced
  SavedMeansStored
  OpenDraftHasItsFiles
PROPERTIES
  ClosesOverStoredDraft
CHECK_DEADLOCK FALSE
