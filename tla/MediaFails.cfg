SPECIFICATION Spec
CONSTANTS
  Media = {m1}
  Entries = {e1}
  Public = {m1}
  Targets = {t1, t2}
  Failures = {"crash", "sweep", "sweep_row", "trash", "remove", "row", "upload", "record"}
  MaxAttempts = 2
  MaxRevision = 2
  None = None
SYMMETRY Symmetry
CHECK_DEADLOCK FALSE
INVARIANT ReadyHasFile
INVARIANT QueuedDeletionIsDue
INVARIANT UsesItsRevision
PROPERTY RemovesOnlyUnreferenced
PROPERTY OriginalOutlivesCopy
