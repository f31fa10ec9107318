SPECIFICATION Spec
CONSTANTS
  Media = {m1}
  Entries = {e1}
  Public = {m1}
  Targets = {t1}
  Failures = {}
  MaxAttempts = 2
  MaxRevision = 2
  None = None
CHECK_DEADLOCK FALSE
INVARIANT WaitingHasJob
