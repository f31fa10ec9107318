SPECIFICATION FairSpec
CONSTANTS
  Media = {m1, m2}
  Entries = {e1, e2}
  Public = {}
  Targets = {}
  Failures = {}
  MaxAttempts = 2
  MaxRevision = 1
  None = None
CHECK_DEADLOCK FALSE
PROPERTY DroppedMediaSettles
PROPERTY ReferencedMediaIsServed
