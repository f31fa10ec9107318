SPECIFICATION FairSpec
CONSTANTS
  Entries = {e1}
  Copies = {c1, c2}
  Drafts = {d1}
  None = None
  NoPayload = NoPayload
  MaxRevision = 2
  MaxTexts = 3
  MaxMoves = 2
  MaxIO = 1
  MaxDrafts = 1
  MaxLate = 1
  Failures = {"network"}
CHECK_DEADLOCK FALSE
PROPERTY ServerCatchesUp
