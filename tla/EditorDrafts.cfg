SPECIFICATION Spec
CONSTANTS
  Entries = {e1}
  Copies = {c1, c2, c3}
  Drafts = {d1, d2}
  None = None
  NoPayload = NoPayload
  MaxRevision = 4
  MaxTexts = 3
  MaxMoves = 4
  MaxIO = 1
  MaxDrafts = 1
  MaxLate = 1
  Failures = {"network", "storage", "reload"}
SYMMETRY Symmetry
CHECK_DEADLOCK FALSE
INVARIANT StoredTextIsKept
INVARIANT EndedDraftsAreForgotten
PROPERTY SavesReplaceWhatWasSeen
