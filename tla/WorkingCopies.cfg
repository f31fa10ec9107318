SPECIFICATION Spec
CONSTANTS
  t1 = t1
  t2 = t2
  Entries = {e1, e2}
  Copies = {c1, c2, c3}
  Drafts = {d1}
  Texts = {t1, t2}
  Requests <- MCRequests
  KeptVersions = 2
  MaxRevision = 4
  None = None
  NoPayload = NoPayload
SYMMETRY Symmetry
CHECK_DEADLOCK FALSE
INVARIANT BaseIdentifiesText
INVARIANT EditsHaveTheirEntry
INVARIANT OneEditPerEntry
INVARIANT ArticleTextIsKept
PROPERTY NoLostUpdate
PROPERTY RetiredEditsStayRetired
PROPERTY KeepsPromise
