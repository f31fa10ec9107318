SPECIFICATION MCSpec
CONSTANTS
  t1 = t1
  t2 = t2
  Entries = {e1}
  Copies = {c1, c2, c3}
  Drafts = {d1}
  Texts = {t1, t2}
  Requests <- Payloads
  KeptVersions = 1
  MaxRevision = 3
  None = None
  NoPayload = NoPayload
  Transactions = {x1, x2}
CHECK_DEADLOCK FALSE
INVARIANT OpenAndCommitNeverDeadlock
PROPERTY Atomic
PROPERTY EveryRequestEnds
