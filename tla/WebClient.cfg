SPECIFICATION WebSpec
CONSTANTS
  e1 = e1  e2 = e2  e3 = e3  u1 = u1  u2 = u2  m1 = m1  m2 = m2
  None = None
  Off = Off
  Size = 5
  ChunkSize = 2
  MaxRetries = 2
  MaxRefusals = 2
  Uploads = {u1, u2}
  Items = {m1, m2}
  MaxMoves = 4
  MaxRefs = 2
  Failures = {"network", "storage", "reload"}
  Tokens = {t1, t2, t3}
  Passwords = {w1, w2}
  MaxCode = 2
  MaxActs = 6
  MaxAsked = 5
  SignTurns = 5
  Entries = {e1, e2}
  Filters = {e1, e2}
  All = e1
  MaxAsks = 3
  MaxClicks = 4
  Values = {e1, e2}
  Default = e3
  MaxEdits = 5
  Assets = {e1, e2}
  Periods <- MCPeriods
  Today = 20000
  AssetTurns = 3
  Months <- MCMonths
  ThisDay <- MCThisDay
  Recorded <- MCRecorded
  MonthMoves = 4
  PublicEntries = {e1, e2, e3}
  EntryDays <- MCDays
  MaxChanges = 3
  MaxVersion = 3
  CacheTurns = 3
  Tags <- MCTags
  Suggestions <- MCSuggestions
  Documents <- MCDocuments
  DocumentEdits = 1
  Bases = {e1, e2}
  MaxEvents = 4
SYMMETRY Symmetry
CHECK_DEADLOCK FALSE
INVARIANTS UploadIsWhole
INVARIANTS PendingMediaIsSafe RecoveryIsReal SessionIsBelieved DeskActsOnWhatItShows
INVARIANTS AssetsAreShownTruly  EvictionHolds TagsAreMeant MarkdownIsKept OneText
PROPERTY SettingsAreMeant
