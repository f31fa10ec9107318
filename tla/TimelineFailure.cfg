SPECIFICATION ListSpec
CONSTANTS
  Entries = {a, b, c}
  Days = {0,1,2,3,4}
  NoCursor = nocursor
  MaxChanges = 2
CHECK_DEADLOCK FALSE
PROPERTY FailedLoadKeepsCursor
