SPECIFICATION DeskSpec
CONSTANTS
  Entries = {a, b}
  Filters = {all, binned}
  All = all
  Nothing = nothing
  MaxAsks = 2
  MaxClicks = 4
INVARIANT MediaLibraryShowsFailures
CHECK_DEADLOCK FALSE
