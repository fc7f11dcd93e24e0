SPECIFICATION Spec
CONSTANTS
  v = v
  Paths <- MCPaths
  Values = {v}
  Absent = Absent
  IdSpace = 4
  MaxDeps = 1
  MaxLog = 6
INVARIANTS CacheMatchesLog IndexMatchesFile ReadableAfterCrash
PROPERTIES Implements
CHECK_DEADLOCK FALSE
