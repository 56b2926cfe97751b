SPECIFICATION Spec
CONSTANTS
  Threads = {t1, t2}
  Workers = {w1}
  MaxSettings = 2
  Capacity = 2
  Batch = 1
  MaxRecords = 3
  MaxFlushes = 2
  Loads <- AnyLoad
INVARIANTS SettingsHold  RecordsKept
PROPERTIES FlushReaches EveryBuildEnds
CHECK_DEADLOCK FALSE
