CONSTANTS
  THREAD_TABLE_SIZE = 2
  FILE_TABLE_SIZE = 3
  MAX_THREADS = 3
  LogFiles <- TwoFiles
  Externals <- OneProcess
  Children <- Nobody
  Commands = {"add -p", "remove -t"}
  NoFile = NoFile
  NoPid = NoPid
  SystemPid = SystemPid
  f1 = f1
  f2 = f2
  p1 = p1
  p2 = p2
  c1 = c1
  c2 = c2
SPECIFICATION Spec
INVARIANTS TypeOK RowIsOwned CountIsUsers LogsToItsFile RowIsFound SlotsAreCounted SlotIsThere StartsRunning EntryIsFound
PROPERTIES FileStaysOpen ImplementsMonitoring
SYMMETRY Symmetry
