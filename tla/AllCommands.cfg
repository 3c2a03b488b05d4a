CONSTANTS
  THREAD_TABLE_SIZE = 1
  FILE_TABLE_SIZE = 2
  MAX_THREADS = 2
  LogFiles <- TwoFiles
  Externals <- OneProcess
  Children <- Nobody
  Commands = {"add -s", "add -p", "remove -t", "remove -s", "kill", "exit", "webmon", "listactive", "listcompleted"}
  NoFile = NoFile
  NoPid = NoPid
  SystemPid = SystemPid
  f1 = f1
  f2 = f2
  p1 = p1
  p2 = p2
  c1 = c1
  c2 = c2
SPECIFICATION Spec
INVARIANTS OneSystemThread EndsAreRecordedOnce ExitWaits ShownIsConsistent ListedIsComplete FailsOnlyAsKnown
PROPERTIES RequestIsKept
SYMMETRY Symmetry
CHECK_DEADLOCK FALSE
