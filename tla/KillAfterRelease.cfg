CONSTANTS
  THREAD_TABLE_SIZE = 1
  FILE_TABLE_SIZE = 2
  MAX_THREADS = 2
  LogFiles <- OneFile
  Externals <- OneProcess
  Children <- Nobody
  Commands = {"add -p", "kill"}
  NoFile = NoFile
  NoPid = NoPid
  SystemPid = SystemPid
  f1 = f1
  f2 = f2
  p1 = p1
  p2 = p2
  c1 = c1
  c2 = c2
SPECIFICATION Spec
INVARIANTS StartsRunning
