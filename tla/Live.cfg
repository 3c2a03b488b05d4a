CONSTANTS
  THREAD_TABLE_SIZE = 2
  FILE_TABLE_SIZE = 3
  MAX_THREADS = 2
  LogFiles <- OneFile
  Externals <- Nobody
  Children <- OneChild
  Commands = {"add -s", "add -e", "add -p", "remove -t", "exit"}
  NoFile = NoFile
  NoPid = NoPid
  SystemPid = SystemPid
  f1 = f1
  f2 = f2
  p1 = p1
  p2 = p2
  c1 = c1
  c2 = c2
SPECIFICATION FairSpec
INVARIANTS ChildIsThere ExitIsClean
PROPERTIES ImplementsMonitoringFairly StopIsHonoured DeathIsNoticed ExitEnds CommandEnds
