CONSTANTS
  t1 = t1
  t2 = t2
  t3 = t3
  f1 = f1
  f2 = f2
  Readers <- TwoReaders
  LogFiles = {f1, f2}
  NoFile = NoFile
  LogOf <- TwoLogFiles
  ROWS = 1
  COLUMNS = 2
  Locations <- SomeLocations
  Command = Command
  Nobody = Nobody
  Null = Null
SPECIFICATION Spec
INVARIANTS EachItemIsRight
