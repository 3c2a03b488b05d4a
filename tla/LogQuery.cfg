CONSTANTS
  t1 = t1
  t2 = t2
  t3 = t3
  f1 = f1
  f2 = f2
  Readers <- TheReaders
  LogFiles = {f1}
  NoFile = NoFile
  LogOf <- BesideWebmon
  ROWS = 1
  COLUMNS = 2
  Locations <- SomeLocations
  Command = Command
  Nobody = Nobody
  Null = Null
SPECIFICATION FairSpec
INVARIANTS RightItem
PROPERTIES QueryEnds
