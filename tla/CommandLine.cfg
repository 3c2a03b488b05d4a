CONSTANTS
  Words <- TheWords
  ValueOf <- TheValues
  Copied <- TheCopies
  Strays = {"log"}
  Null = Null
  INT = 8
  LONG = 32
  DEFAULT_INTERVAL = "5"
  DEFAULT_LOG_FILE = "log"
  Busy <- NothingOrAll
SPECIFICATION Spec
INVARIANTS LineIsUnderstood DefaultIsAnInterval
