CONSTANTS
  m1 = m1
  f1 = f1
  Monitors = {m1}
  LogFiles = {f1}
  System = System
  Webmon = Webmon
  Nobody = Nobody
  LogOf <- OneLog
  Limits = {3, 9}
  SYSTEM_FILES = 1
  STARTS = 2
SPECIFICATION Spec
INVARIANTS Accounted ClosesItsOwn EnoughForAll
