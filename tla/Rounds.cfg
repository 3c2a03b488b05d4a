CONSTANTS
  LONG = 14
  UINT = 5
  MAX_USEC_SLEEP = 3
  Intervals <- SomeIntervals
  MAX_WORK = 6
  MAX_TIME = 6
SPECIFICATION Spec
INVARIANTS KeepsTheInterval NeverOversleeps
