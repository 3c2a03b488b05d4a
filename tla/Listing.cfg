CONSTANTS
  t1 = t1
  t2 = t2
  t3 = t3
  cmd = cmd
  web = web
  Threads <- AllThreads
  Command = cmd
  Viewers <- CommandAndWebmon
  Callers <- AllCallers
  Items <- AllThreads
  Nodes = {1, 2, 3}
  Null = Null
SPECIFICATION Spec
INVARIANTS NoFreedNode NothingLeaks
PROPERTIES ImplementsRecords
