CONSTANTS
  webmon = webmon
  Webmon = webmon
  Callers <- OneCaller
  Nodes = {1, 2, 3, 4}
  Items = {a, b}
  Null = Null
  GRAPH_HISTORY_LEN = 2
SPECIFICATION Spec
INVARIANTS NeverBroken
PROPERTIES KeepsTheLast ImplementsRecords
