SPECIFICATION LoggerSpec
CONSTANTS
  e1 = e1
  e2 = e2
  e3 = e3
  Values = {e1, e2, e3}
  Level <- SomeLevels
  Raw = Raw
  Capacity = 2
  MaxEntries = 4
  MaxFile = 4
INVARIANTS LiveExactly KeepsNewest ShowsNewest FileEndsWithBuffer
PROPERTY ImplementsWindow
