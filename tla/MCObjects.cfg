SPECIFICATION Spec
CONSTANTS
  Values = {v1, v2}
  Raw = Raw
  Objects = {x, y}
  Absent = Absent
  Blocks = {b1, b2, b3}
  Null = Null
  Freed = Freed
  Capacities <- SomeCapacities
SYMMETRY Interchangeable
INVARIANTS TypeOK StorageOwned FreedRight ValuesFollow BackFollows
CHECK_DEADLOCK FALSE
