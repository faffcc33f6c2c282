SPECIFICATION Spec
CONSTANTS
  t1 = t1
  t2 = t2
  t3 = t3
  Threads = {t1, t2, t3}
  Nobody = Nobody
  Values = {v1}
  Raw = Raw
  Capacity = 1
  Calls <- RoomWatcher
INVARIANT WaitsOnlyForSpace
