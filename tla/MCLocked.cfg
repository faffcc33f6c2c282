SPECIFICATION ObservedSpec
CONSTANTS
  t1 = t1
  t2 = t2
  t3 = t3
  Threads = {t1, t2, t3}
  Nobody = Nobody
  Values = {v1, v2}
  Raw = Raw
  Capacity = 2
  MaxCount = 3
  SizeMax = 7
  Calls <- LockedOnly
PROPERTY ImplementsChannel
