SPECIFICATION Spec
CONSTANTS
  t1 = t1
  t2 = t2
  t3 = t3
  Threads = {t1, t2, t3}
  Nobody = Nobody
  Values = {v1, v2}
  Raw = Raw
  Capacity = 2
  Calls <- EveryFunction
INVARIANT TypeOK
PROPERTY ImplementsChannel
