SPECIFICATION FairSpec
CONSTANTS
  t1 = t1
  t2 = t2
  Threads = {t1, t2}
  Nobody = Nobody
  Values = {v1}
  Raw = Raw
  Capacity = 1
  MaxCount = 1
  SizeMax = 7
  Calls <- Everything
INVARIANT TypeOK
PROPERTY TimedTransferReturns
CHECK_DEADLOCK FALSE
