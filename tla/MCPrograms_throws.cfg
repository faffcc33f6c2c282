SPECIFICATION ProgramSpec
CONSTANTS
  t1 = t1
  t2 = t2
  t3 = t3
  Threads = {t1, t2, t3}
  Nobody = Nobody
  Raw = Raw
  Values <- Packets
  Capacity = 2
  MaxCount = 3
  SizeMax = 7
  Calls <- Everything
  Crews <- RacingCrew
INVARIANT TimedPopNeverThrows
CHECK_DEADLOCK FALSE
