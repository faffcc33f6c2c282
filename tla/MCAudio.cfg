SPECIFICATION Spec
CONSTANTS
  CHUNK_SIZE = 2
  Capacity = 4
  Raw = Raw
  Values <- Samples
PROPERTY PlaysInOrder
CHECK_DEADLOCK FALSE
