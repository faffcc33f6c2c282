SPECIFICATION HandleSpec
CONSTANTS
  Values = {v1, v2}
  Raw = Raw
  Capacity = 3
SYMMETRY ValueSymmetry
INVARIANTS TypeOK FullFlagExact TailLag OverwriteMark SizesAgree IntactUntilTorn RightUntilStrayed ReferencesHold LoopsComplete
