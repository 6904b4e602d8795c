SPECIFICATION ScanSpec
CONSTANTS
  Infinity = 100
  Owners = {s1, s2, s3}
  Offsets = {3, 5}
  ChunkSizes = {1, 2, 30}
  Batch = 3
  Strings <- MCStrings
INVARIANTS SlicesFollowText RefusedAtTheLimit MalformedLocated
PROPERTIES ImplementsOpenRegions
CHECK_DEADLOCK FALSE
