SPECIFICATION Spec
CONSTANTS
  Byte = {"[", "]", ",", "Q", "a", "n", "-", "{", "}", ":"}
  MaxKeyBytes = 100
  MaxNumberBytes = 100
  Infinity = 100
  Document <- MCDocument
  Parity = FALSE
  EnforceBounds = TRUE
  Roots <- MCRoots
  MaxBufferedBytes = 4
  MaxUniqueItems = 1
  MaxLength = 7
INVARIANTS RefusedByteArrived
CHECK_DEADLOCK FALSE
