SPECIFICATION Spec
CONSTANTS
  Byte = {"{", "}", "[", "]", ",", ":", "w", "Q", "n", "-", "t", "x"}
  MaxKeyBytes = 3
  MaxNumberBytes = 2
  MaxLength = 9
  MaxQuoted = 2
  MaxSpace = 1
CHECK_DEADLOCK FALSE
INVARIANTS ReadsJson EventsInText
