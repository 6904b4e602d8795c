SPECIFICATION Spec
CONSTANTS
  Apps <- MCApps
  MaxSends = 2
  MaxOwed = 3
INVARIANTS RefusedUnrouted CheckedOnce BadIsReported
PROPERTIES HeldIsAnswered
CHECK_DEADLOCK FALSE
