SPECIFICATION Spec
CONSTANTS
  Apps <- MCApps
INVARIANTS RefusedKeepsItsReply
CHECK_DEADLOCK FALSE
