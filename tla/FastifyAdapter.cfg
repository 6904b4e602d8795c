SPECIFICATION Spec
CONSTANTS
  Apps <- MCApps
INVARIANTS RefusalStands HandlerOutputChecked ReportScope
PROPERTIES SentIsAnswered
CHECK_DEADLOCK FALSE
