SPECIFICATION FairSpec
CONSTANTS
  Byte <- MCBytes
  Names <- MCNames
  Infinity = 1000
  MaxKeyBytes = 1000
  MaxNumberBytes = 1000
  MaxErrors = 2
  MaxPrefix = 3
  MaxDrop = 6
  Detach = FALSE
  Docs <- MCDocs
  ChunkSizes = {1, 4, 30}
  EditModes = {TRUE}
  MaxTotal = 20
CHECK_DEADLOCK FALSE
INVARIANTS DroppedStaysGone RetentionBounded LimitMatchesSpan VerdictHonest
PROPERTIES QuietOnceDestroyed ResultSettles
