SPECIFICATION FairSpec
CONSTANTS
  Byte <- MCBytes
  Names <- MCNames
  Infinity = 1000
  MaxKeyBytes = 1000
  MaxNumberBytes = 1000
  MaxErrors = 1
  MaxPrefix = 4
  MaxDrop = 1000
  Detach = TRUE
  Docs <- MCDocs
  ChunkSizes = {1, 4, 30}
  EditModes = {TRUE, FALSE}
  MaxTotal = 27
CHECK_DEADLOCK FALSE
INVARIANTS PushedIsEdited OutputIsJson ReleasedInput EchoIsVerbatim
