SPECIFICATION Spec
CONSTANTS
  Wire <- MCWire
  Stands <- MCStands
  Astral <- MCAstral
  Code <- MCCode
  Methods = {"GET", "HEAD", "POST"}
  Infinity = Infinity
  Chunks = {1, 2}
  Worlds <- MCWorlds
  Requests <- MCRequests
  Fetches <- MCFetches
  Sizes = {0, 3}
  Limits <- MCLimits
INVARIANTS CapturesAreLazy WireCapturesDecode AllowedIsHonest CollisionsRefused CachesNeverShow
PROPERTIES BodyIsWhole
CHECK_DEADLOCK FALSE
