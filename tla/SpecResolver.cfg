SPECIFICATION Spec
CONSTANTS
  Entry = "E"
  Docs <- MCDocs
  Worlds <- MCWorlds
  Positions <- MCPositions
  RefKinds = {"operation"}
  Slots <- MCSlots
  Derived <- MCDerived
  Hashes <- MCHashes
INVARIANTS Closed NamesOwn MountsOwn ReadOnce MappingFollows
PROPERTIES Resolves
CHECK_DEADLOCK FALSE
