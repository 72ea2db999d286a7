SPECIFICATION ImageSpec
CONSTANTS
  MaxNodes = 3
  MaxOpen = 2
  Capacity = 2
  Empty = Empty
  Names = {Empty, a, b}
  Path <- MCPath
  Pids = {p1, p2}
  FlagSets <- MCFlagSets
  Modes <- MCModes
  MaxLeaves = 4
INVARIANTS
  DirectoryTree
  WritersOwn
  NoStaleBytes
  RoundTripRestores
  DamageDetected
  AcceptedIsValid
PROPERTIES
  OpenKeepsNode
SYMMETRY MCSymmetry
