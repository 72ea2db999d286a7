SPECIFICATION Spec
CONSTANTS
  ArenaSize = 112
  Header = 12
  Alignment = 8
  Word = 256
  Sizes = {0, 1, 8, 20, 60, 255}
  MaxCalls = 6
INVARIANTS
  Tiled
  Coalesced
  StatsAddUp
  LargeEnough
CHECK_DEADLOCK FALSE
