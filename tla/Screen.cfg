SPECIFICATION ScreenSpec
CONSTANTS
  Width = 3
  Height = 2
  Colors = {0, 1}
  Background = 0
  Xs <- MCColumns
  Ys <- MCRows
  Extents = {2}
  SourceStride = 3
  Fills = {1}
  Sources <- MCSources
  Logos <- MCLogos
  QueueCapacity = 2
  TimerCapacity = 2
  Word = 3
  MaxTime = 4
  InputTypes = {"key"}
  Owners = {1}
  Tokens = {7, 8}
  Delays = {0, 1, 2}
INVARIANTS
  DamageTight
PROPERTIES
  PresentShowsDrawn
  ImplementsUiEvents
  OnTimeUnlessWrapped
