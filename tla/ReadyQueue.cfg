SPECIFICATION Spec
CONSTANTS
  MaxProcesses = 10
  Charged = {4}
  MaxVruntime = 1
INVARIANTS
  TreeWhole
  RedBlack
PROPERTIES
  ImplementsReadySet
  FixupProgresses
