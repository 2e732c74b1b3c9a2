CONSTANTS
  p1 = p1
  p2 = p2
  Processes = {p1, p2}
  Records = {1, 2, 3}
  Size <- Sizes
  MaxBytes = 1
  Scenarios <- OnlyAlone
  MaxVersion = 7
SPECIFICATION Spec
INVARIANT StorageBounded
