SPECIFICATION Spec
CONSTANTS
  Streams <- Short
  Early = 0
  Faults <- CutOnly
  MaxLen = 3
INVARIANTS
  FramesIntact
