SPECIFICATION Spec
CONSTANTS
  c1 = c1
  c2 = c2
  Conv <- MCConv
  MaxAsks = 3
  MaxAll = 4
  MaxFiles = 2
  Faults <- NoFault
SYMMETRY Symmetry
INVARIANTS
  FilesOnce
  TurnsInOrder
  InContext
  NoOtherContext
