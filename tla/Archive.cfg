SPECIFICATION Spec
CONSTANTS
  p1 = p1
  p2 = p2
  c1 = c1
  c2 = c2
  code = code
  notes = notes
  b1 = b1
  b2 = b2
  None = None
  Edited = Edited
  Torn = Torn
  Proc <- OneProc
  Conv <- MCConv
  Name <- MCName
  Hinted <- MCHinted
  Headed <- MCHeaded
  Old <- OneOld
  Body <- MCBody
  WriteHere = TRUE
  LastNumber = 4
  MaxBlocks = 2
  MaxCopies = 8
  MaxDays = 2
  MaxEdits = 1
  MaxCrashes = 1
  Faults <- NoFaults
SYMMETRY Symmetry
INVARIANTS
  
  Migrated
  Extracted
PROPERTIES
  NothingOverwritten
  NoCopies
