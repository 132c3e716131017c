SPECIFICATION FairSpec
CONSTANTS
  MaxSubmissions = 2
  MaxTexts = 1
INVARIANTS
  OneAfterAnother
  NothingLost
  StdoutRestored

  
  
  
CHECK_DEADLOCK FALSE
