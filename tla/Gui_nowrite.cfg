SPECIFICATION FairSpec
CONSTANTS
  MaxSubmissions = 2
  MaxTexts = 1
PROPERTIES
  ClosesAfterReply
CHECK_DEADLOCK FALSE
