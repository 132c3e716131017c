SPECIFICATION FairSpec
CONSTANTS
  Token <- MCToken
  Answer <- MCAnswer
  Scripts <- FragmentScripts
  Faults <- FragmentFaults
  Timeout = 20
  MaxDelay = 10
PROPERTIES
  ImplementsReply
  CallsEnd
