SPECIFICATION Spec
CONSTANTS
  Token <- MCToken
  Answer <- MCAnswer
  Scripts <- CumulativeScripts
  Faults <- CumulativeFaults
  Timeout = 20
  MaxDelay = 10
INVARIANTS
  AnswersIntact
  WholeReply
