SPECIFICATION Spec
CONSTANTS
  c1 = c1
  c2 = c2
  s1 = s1
  s2 = s2
  None = None
  Conv <- MCConv
  Session <- OneSession
  MaxMsgs = 2
  MaxLogs = 1
  MaxGone = 1
  Faults <- ResaveOnly
INVARIANTS
  IndexExact
