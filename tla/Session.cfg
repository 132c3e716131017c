SPECIFICATION Spec
CONSTANTS
  c1 = c1
  c2 = c2
  c3 = c3
  Ids <- MCIds
  MaxSaid = 1
  Notes = {"memory"}
  Editions = 1
  MaxSections = 3
  MaxReplies = 2
  Files = {1, 2}
  MayHold <- MCMayHold
  MaxListed = 2
  MaxQueue = 2
  Count = 3
  PageSize = 2
  Queries <- MCQueries
  Matched <- MCMatched
  Exact <- MCExact
  MaxRank = 1
INVARIANTS
  TypeOK
  SavedAndDeleted
  FromItsSource
  QueueIsTrue
  PicksWhatWasRead
  
PROPERTY
  IgnoredStaysOut
CHECK_DEADLOCK FALSE
