SPECIFICATION MCSpec
CONSTANTS
  Objects = {o1, o2, o3, o4}
  NoObject = NoObject
  Attributes <- MCAttributes
  RootLists <- MCRootLists
  MaxActs = 1
INVARIANTS OutlivesOperation CompletedIsReported OutcomesAreTrue
PROPERTIES FollowsPolicy OperationEnds
CHECK_DEADLOCK FALSE
