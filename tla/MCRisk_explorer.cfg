SPECIFICATION FairSpec
CHECK_DEADLOCK FALSE
CONSTANTS
  None = None
  Limit = 2
  Initial <- MCInitial
  Writes <- MCWrites
  MaxRequests = 3
INVARIANTS AnswersKeepContract WalkMissesNothing
PROPERTIES ShownNeverGoesBack ServerComesBack
