SPECIFICATION FairSpec
CONSTANTS
  Requests = {r1, r2}
  PoolMax = 1
  None = None
INVARIANTS
  TypeOK
  AnswersAreTraced
  StopsClean
  ProbeIsFair
PROPERTIES
  Responds
CHECK_DEADLOCK FALSE
