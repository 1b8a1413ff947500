SPECIFICATION Spec
CONSTANTS
  Requests = {r1, r2}
  PoolMax = 1
  None = None
INVARIANTS
  EveryAnswerIsEchoed
CHECK_DEADLOCK FALSE
