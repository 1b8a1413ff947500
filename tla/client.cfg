SPECIFICATION FairSpec
CONSTANTS
  Calls = {c1, c2}
  Json = {c2}
  Attempts = 2
INVARIANTS
  TypeOK
  ResultIsLastAnswer
PROPERTIES
  ImplementsRemoteCall
  Responds
CHECK_DEADLOCK FALSE
