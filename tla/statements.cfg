SPECIFICATION Spec
CONSTANTS
  c1 = c1
  c2 = c2
  c3 = c3
  n1 = n1
  n2 = n2
  a1 = a1
  a2 = a2
  None = None
  Messages = {c1, c2, c3, n1, n2, a1, a2}
  StatementOf <- MCStatementOf
  Outflow <- MCOutflow
  IsSpend <- MCIsSpend
  FirstDay = 9
  LastDay = 11
INVARIANTS
  TypeOK
  NothingDoubled
  NothingLost
  AmountsAreRead
  SpendIsReal
CHECK_DEADLOCK FALSE
