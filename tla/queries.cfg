SPECIFICATION Spec
CONSTANTS
  Transactions <- MCTransactions
  Accounts = {"nubank", "c6", "checking"}
  Jobs = {"n1", "c1", "a1", "n2"}
  Data <- MCData
  AccountData <- MCAccountData
  Old = {"n1"}
  Filters <- MCFilters
  Limit = 2
  TransferCategories = {"transfer", "bill"}
  None = None
  Absent = Absent
INVARIANTS
  TypeOK
  PageIsFull
  PagingMissesNothing
  EveryRowResolves
  EntryIsListed
  ReportsAddUp
