SPECIFICATION OwnerSpec
CONSTANTS
  Backfills = {b1, b2}
  Reports = {q1}
  Transactions <- MCTransactions
  Old <- MCOld
  Nubank <- MCNubank
  Spending <- MCSpending
  Categories = {"Transferencia", "Transporte"}
  TransferCategories = {"Transferencia"}
  FirstCategory <- MCFirst
  Infer <- MCInfer
  None = None
  Absent = Absent
  Faults = {"lost", "crash"}
INVARIANTS
  TypeOK
  CategorySound
  UpdatedIsDurable
  ReportMissesNothing
PROPERTIES
  CategoriesAreFinal
  Responds
  EventuallyCategorised
