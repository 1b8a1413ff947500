SPECIFICATION Spec
CONSTANTS
  Backfills = {b1}
  Reports = {q1}
  Transactions <- MCTransactions
  Old <- MCOld
  Nubank <- MCNubank
  Spending <- MCSpending
  Categories = {"Transferencia", "Transporte"}
  TransferCategories = {"Transferencia"}
  FirstCategory <- MCFirst
  Infer <- MCInfer
  None = None
  Absent = Absent
  Faults = {}
INVARIANTS
  ReportSplits
