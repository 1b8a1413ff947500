SPECIFICATION Spec
CONSTANTS
  Requests = {r1, r2, r3}
  Choices = {"nubank_account"}
  Attachments = {1, 2, 3}
  MsgOf <- OverlapMsgOf
  ImporterOf <- OverlapImporterOf
  CardOf <- OverlapCardOf
  Rows <- OverlapRows
  Cards = {"", "A", "B", "C"}
  Hashes = {"h1", "h2", "h3", "h4"}
  MaxResults = 3
  Unparsable = {}
  Unencodable = {}
  BadRow <- NoBadRow
  LongCards = {}
  Faults = {}
SYMMETRY RequestSymmetry
INVARIANTS
  UniqueKeys
  CompleteImport
PROPERTIES
  ImplementsLedger
