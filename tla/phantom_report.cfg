SPECIFICATION Spec
CONSTANTS
  Requests = {r1}
  Choices = {"c6"}
  Attachments = {1, 2, 3, 4, 5}
  MsgOf <- FaultyMsgOf
  ImporterOf <- FaultyImporterOf
  CardOf <- FaultyCardOf
  Rows <- FaultyRows
  Cards = {"", "A", "B", "C"}
  Hashes = {"h1", "h2", "h3", "h4", "h5"}
  MaxResults = 3
  Unparsable = {}
  Unencodable = {}
  BadRow <- FaultyBadRow
  LongCards = {}
  Faults = {}
INVARIANTS
  ReportIsDurable
