SPECIFICATION OwnerSpec
CONSTANTS
  Requests = {r1, r2}
  Choices = {"all"}
  Attachments = {1, 2, 3, 4}
  MsgOf <- CrowdedMsgOf
  ImporterOf <- CrowdedImporterOf
  CardOf <- CrowdedCardOf
  Rows <- CrowdedRows
  Cards = {"", "A", "B", "C"}
  Hashes = {"h1", "h2", "h3", "h4"}
  MaxResults = 2
  Unparsable = {}
  Unencodable = {}
  BadRow <- NoBadRow
  LongCards = {}
  Faults = {}
PROPERTIES
  Responds
  EventuallyImported
