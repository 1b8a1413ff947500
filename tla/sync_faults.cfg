SPECIFICATION Spec
CONSTANTS
  Requests = {r1, r2}
  Choices = {"all", "nubank_account", "unknown"}
  Attachments = {1, 2, 3, 4, 5}
  MsgOf <- FaultyMsgOf
  ImporterOf <- FaultyImporterOf
  CardOf <- FaultyCardOf
  Rows <- FaultyRows
  Cards = {"", "A", "B", "C"}
  Hashes = {"h1", "h2", "h3", "h4", "h5"}
  MaxResults = 3
  Unparsable = {1}
  Unencodable = {5}
  BadRow <- FaultyBadRow
  LongCards = {"B"}
  Faults = {"gmail", "lost", "crash"}
SYMMETRY RequestSymmetry
INVARIANTS
  TypeOK
  ReferentialIntegrity
  Accounted
  CleanReportIsDurable
  FailureIsRetryable
