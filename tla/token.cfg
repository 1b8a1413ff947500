SPECIFICATION OwnerSpec
CONSTANTS
  Threads = {t1, t2}
  Cli = cli
  Sizes = {1, 2}
  MaxEpoch = 2
  Faults = {"google", "crash", "reauthorize"}
INVARIANTS
  TypeOK
  UnreadableOnlyInSave
PROPERTIES
  Recovers
