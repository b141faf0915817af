SPECIFICATION Spec
CONSTANTS
  IndexSpan = 3
  GenerationSpan = 4
  Addresses = {a1, a2, a3}
  NoEntry = NoEntry
  Unused = Unused
  Blank = Blank
  Documents = {rbac, audit, malformed}
  WellFormed = {rbac, audit}
  HostValues <- MCHostValues
INVARIANTS
  TypeOK
  EntriesOwned
PROPERTIES
  StaleStaysStale
  HandleKeepsPolicy
  StoreImplemented
CHECK_DEADLOCK FALSE
