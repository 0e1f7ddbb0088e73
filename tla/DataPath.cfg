CONSTANTS
  HASH_ENTRIES = 5
  None = None
  Setups <- Controllers
  MaxCases = 3
  MaxDigests = 3
SPECIFICATION Spec
INVARIANTS
  ConfiguredIsFound LookupsAgree
CHECK_DEADLOCK FALSE
