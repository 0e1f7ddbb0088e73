CONSTANTS
  NCells = 5
  NULL = NULL
SPECIFICATION CellsSpec
INVARIANTS ListsAreThePool
PROPERTIES RefinesCellPool
