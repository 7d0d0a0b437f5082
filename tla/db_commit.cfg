SPECIFICATION MCDbSpec
CONSTANTS
  k1 = k1
  k2 = k2
  x1 = x1
  DbCall = {k1, k2}
  Tx = {x1}
  Slot = {1}
  MaxLine = 2
  NoSlot = NoSlot
  Nobody = Nobody
  Menu <- MCMenu
  Engines = {"pg"}
  Tunneled = {TRUE}
  Guarded = {g1, g2}
  MaxSuffix = 2
  MaxBorn = 2
  Capable = TRUE
  NoTable = NoTable
  Words = {"SELECT", "TRUNCATE", "t"}
  Punct <- MCPunct
  MaxText = 5
CONSTRAINT Meeting
INVARIANT CommitKeeps
CHECK_DEADLOCK FALSE
