SPECIFICATION RemoteSpec
CONSTANTS
  Script = {sc1, sc2}
  Path = {"/a/x", "/b/x"}
  Base <- MCBase
  Retention = 1
  MaxTime = 2
  MaxContent = 3
  MaxSpoilt = 1
  e1 = e1
  e2 = e2
  c1 = c1
  c2 = c2
  Editor = {e1, e2}
  Server = {c1, c2}
  Unreadable = {3}
  MaxVersion = 4
  MaxRequests = 3
  FileConn = {"A", "B"}
  Dir = {"/", "/a"}
  MaxLoads = 4
  MaxChanges = 2
  TreeFile = {1, 2, 3, 4}
  BigFile = {4}
  Pool = 2
  MaxOwed = 1
  w1 = w1
  w2 = w2
  Tab = {w1, w2}
  NoTab = NoTab
  Chunks = 2
  Versions = {1, 2}
  MaxRetries = 1
  Parts = 2
  ScpLimit = 1
  k1 = k1
  k2 = k2
  v1 = v1
  v2 = v2
  Conn = {k1, k2}
  View = {v1, v2}
  NoConn = NoConn
  Settings = Settings
  MaxReveals = 1
  MaxCalls = 2
  MaxEvents = 3
CONSTRAINT OneScenario
SYMMETRY Windows
INVARIANTS RemoteTypeOK TrashReversible PanesSound DownloadExact TransfersHonest
PROPERTY ReplacesWhatWasRead
CHECK_DEADLOCK FALSE
