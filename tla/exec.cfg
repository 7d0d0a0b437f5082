SPECIFICATION FairExecSpec
CONSTANTS
  safe1 = safe1
  delete1 = delete1
  destroy1 = destroy1
  host = host
  device = device
  NoConn = NoConn
  Conn = {host, device}
  Call = {safe1, delete1, destroy1}
  Kind <- MCKind
  Tiers = {"standard", "custom"}
  Allows <- DestroyReleased
  Posix = {host}
CONSTRAINT OneScenario
INVARIANTS ExecTypeOK OnlyWhereAllowed HarmIsNotReplayed SingleQuery
PROPERTY HarmlessExecEnds
CHECK_DEADLOCK FALSE
