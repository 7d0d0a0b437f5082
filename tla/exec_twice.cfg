SPECIFICATION ExecSpec
CONSTANTS
  safe1 = safe1
  delete1 = delete1
  destroy1 = destroy1
  host = host
  device = device
  NoConn = NoConn
  Conn = {device}
  Call = {destroy1}
  Kind <- MCKind
  Tiers = {"standard"}
  Allows <- DestroyReleased
  Posix = {}
INVARIANT GrantDispatchesOnce
CHECK_DEADLOCK FALSE
