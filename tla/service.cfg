SPECIFICATION MCServiceSpec
CONSTANTS
  shell1 = shell1
  shell2 = shell2
  tunnel1 = tunnel1
  remote1 = remote1
  sftp1 = sftp1
  sftp2 = sftp2
  known = known
  unseen = unseen
  Conn = {known, unseen}
  Client = {x1, x2}
  NoClient = NoClient
  Caller = {shell1, shell2, tunnel1, remote1, sftp1, sftp2}
  NoConn = NoConn
  Retries = 0
  Jumped = {unseen}
  FirstSeen = {unseen}
  Fallbacks <- NoFallbacks
  EarlyCalls = {unseen}
  Throws = {known, unseen}
  Kind <- MCKind
  MaxSessions = 1
  MaxKeys = 3
  MaxLine = 1
  MaxCarry = 5
  MaxFed = 9
  MaxChunk = 2
  MaxCapture = 2
  MaxPrinted = 4
  MaxBurst = 3
  Devices <- MCDevices
  Holdings <- MCHoldings
  FirstTries = 1
  MaxDials = 3
  Lines <- MCLines
  Greetings <- MCGreetings
  MaxBytes = 3
  Openings <- MCOpenings
  Payload <- MCPayload
SYMMETRY ClientSymmetry
CONSTRAINT Bounds
INVARIANTS ServiceWorldTypeOK MapsSound TerminalLineSound ConnectingSound
CHECK_DEADLOCK FALSE
