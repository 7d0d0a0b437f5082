SPECIFICATION TransportSpec
CONSTANTS
  hard = hard
  plain = plain
  Conn = {hard}
  Client = {x1, x2, x3}
  NoClient = NoClient
  Caller = {k1}
  NoConn = NoConn
  Retries = 1
  Jumped = {hard}
  FirstSeen = {hard}
  Fallbacks <- MCFallbacks
  EarlyCalls = {hard}
  Throws = {hard}
PROPERTY DisconnectIsFinal
CHECK_DEADLOCK FALSE
