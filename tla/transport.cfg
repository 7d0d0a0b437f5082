SPECIFICATION HealingTransportSpec
CONSTANTS
  hard = hard
  plain = plain
  Conn = {hard, plain}
  Client = {x1, x2, x3}
  NoClient = NoClient
  Caller = {k1, k2}
  NoConn = NoConn
  Retries = 1
  Jumped = {hard}
  FirstSeen = {hard}
  Fallbacks <- MCFallbacks
  EarlyCalls = {hard}
  Throws = {hard, plain}
CONSTRAINT OneRecord
INVARIANTS TransportTypeOK RecordsTended LossesNoticed
PROPERTIES OnlyRealLossKills ImplementsLifecycle ClosingNeverComesUp AnswersAreTrue AnsweredAndHealed
CHECK_DEADLOCK FALSE
