SPECIFICATION MCAgentSpec
CONSTANTS
  p1 = p1
  p2 = p2
  d1 = d1
  None = None
  Profile = {p1}
  Cred = {c1}
  Group = {g1}
  Db = {d1}
  Call = {q1, q2}
  Conn = {n1, n2}
  NoConn = NoConn
  Prof = {p1, p2}
  Asks = {a1, a2}
  Targets <- MCTargets
  Workers = 1
  NameOf <- MCNameOf
  Queries <- MCQueries
  Dialer = {e1, e2}
  Key = {k1, k2}
  NoKey = NoKey
  Tree <- MCTree
  Local <- MCLocal
  Cwd <- MCCwd
  Roots <- MCRoots
  Inputs <- MCInputs
  Unbound = Unbound
  MaxOut = 3
  Cap = 2
  MaxRec = 2
SYMMETRY MCSymmetry
CONSTRAINT Bounds
INVARIANTS
  AgentWorldTypeOK AgentWorldSound AgentHeldInPlace RecordingSound
CHECK_DEADLOCK FALSE
