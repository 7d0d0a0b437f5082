SPECIFICATION MCTermSpec
CONSTANTS
  p1 = p1
  p2 = p2
  Pane = {p1, p2}
  NoPane = NoPane
  MaxOut = 3
  Cap = 2
  MaxChan = 1
  Drops = 1
CONSTRAINT OneScenario
INVARIANTS TerminalTypeOK ReadersSound
PROPERTY FirstPaneSettles
CHECK_DEADLOCK FALSE
