----------------------------- MODULE MCTerminal -----------------------------
(* TerminalStream for TLC: two mounts.  They are alike, so the first one   *)
(* mounts first.                                                           *)
EXTENDS TerminalStream, TLC
CONSTANTS p1, p2

(* A pane alone meets every failure; so does one that follows another on   *)
(* the same terminal while the session lives; two side by side meet        *)
(* everything but broken streams and lost answers.                         *)
OneScenario ==
  \/ pane[p2] = "new"
  \/ pane[p1] = "off" /\ session = "live"
  \/ pane[p1] # "new" /\ drops = 0 /\ session # "lost"

(* The first pane settles when its own timers and loop go on, whatever the *)
(* second one does.                                                        *)
MCTermSpec == TermSpec /\ PaneFairness(p1)
FirstPaneSettles == PaneSettles(p1)

(* A pane shows what was printed, once, in order and to the end, and no    *)
(* reader sleeps over output it has not been given.                        *)
ReadersSound == NoSleepOverOutput /\ ShownToTheEnd
=============================================================================
