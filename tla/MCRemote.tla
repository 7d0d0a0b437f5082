------------------------------ MODULE MCRemote ------------------------------
(* The remote file modules for TLC: the trash, the editor, the file panel, *)
(* directory transfers, downloads, archives and SCP, and the panes that    *)
(* show the connections.  They share no state, so a behaviour is about one *)
(* of them, its focus.                                                     *)
EXTENDS TrashCan, EditorSave, FilePanel, DirTransfer, Download, ExecPipes, PaneViews, TLC
CONSTANTS e1, e2, c1, c2, w1, w2, k1, k2, v1, v2
VARIABLE focus

MCBase == [p \in Path |-> "x"]

RemoteInit ==
  /\ focus \in {"trash", "edit", "panel", "dir", "down", "pipes", "views"}
  /\ TrashInit /\ EditInit /\ PanelInit /\ DirInit /\ DownInit /\ PipesInit /\ ViewsInit
  /\ panel.conn = "A"
  /\ focus # "dir" => dirKind = "upload" /\ ~bound
  /\ focus # "down" => source = 1
  /\ focus # "views" => host.used = {} /\ \A v \in View : dock[v] = "absent"
  /\ focus # "pipes" => scp.dir = "t" /\ scp.size = 0

RemoteNext ==
  /\ UNCHANGED focus
  /\ \/ focus = "trash" /\ TrashNext /\ UNCHANGED <<editVars, panelVars, dirVars, downVars, pipesVars, viewVars>>
     \/ focus = "edit" /\ EditNext /\ UNCHANGED <<trashVars, panelVars, dirVars, downVars, pipesVars, viewVars>>
     \/ focus = "panel" /\ PanelNext /\ UNCHANGED <<trashVars, editVars, dirVars, downVars, pipesVars, viewVars>>
     \/ focus = "dir" /\ DirNext /\ UNCHANGED <<trashVars, editVars, panelVars, downVars, pipesVars, viewVars>>
     \/ focus = "down" /\ DownNext /\ UNCHANGED <<trashVars, editVars, panelVars, dirVars, pipesVars, viewVars>>
     \/ focus = "pipes" /\ PipesNext /\ UNCHANGED <<trashVars, editVars, panelVars, dirVars, downVars, viewVars>>
     \/ focus = "views" /\ ViewsNext /\ UNCHANGED <<trashVars, editVars, panelVars, dirVars, downVars, pipesVars>>

RemoteSpec ==
  RemoteInit /\ [][RemoteNext]_<<focus, trashVars, editVars, panelVars, dirVars, downVars, pipesVars, viewVars>>

(* Two editors meet on one server; one editor alone changes servers.  One  *)
(* link moves beside a rename that was not answered, and the two windows   *)
(* retry once between them.                                                *)
OneScenario ==
  /\ \/ ed[e2] = Closed
     \/ /\ remote[c2] = 1 /\ backups[c2] = {}
        /\ \A e \in Editor : ed[e].conn = Closed.conn /\ ed[e].to = Closed.conn
  /\ owed = {} \/ Cardinality(outside) <= 1
  /\ tab[w1].tries + tab[w2].tries <= 1
(* Windows, panes and connections are interchangeable.                     *)
Windows == Permutations({w1, w2}) \cup Permutations({v1, v2}) \cup Permutations({k1, k2})

(* The types of the seven modules: entries of the trash and running        *)
(* listings have names of their own, an editor with text was opened, a     *)
(* pane selects one of its servers.                                        *)
RemoteTypeOK ==
  /\ TrashTypeOK /\ EditorTypeOK /\ PanelTypeOK
  /\ DirTypeOK /\ DownTypeOK /\ PipesTypeOK /\ ViewsTypeOK

(* What directory transfers, archives and SCP answer is what arrived.      *)
TransfersHonest == DirHonest /\ PipesFailClosed

(* What the panels show is what is there: the listing asked for last in    *)
(* the file panel, and for every live connection a pane that can close it. *)
PanesSound == ShowsTheLatest /\ ViewsSound
=============================================================================
